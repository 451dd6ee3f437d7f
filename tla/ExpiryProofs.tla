---------------------------- MODULE ExpiryProofs ----------------------------
(***************************************************************************)
(* How exactly and how late rows end, for every duration, every number of   *)
(* digits, and every length of a reconcile.                                *)
(***************************************************************************)
EXTENDS Expiry, WellFoundedInduction, SequenceTheorems, TLAPS

LEMMA SecondsOf ==
  ASSUME NEW t \in Nat
  PROVE  /\ Seconds(t) \in Nat
         /\ Second * Seconds(t) <= t /\ t < Second * Seconds(t) + Second
<1>1. Second \in Nat \ {0}
  BY DigitsAssumption
<1>2. QED
  BY <1>1 DEF Seconds

(* The second of a time orders it up to less than a second. *)
LEMMA SecondsApart ==
  ASSUME NEW t \in Nat, NEW u \in Nat, Seconds(t) <= Seconds(u)
  PROVE  t < u + Second
<1>1. Second \in Nat \ {0}
  BY DigitsAssumption
<1>2. Seconds(t) \in Nat /\ Seconds(u) \in Nat
  BY SecondsOf
<1>3. Second * Seconds(t) <= Second * Seconds(u)
  BY <1>1, <1>2
<1>4. t < Second * Seconds(t) + Second /\ Second * Seconds(u) <= u
  BY SecondsOf
<1> DEFINE a == Second * Seconds(t)
           b == Second * Seconds(u)
<1>5. a \in Nat /\ b \in Nat
  BY <1>1, <1>2
<1>6. a <= b /\ t < a + Second /\ b <= u
  BY <1>3, <1>4
<1> HIDE DEF a, b
<1>7. QED
  BY <1>1, <1>5, <1>6

(* The order of seconds is that of times a second apart. *)
LEMMA SecondsOrder ==
  ASSUME NEW t \in Nat, NEW u \in Nat, Seconds(t) < Seconds(u)
  PROVE  t < u
<1>1. Seconds(t) \in Nat /\ Seconds(u) \in Nat
  BY SecondsOf
<1> SUFFICES ASSUME u <= t PROVE FALSE
  OBVIOUS
<1>2. Second \in Nat \ {0}
  BY DigitsAssumption
<1>3. u \div Second <= t \div Second
  BY <1>2
<1>4. QED
  BY <1>1, <1>3 DEF Seconds

(* There is a shortest way to write a fraction. *)
LEMMA KeptIs ==
  ASSUME NEW t
  PROVE  /\ Kept(t) \in 0 .. Width
         /\ \A i \in Kept(t) + 1 .. Width : FractionDigit(t, i) = 0
<1>1. Width \in Nat \ {0}
  BY DigitsAssumption
<1> DEFINE Enough == {n \in 0 .. Width : \A i \in n + 1 .. Width : FractionDigit(t, i) = 0}
<1>2. Width \in Enough
  BY <1>1
<1>3. Enough \subseteq Nat
  OBVIOUS
<1>4. PICK n \in Enough : \A m \in Enough : ~(<<m, n>> \in OpToRel(<, Nat))
  BY <1>2, <1>3, NatLessThanWellFounded, WFMin
<1>5. \A m \in Enough : ~(m < n)
  BY <1>3, <1>4 DEF OpToRel
<1>6. n > 0 => FractionDigit(t, n) # 0
  <2> SUFFICES ASSUME n > 0, FractionDigit(t, n) = 0 PROVE FALSE
    OBVIOUS
  <2>1. n - 1 \in 0 .. Width
    BY <1>1
  <2>2. \A i \in (n - 1) + 1 .. Width : FractionDigit(t, i) = 0
    <3> TAKE i \in (n - 1) + 1 .. Width
    <3>1. i = n \/ i \in n + 1 .. Width
      BY <1>1
    <3>2. QED
      BY <3>1
  <2>3. QED
    BY <1>5, <2>1, <2>2
<1>7. QED
  BY <1>1, <1>6 DEF Kept

-----------------------------------------------------------------------------
(* Fractions as numbers: what the first i digits say, and that a time is    *)
(* told by its second and all of its digits.                               *)
Top(t, i) == (t % Second) \div Unit[i]

LEMMA QuotientBounds ==
  ASSUME NEW x \in Nat, NEW d \in Nat \ {0}
  PROVE  x \div d \in Nat /\ d * (x \div d) <= x /\ x < d * (x \div d) + d
OBVIOUS

LEMMA Quotient ==
  ASSUME NEW x \in Nat, NEW d \in Nat \ {0}, NEW q \in Nat, d * q <= x, x < d * q + d
  PROVE  x \div d = q
<1> DEFINE p == x \div d
<1>1. p \in Nat /\ d * p <= x /\ x < d * p + d
  BY QuotientBounds
<1> HIDE DEF p
<1>2. \A m, n \in Nat : m < n => d * m + d <= d * n
  <2> TAKE m, n \in Nat
  <2> HAVE m < n
  <2>1. PICK k \in Nat : n = m + 1 + k
    <3>1. n - m - 1 \in Nat /\ n = m + 1 + (n - m - 1)
      OBVIOUS
    <3>2. QED
      BY <3>1
  <2>2. d * n = d * m + d + d * k /\ d * k \in Nat /\ d * m \in Nat
    BY <2>1
  <2>3. QED
    BY <2>2
<1>3. ~(p < q) /\ ~(q < p)
  <2>1. d * p \in Nat /\ d * q \in Nat
    BY <1>1
  <2>2. QED
    BY <1>1, <1>2, <2>1
<1>4. p = q
  BY <1>1, <1>3
<1>5. QED
  BY <1>4 DEF p

(* Dividing by a product is dividing twice. *)
LEMMA DividedTwice ==
  ASSUME NEW x \in Nat, NEW a \in Nat \ {0}, NEW b \in Nat \ {0}
  PROVE  x \div (b * a) = (x \div a) \div b
<1> DEFINE q == x \div a
           r == q \div b
<1>1. q \in Nat /\ a * q <= x /\ x < a * q + a
  BY QuotientBounds
<1> HIDE DEF q
<1>2. r \in Nat /\ b * r <= q /\ q < b * r + b
  BY <1>1, QuotientBounds
<1> HIDE DEF r
<1>3. PICK k \in Nat : q = b * r + k
  <2>1. q - b * r \in Nat /\ q = b * r + (q - b * r)
    BY <1>1, <1>2
  <2>2. QED
    BY <2>1
<1>4. PICK l \in Nat : b = k + 1 + l
  <2>1. b * r \in Nat
    BY <1>2
  <2>2. b - k - 1 \in Nat /\ b = k + 1 + (b - k - 1)
    BY <1>2, <1>3, <2>1
  <2>3. QED
    BY <2>2
<1>5. a * q = (b * a) * r + a * k
  BY <1>2, <1>3
<1>6. b * a = a * k + a + a * l
  BY <1>4
<1>7. /\ a * q \in Nat /\ (b * a) * r \in Nat /\ a * k \in Nat /\ a * l \in Nat
      /\ b * a \in Nat \ {0}
  BY <1>1, <1>2
<1>8. (b * a) * r <= x /\ x < (b * a) * r + b * a
  BY <1>1, <1>5, <1>6, <1>7
<1>9. x \div (b * a) = r
  BY <1>2, <1>7, <1>8, Quotient
<1>10. QED
  BY <1>9 DEF r, q

(* One digit more. *)
LEMMA NextDigit ==
  ASSUME NEW t \in Nat, NEW i \in 1 .. Width
  PROVE  /\ Top(t, i) = Base * Top(t, i - 1) + FractionDigit(t, i)
         /\ Top(t, i) \in Nat /\ Top(t, i - 1) \in Nat
         /\ FractionDigit(t, i) \in 0 .. Base - 1 /\ FractionDigit(t, i) \in Nat
<1>1. /\ Base \in Nat \ {0} /\ Unit[i] \in Nat \ {0} /\ Unit[i - 1] = Base * Unit[i]
      /\ t % Second \in Nat /\ Width \in Nat
  BY DigitsAssumption
<1> DEFINE x == t % Second
           y == x \div Unit[i]
<1>2. x \in Nat /\ x \div Unit[i - 1] = y \div Base
  <2> HIDE DEF x
  <2>1. x \in Nat
    BY <1>1 DEF x
  <2>2. QED
    BY <1>1, <2>1, DividedTwice
<1>3. y \in Nat
  BY <1>1
<1> HIDE DEF y
<1>4. y = Base * (y \div Base) + (y % Base) /\ y \div Base \in Nat /\ y % Base \in 0 .. Base - 1
  BY <1>1, <1>3
<1>5. Top(t, i) = y /\ Top(t, i - 1) = y \div Base /\ FractionDigit(t, i) = y % Base
  BY <1>2 DEF Top, FractionDigit, y
<1>6. QED
  BY <1>3, <1>4, <1>5

(* Equal digits, equal numbers. *)
LEMMA SameDigits ==
  ASSUME NEW t \in Nat, NEW u \in Nat, NEW n \in 0 .. Width,
         \A i \in 1 .. n : FractionDigit(t, i) = FractionDigit(u, i)
  PROVE  Top(t, n) = Top(u, n)
<1> DEFINE Wrong == {i \in 0 .. n : Top(t, i) # Top(u, i)}
<1> SUFFICES ASSUME Wrong # {} PROVE FALSE
  <2>1. n \in 0 .. n
    BY DigitsAssumption
  <2>2. QED
    BY <2>1
<1>1. Wrong \subseteq Nat
  OBVIOUS
<1>2. PICK i \in Wrong : \A m \in Wrong : ~(<<m, i>> \in OpToRel(<, Nat))
  BY <1>1, NatLessThanWellFounded, WFMin
<1>3. \A m \in Wrong : ~(m < i)
  BY <1>1, <1>2 DEF OpToRel
<1>4. i # 0
  <2>1. \A v \in Nat : Top(v, 0) = 0
    <3> TAKE v \in Nat
    <3>1. Second \in Nat \ {0} /\ Unit[0] = Second
      BY DigitsAssumption
    <3>2. v % Second \in 0 .. Second - 1
      BY <3>1
    <3>3. \A x \in 0 .. Second - 1 : x \div Second = 0
      BY <3>1
    <3>4. QED
      BY <3>1, <3>2, <3>3 DEF Top
  <2>2. QED
    BY <2>1
<1>5. i \in 1 .. n /\ i \in 1 .. Width /\ i - 1 \in 0 .. n
  BY <1>4, DigitsAssumption
<1>6. Top(t, i - 1) = Top(u, i - 1)
  BY <1>1, <1>3, <1>5
<1>7. FractionDigit(t, i) = FractionDigit(u, i)
  BY <1>5
<1>8. QED
  BY <1>5, <1>6, <1>7, NextDigit

LEMMA TimeOf ==
  ASSUME NEW t \in Nat
  PROVE  /\ t = Second * Seconds(t) + (t % Second)
         /\ Second * Seconds(t) \in Nat /\ t % Second \in Nat
<1>1. Second \in Nat \ {0}
  BY DigitsAssumption
<1>2. QED
  BY <1>1 DEF Seconds

(* Within one second, the first digit that differs decides. *)
LEMMA DigitDecides ==
  ASSUME NEW t \in Nat, NEW u \in Nat, Seconds(t) = Seconds(u), NEW n \in 1 .. Width,
         \A i \in 1 .. n - 1 : FractionDigit(t, i) = FractionDigit(u, i),
         FractionDigit(t, n) < FractionDigit(u, n)
  PROVE  t < u
<1>1. Top(t, n - 1) = Top(u, n - 1)
  <2>1. n - 1 \in 0 .. Width
    BY DigitsAssumption
  <2> DEFINE m == n - 1
  <2>2. m \in 0 .. Width /\ \A i \in 1 .. m : FractionDigit(t, i) = FractionDigit(u, i)
    BY <2>1
  <2> HIDE DEF m
  <2>3. Top(t, m) = Top(u, m)
    BY <2>2, SameDigits
  <2>4. QED
    BY <2>3 DEF m
<1>2. Top(t, n) < Top(u, n)
  <2> DEFINE c == Top(t, n - 1)
             b == Base * c
             d == FractionDigit(t, n)
             e == FractionDigit(u, n)
  <2>1. Base \in Nat
    BY DigitsAssumption
  <2>2. c \in Nat /\ d \in Nat /\ e \in Nat /\ d < e
    BY NextDigit
  <2>3. Top(t, n) = b + d
    BY NextDigit
  <2>4. Top(u, n) = b + e
    BY <1>1, NextDigit
  <2> HIDE DEF c, d, e
  <2>5. b \in Nat
    BY <2>1, <2>2
  <2> HIDE DEF b
  <2>6. QED
    BY <2>2, <2>3, <2>4, <2>5
<1>3. t % Second < u % Second
  <2>1. Unit[n] \in Nat \ {0} /\ t % Second \in Nat /\ u % Second \in Nat
    BY DigitsAssumption, TimeOf
  <2> DEFINE x == t % Second
             y == u % Second
             a == x \div Unit[n]
             b == y \div Unit[n]
  <2>2. /\ a \in Nat /\ b \in Nat
        /\ x < Unit[n] * a + Unit[n] /\ Unit[n] * b <= y
    BY <2>1, QuotientBounds
  <2>3. a < b
    BY <1>2 DEF Top
  <2> HIDE DEF a, b
  <2>4. PICK k \in Nat : b = a + 1 + k
    <3>1. b - a - 1 \in Nat /\ b = a + 1 + (b - a - 1)
      BY <2>2, <2>3
    <3>2. QED
      BY <3>1
  <2>5. Unit[n] * b = Unit[n] * a + Unit[n] + Unit[n] * k /\ Unit[n] * k \in Nat
        /\ Unit[n] * a \in Nat /\ Unit[n] * b \in Nat
    BY <2>1, <2>2, <2>4
  <2>6. x < y
    BY <2>1, <2>2, <2>5
  <2>7. QED
    BY <2>6
<1>4. QED
  <2> DEFINE a == Second * Seconds(t)
             x == t % Second
             y == u % Second
  <2>1. t = a + x /\ u = a + y /\ a \in Nat /\ x \in Nat /\ y \in Nat /\ x < y
    BY <1>3, TimeOf
  <2> HIDE DEF a, x, y
  <2>2. QED
    BY <2>1

(* Equal digits, equal times. *)
LEMMA DigitsTell ==
  ASSUME NEW t \in Nat, NEW u \in Nat, Seconds(t) = Seconds(u),
         \A i \in 1 .. Width : FractionDigit(t, i) = FractionDigit(u, i)
  PROVE  t = u
<1>1. Width \in 0 .. Width /\ Unit[Width] = 1
  BY DigitsAssumption
<1>2. Top(t, Width) = Top(u, Width)
  BY <1>1, SameDigits
<1>3. t % Second = u % Second
  <2>1. t % Second \in Nat /\ u % Second \in Nat
    BY DigitsAssumption
  <2>2. \A x \in Nat : x \div 1 = x
    OBVIOUS
  <2>3. QED
    BY <1>1, <1>2, <2>1, <2>2 DEF Top
<1>4. QED
  BY <1>3, TimeOf
-----------------------------------------------------------------------------
(* Fractions and texts as sequences.                                       *)
LEMMA FractionIs ==
  ASSUME NEW t \in Nat
  PROVE  /\ Fraction(t) \in Seq(Nat)
         /\ Kept(t) = 0 => Len(Fraction(t)) = 0
         /\ Kept(t) # 0 => /\ Len(Fraction(t)) = Kept(t) + 1 /\ Fraction(t)[1] = Dot
                           /\ \A i \in 1 .. Kept(t) :
                                Fraction(t)[i + 1] = Digit(FractionDigit(t, i))
<1> DEFINE K == Kept(t)
           digits == [i \in 1 .. K |-> Digit(FractionDigit(t, i))]
<1>1. K \in Nat /\ K \in 0 .. Width /\ Width \in Nat
  BY KeptIs, DigitsAssumption
<1>2. ASSUME NEW i \in 1 .. K
      PROVE  Digit(FractionDigit(t, i)) \in Nat
  <2>1. i \in 1 .. Width
    BY <1>1, <1>2
  <2>2. FractionDigit(t, i) \in Nat
    BY <2>1, NextDigit
  <2>3. QED
    BY <2>2 DEF Digit
<1>3. digits \in Seq(Nat) /\ Len(digits) = K
  BY <1>1, <1>2
<1>4. Fraction(t) = IF K = 0 THEN <<>> ELSE <<Dot>> \o digits
  BY DEF Fraction
<1>5. <<Dot>> \in Seq(Nat) /\ Len(<<Dot>>) = 1 /\ <<Dot>>[1] = Dot
  BY DEF Dot
<1>6. \A i \in 1 .. K : digits[i] = Digit(FractionDigit(t, i))
  OBVIOUS
<1> HIDE DEF digits
<1>7. CASE K = 0
  BY <1>4, <1>7
<1>8. CASE K # 0
  <2> DEFINE f == <<Dot>> \o digits
  <2>1. /\ f \in Seq(Nat) /\ Len(f) = 1 + K
        /\ \A i \in 1 .. 1 + K : f[i] = IF i <= 1 THEN <<Dot>>[i] ELSE digits[i - 1]
    BY <1>3, <1>5, ConcatProperties
  <2>2. Fraction(t) = f
    BY <1>4, <1>8
  <2> HIDE DEF f
  <2>3. f[1] = Dot /\ \A i \in 1 .. K : f[i + 1] = digits[i]
    BY <1>1, <1>5, <2>1
  <2>4. QED
    BY <1>1, <1>6, <1>8, <2>1, <2>2, <2>3
<1>9. QED
  BY <1>7, <1>8

LEMMA TextIs ==
  ASSUME NEW t \in Nat
  PROVE  /\ Text(t) \in Seq(Nat) /\ Len(Text(t)) = Len(Fraction(t)) + 2
         /\ Text(t)[1] = Seconds(t)
         /\ \A i \in 1 .. Len(Fraction(t)) : Text(t)[i + 1] = Fraction(t)[i]
<1> DEFINE f == Fraction(t)
           a == <<Seconds(t)>>
           z == <<Zulu>>
<1>1. f \in Seq(Nat) /\ Len(f) \in Nat
  BY FractionIs
<1>2. a \in Seq(Nat) /\ Len(a) = 1 /\ a[1] = Seconds(t)
  BY SecondsOf
<1>3. z \in Seq(Nat) /\ Len(z) = 1
  BY DigitsAssumption DEF Zulu
<1>4. Text(t) = (a \o f) \o z
  BY DEF Text
<1> HIDE DEF f, a, z
<1>5. ASSUME NEW v \in Seq(Nat), NEW w \in Seq(Nat), NEW x, x = v \o w
      PROVE  /\ x \in Seq(Nat) /\ Len(x) = Len(v) + Len(w)
             /\ \A i \in 1 .. Len(v) + Len(w) :
                  x[i] = IF i <= Len(v) THEN v[i] ELSE w[i - Len(v)]
  BY <1>5, ConcatProperties
<1> DEFINE b == a \o f
           c == b \o z
<1>6. /\ b \in Seq(Nat) /\ Len(b) = 1 + Len(f)
      /\ \A i \in 1 .. 1 + Len(f) : b[i] = IF i <= 1 THEN a[i] ELSE f[i - 1]
  <2>1. /\ b \in Seq(Nat) /\ Len(b) = Len(a) + Len(f)
        /\ \A i \in 1 .. Len(a) + Len(f) : b[i] = IF i <= Len(a) THEN a[i] ELSE f[i - Len(a)]
    <3>1. a \in Seq(Nat) /\ f \in Seq(Nat) /\ b = a \o f
      BY <1>1, <1>2
    <3> HIDE DEF b
    <3>2. QED
      BY <1>5, <3>1
  <2> HIDE DEF b
  <2>2. QED
    BY <1>2, <2>1
<1> HIDE DEF b
<1>7. /\ c \in Seq(Nat) /\ Len(c) = Len(b) + 1
      /\ \A i \in 1 .. Len(b) + 1 : c[i] = IF i <= Len(b) THEN b[i] ELSE z[i - Len(b)]
  <2>1. c = b \o z /\ b \in Seq(Nat) /\ z \in Seq(Nat)
    BY <1>3, <1>6
  <2> HIDE DEF c
  <2>2. /\ c \in Seq(Nat) /\ Len(c) = Len(b) + Len(z)
        /\ \A i \in 1 .. Len(b) + Len(z) : c[i] = IF i <= Len(b) THEN b[i] ELSE z[i - Len(b)]
    BY <1>5, <2>1
  <2>3. QED
    BY <1>3, <2>2
<1>8. Text(t) = c
  BY <1>4 DEF b
<1> HIDE DEF c
<1>9. Text(t)[1] = a[1]
  BY <1>1, <1>6, <1>7, <1>8
<1>10. ASSUME NEW i \in 1 .. Len(f)
       PROVE  Text(t)[i + 1] = f[i]
  <2>1. i + 1 \in 1 .. 1 + Len(f) /\ ~(i + 1 <= 1) /\ (i + 1) - 1 = i
    BY <1>1, <1>10
  <2>2. b[i + 1] = f[i]
    BY <1>6, <2>1
  <2>3. i + 1 \in 1 .. Len(b) + 1 /\ i + 1 <= Len(b)
    BY <1>1, <1>6, <2>1
  <2>4. QED
    BY <1>7, <1>8, <2>2, <2>3
<1>11. Text(t) \in Seq(Nat) /\ Len(Text(t)) = Len(f) + 2
  <2>1. (1 + Len(f)) + 1 = Len(f) + 2
    BY <1>1
  <2>2. QED
    BY <1>6, <1>7, <1>8, <2>1
<1>12. QED
  BY <1>2, <1>9, <1>10, <1>11 DEF f

(* A text begins with the second, and something follows. *)
LEMMA TextBegins ==
  ASSUME NEW t \in Nat
  PROVE  /\ Text(t)[1] = Seconds(t)
         /\ Len(Text(t)) \in Nat /\ 1 <= Len(Text(t))
<1> DEFINE n == Len(Fraction(t))
<1>1. n \in Nat
  BY FractionIs
<1>2. Len(Text(t)) = n + 2 /\ Text(t)[1] = Seconds(t)
  BY TextIs
<1> HIDE DEF n
<1>3. QED
  BY <1>1, <1>2

(* What the comparison of texts says of times, for any number of digits. *)
LEMMA ExpiredSound ==
  ASSUME NEW t \in Nat, until \in Nat, Expired(t)
  PROVE  until < t + Second
<1>1. ~Before(Text(t), Text(until))
  BY DEF Expired
<1>2. Seconds(until) <= Seconds(t)
  <2> SUFFICES ASSUME ~(Seconds(until) <= Seconds(t)) PROVE FALSE
    OBVIOUS
  <2>1. Seconds(t) < Seconds(until)
    BY SecondsOf
  <2>2. 1 \in 1 .. Len(Text(until)) /\ 1 .. 1 - 1 = {}
    BY TextBegins
  <2>3. Text(t)[1] < Text(until)[1]
    BY <2>1, TextBegins
  <2>4. QED
    BY <1>1, <2>2, <2>3 DEF Before
<1>3. QED
  BY <1>2, SecondsApart

LEMMA ExpiredComplete ==
  ASSUME NEW t \in Nat, until \in Nat, ~Expired(t)
  PROVE  t < until + Second
<1> DEFINE x == Text(t)
           y == Text(until)
<1>1. PICK i \in 1 .. Len(y) : /\ \A j \in 1 .. i - 1 : j <= Len(x) /\ x[j] = y[j]
                               /\ i <= Len(x) => x[i] < y[i]
  BY DEF Expired, Before
<1>2. Seconds(t) <= Seconds(until)
  <2>1. /\ x[1] = Seconds(t) /\ y[1] = Seconds(until)
        /\ Len(x) \in Nat /\ Len(y) \in Nat /\ 1 <= Len(x)
        /\ Seconds(t) \in Nat /\ Seconds(until) \in Nat
    BY TextBegins, SecondsOf
  <2>2. x[1] < y[1] \/ x[1] = y[1]
    <3> HIDE DEF x, y
    <3>1. CASE i = 1
      BY <1>1, <2>1, <3>1
    <3>2. CASE i # 1
      <4>1. 1 \in 1 .. i - 1
        BY <2>1, <3>2
      <4>2. QED
        BY <1>1, <4>1
    <3>3. QED
      BY <3>1, <3>2
  <2>3. QED
    BY <2>1, <2>2
<1>3. QED
  BY <1>2, SecondsApart

-----------------------------------------------------------------------------
(* The order of texts.                                                     *)
(* i is where two fractions that do not continue one another first differ. *)
FirstDiffers(t, u, i) ==
  /\ i \in 1 .. Kept(t) /\ i \in 1 .. Kept(u)
  /\ FractionDigit(t, i) # FractionDigit(u, i)
  /\ \A j \in 1 .. i - 1 : FractionDigit(t, j) = FractionDigit(u, j)

LEMMA SomeDigitDiffers ==
  ASSUME NEW t \in Nat, NEW u \in Nat, Fraction(t) # Fraction(u), ~OneContinues(t, u)
  PROVE  \E i \in Nat : FirstDiffers(t, u, i)
<1> DEFINE f == Fraction(t)
           g == Fraction(u)
           K == Kept(t)
           L == Kept(u)
           Diff == {i \in 1 .. K : i \in 1 .. L /\ FractionDigit(t, i) # FractionDigit(u, i)}
<1>1. K \in Nat /\ L \in Nat
  BY KeptIs, DigitsAssumption
<1>2. f \in Seq(Nat) /\ g \in Seq(Nat) /\ Len(f) \in Nat /\ Len(g) \in Nat /\ f # g
  BY FractionIs
<1>3. ~ProperPrefix(f, g) /\ ~ProperPrefix(g, f)
  BY DEF OneContinues
<1>4. /\ Len(f) = IF K = 0 THEN 0 ELSE K + 1
      /\ Len(g) = IF L = 0 THEN 0 ELSE L + 1
  BY FractionIs
<1>5. /\ \A i \in 1 .. Len(f) : f[i] = IF i = 1 THEN Dot ELSE Digit(FractionDigit(t, i - 1))
      /\ \A i \in 1 .. Len(g) : g[i] = IF i = 1 THEN Dot ELSE Digit(FractionDigit(u, i - 1))
  <2>1. ASSUME NEW v \in Nat, NEW i \in 1 .. Len(Fraction(v))
        PROVE  Fraction(v)[i] = IF i = 1 THEN Dot ELSE Digit(FractionDigit(v, i - 1))
    <3>1. Kept(v) \in Nat
      BY KeptIs, DigitsAssumption
    <3>2. Kept(v) # 0
      BY <2>1, FractionIs
    <3>3. CASE i = 1
      BY <3>2, <3>3, FractionIs
    <3>4. CASE i # 1
      <4>1. i - 1 \in 1 .. Kept(v) /\ i = (i - 1) + 1
        BY <2>1, <3>1, <3>2, <3>4, FractionIs
      <4>2. QED
        BY <3>2, <3>4, <4>1, FractionIs
    <3>5. QED
      BY <3>3, <3>4
  <2>2. QED
    BY <2>1
<1> HIDE DEF f, g, K, L
<1>6. Diff # {}
  <2> SUFFICES ASSUME Diff = {} PROVE FALSE
    OBVIOUS
  <2>1. \A i \in Nat : i \in 1 .. Len(f) /\ i \in 1 .. Len(g) => f[i] = g[i]
    <3> SUFFICES ASSUME NEW i \in Nat, i \in 1 .. Len(f), i \in 1 .. Len(g)
                 PROVE  f[i] = g[i]
      OBVIOUS
    <3>1. i # 1 => i - 1 \in 1 .. K /\ i - 1 \in 1 .. L
      BY <1>1, <1>4
    <3>2. i # 1 => FractionDigit(t, i - 1) = FractionDigit(u, i - 1)
      BY <3>1
    <3>3. QED
      BY <1>5, <3>2
  <2>2. Len(f) = Len(g)
    BY <1>2, <1>3, <2>1 DEF ProperPrefix
  <2>3. \A i \in 1 .. Len(f) : f[i] = g[i]
    BY <1>2, <2>1, <2>2
  <2>4. f = g
    BY <1>2, <2>2, <2>3, SeqEqual
  <2>5. QED
    BY <1>2, <2>4
<1>7. Diff \subseteq Nat
  BY <1>1
<1>8. PICK i \in Diff : \A m \in Diff : ~(<<m, i>> \in OpToRel(<, Nat))
  BY <1>6, <1>7, NatLessThanWellFounded, WFMin
<1>9. \A m \in Diff : ~(m < i)
  BY <1>7, <1>8 DEF OpToRel
<1>10. i \in Nat /\ i \in 1 .. K /\ i \in 1 .. L /\ FractionDigit(t, i) # FractionDigit(u, i)
  BY <1>7
<1>11. \A j \in 1 .. i - 1 : FractionDigit(t, j) = FractionDigit(u, j)
  BY <1>1, <1>9, <1>10
<1>12. QED
  BY <1>10, <1>11 DEF FirstDiffers, K, L

(* Up to there the texts agree, and there the digit decides. *)
LEMMA TextsDiffer ==
  ASSUME NEW t \in Nat, NEW u \in Nat, Seconds(t) = Seconds(u),
         NEW i \in Nat, FirstDiffers(t, u, i)
  PROVE  Before(Text(t), Text(u)) <=> FractionDigit(t, i) < FractionDigit(u, i)
<1> DEFINE x == Text(t)
           y == Text(u)
           d == FractionDigit(t, i)
           e == FractionDigit(u, i)
<1>1. d \in Nat /\ e \in Nat /\ d # e /\ i # 0
  <2>1. i \in 1 .. Width /\ i # 0
    BY KeptIs, DigitsAssumption DEF FirstDiffers
  <2>2. QED
    BY <2>1, NextDigit, DigitsAssumption DEF FirstDiffers
<1>2. ASSUME NEW v \in Nat, i \in 1 .. Kept(v)
      PROVE  /\ Len(Text(v)) \in Nat /\ i + 2 <= Len(Text(v))
             /\ Text(v)[1] = Seconds(v) /\ Text(v)[2] = Dot
             /\ \A j \in 1 .. i : Text(v)[j + 2] = Digit(FractionDigit(v, j))
             /\ Text(v) \in Seq(Nat)
  <2> DEFINE F == Fraction(v)
             K == Kept(v)
             X == Text(v)
  <2>1. K \in Nat /\ K # 0
    BY <1>2, KeptIs, DigitsAssumption
  <2>2. Len(F) = K + 1 /\ F[1] = Dot /\ \A j \in 1 .. K : F[j + 1] = Digit(FractionDigit(v, j))
    BY <2>1, FractionIs
  <2>3. /\ Len(X) = Len(F) + 2 /\ X[1] = Seconds(v) /\ X \in Seq(Nat)
        /\ \A j \in 1 .. Len(F) : X[j + 1] = F[j]
    BY TextIs
  <2> HIDE DEF F, K, X
  <2>4. X[2] = Dot
    <3>1. 1 \in 1 .. Len(F) /\ 1 + 1 = 2
      BY <2>1, <2>2
    <3>2. QED
      BY <2>2, <2>3, <3>1
  <2>5. ASSUME NEW j \in 1 .. i
        PROVE  X[j + 2] = Digit(FractionDigit(v, j))
    <3>1. j \in 1 .. K /\ j + 1 \in 1 .. Len(F) /\ (j + 1) + 1 = j + 2
      BY <1>2, <2>1, <2>2 DEF K
    <3>2. QED
      BY <2>2, <2>3, <3>1
  <2>6. Len(X) \in Nat /\ i + 2 <= Len(X)
    BY <1>2, <2>1, <2>2, <2>3 DEF K
  <2>7. QED
    BY <2>3, <2>4, <2>5, <2>6 DEF X
<1>3. /\ Len(x) \in Nat /\ Len(y) \in Nat /\ i + 2 <= Len(x) /\ i + 2 <= Len(y)
      /\ x \in Seq(Nat) /\ y \in Seq(Nat)
  BY <1>2 DEF FirstDiffers
<1>4. x[i + 2] = d + 1 /\ y[i + 2] = e + 1
  BY <1>1, <1>2 DEF FirstDiffers, Digit
<1>5. ASSUME NEW j \in 1 .. i + 1
      PROVE  x[j] = y[j]
  <2>1. CASE j = 1
    BY <1>2, <2>1 DEF FirstDiffers
  <2>2. CASE j = 2
    BY <1>2, <2>2 DEF FirstDiffers
  <2>3. CASE j # 1 /\ j # 2
    <3>1. j - 2 \in 1 .. i - 1 /\ j - 2 \in 1 .. i /\ j = (j - 2) + 2
      BY <1>5, <2>3
    <3> DEFINE k == j - 2
    <3>2. FractionDigit(t, k) = FractionDigit(u, k)
      BY <3>1 DEF FirstDiffers
    <3>3. k \in 1 .. i /\ j = k + 2 /\ i \in 1 .. Kept(t) /\ i \in 1 .. Kept(u)
      BY <3>1 DEF FirstDiffers
    <3> HIDE DEF k
    <3>4. x[k + 2] = Digit(FractionDigit(t, k))
      BY <1>2, <3>3
    <3>5. y[k + 2] = Digit(FractionDigit(u, k))
      BY <1>2, <3>3
    <3>6. QED
      BY <3>2, <3>3, <3>4, <3>5
  <2>4. QED
    BY <2>1, <2>2, <2>3
<1> HIDE DEF x, y, d, e
<1>6. ASSUME d < e
      PROVE  Before(x, y)
  <2>1. /\ i + 2 \in 1 .. Len(y) /\ x[i + 2] < y[i + 2]
        /\ \A j \in 1 .. (i + 2) - 1 : j <= Len(x) /\ x[j] = y[j]
    BY <1>1, <1>3, <1>4, <1>5, <1>6
  <2>2. QED
    BY <2>1 DEF Before
<1>7. ASSUME Before(x, y)
      PROVE  d < e
  <2>1. PICK k \in 1 .. Len(y) : /\ \A j \in 1 .. k - 1 : j <= Len(x) /\ x[j] = y[j]
                                 /\ k <= Len(x) => x[k] < y[k]
    BY <1>7 DEF Before
  <2>2. ~(k < i + 2)
    <3> SUFFICES ASSUME k < i + 2 PROVE FALSE
      OBVIOUS
    <3>1. k \in 1 .. i + 1 /\ k <= Len(x)
      BY <1>3
    <3>2. x[k] = y[k] /\ x[k] \in Nat
      BY <1>3, <1>5, <3>1
    <3>3. QED
      BY <2>1, <3>1, <3>2
  <2>3. ~(i + 2 < k)
    <3> SUFFICES ASSUME i + 2 < k PROVE FALSE
      OBVIOUS
    <3>1. i + 2 \in 1 .. k - 1
      BY <1>3
    <3>2. QED
      BY <1>1, <1>4, <2>1, <3>1
  <2>4. k = i + 2
    BY <1>3, <2>2, <2>3
  <2>5. QED
    BY <1>1, <1>3, <1>4, <2>1, <2>4
<1>8. QED
  BY <1>6, <1>7 DEF x, y, d, e

(* Texts that are the same are those of one time. *)
LEMMA SameText ==
  ASSUME NEW t \in Nat, NEW u \in Nat, Seconds(t) = Seconds(u), Fraction(t) = Fraction(u)
  PROVE  t = u
<1> DEFINE K == Kept(t)
<1>1. /\ K \in Nat /\ Kept(u) \in Nat
      /\ \A i \in K + 1 .. Width : FractionDigit(t, i) = 0
      /\ \A i \in Kept(u) + 1 .. Width : FractionDigit(u, i) = 0
  BY KeptIs, DigitsAssumption
<1>2. Kept(u) = K
  <2> DEFINE L == Kept(u)
             n == Len(Fraction(t))
  <2>1. (K = 0 => n = 0) /\ (K # 0 => n = K + 1)
    BY FractionIs
  <2>2. (L = 0 => n = 0) /\ (L # 0 => n = L + 1)
    BY FractionIs
  <2>3. K \in Nat /\ L \in Nat
    BY <1>1
  <2> HIDE DEF K, L, n
  <2>4. K = L
    BY <2>1, <2>2, <2>3
  <2>5. QED
    BY <2>4 DEF L
<1>3. ASSUME NEW i \in 1 .. Width
      PROVE  FractionDigit(t, i) = FractionDigit(u, i)
  <2>1. CASE i \in 1 .. K
    <3>1. K # 0 /\ Kept(u) # 0 /\ i \in 1 .. Kept(u)
      BY <1>1, <1>2, <2>1
    <3>2. /\ Fraction(t)[i + 1] = Digit(FractionDigit(t, i))
          /\ Fraction(u)[i + 1] = Digit(FractionDigit(u, i))
      BY <2>1, <3>1, FractionIs
    <3>3. FractionDigit(t, i) \in Nat /\ FractionDigit(u, i) \in Nat
      BY <1>3, NextDigit
    <3>4. QED
      BY <3>2, <3>3 DEF Digit
  <2>2. CASE i \notin 1 .. K
    <3>1. i \in K + 1 .. Width
      BY <1>1, <1>3, <2>2, DigitsAssumption
    <3>2. QED
      BY <1>1, <1>2, <3>1
  <2>3. QED
    BY <2>1, <2>2
<1>4. QED
  BY <1>3, DigitsTell

(* The comparison in byStatusBefore, for all times: it is that of the times *)
(* themselves, but within a second where one fraction continues the other.  *)
LEMMA OrderOfTexts ==
  ASSUME NEW t \in Nat, NEW u \in Nat,
         ~(Seconds(u) = Seconds(t) /\ OneContinues(u, t))
  PROVE  ~Before(Text(t), Text(u)) <=> u <= t
<1> DEFINE x == Text(t)
           y == Text(u)
<1>1. /\ x[1] = Seconds(t) /\ y[1] = Seconds(u)
      /\ Len(x) \in Nat /\ Len(y) \in Nat /\ 1 <= Len(x) /\ 1 <= Len(y)
      /\ Seconds(t) \in Nat /\ Seconds(u) \in Nat
  BY TextBegins, SecondsOf
<1>2. CASE Seconds(t) < Seconds(u)
  <2>1. Before(x, y)
    <3>1. 1 \in 1 .. Len(y) /\ 1 .. 1 - 1 = {}
      BY <1>1
    <3>2. QED
      BY <1>1, <1>2, <3>1 DEF Before
  <2>2. ~(u <= t)
    BY <1>2, SecondsOrder
  <2>3. QED
    BY <2>1, <2>2
<1>3. CASE Seconds(u) < Seconds(t)
  <2>1. ~Before(x, y)
    <3> SUFFICES ASSUME Before(x, y) PROVE FALSE
      OBVIOUS
    <3> HIDE DEF x, y
    <3>1. PICK k \in 1 .. Len(y) : /\ \A j \in 1 .. k - 1 : j <= Len(x) /\ x[j] = y[j]
                                   /\ k <= Len(x) => x[k] < y[k]
      BY DEF Before
    <3>2. CASE k = 1
      BY <1>1, <1>3, <3>1, <3>2
    <3>3. CASE k # 1
      <4>1. 1 \in 1 .. k - 1
        BY <1>1, <3>3
      <4>2. QED
        BY <1>1, <1>3, <3>1, <4>1
    <3>4. QED
      BY <3>2, <3>3
  <2>2. u <= t
    BY <1>3, SecondsOrder
  <2>3. QED
    BY <2>1, <2>2
<1>4. CASE Seconds(t) = Seconds(u) /\ Fraction(t) = Fraction(u)
  <2>1. t = u
    BY <1>4, SameText
  <2>2. ~Before(x, x)
    <3> SUFFICES ASSUME Before(x, x) PROVE FALSE
      OBVIOUS
    <3>1. x \in Seq(Nat)
      BY TextIs
    <3> HIDE DEF x
    <3>2. PICK k \in 1 .. Len(x) : k <= Len(x) => x[k] < x[k]
      BY DEF Before
    <3>3. k <= Len(x) /\ x[k] \in Nat
      BY <1>1, <3>1
    <3>4. QED
      BY <3>2, <3>3
  <2>3. QED
    BY <2>1, <2>2
<1>5. CASE Seconds(t) = Seconds(u) /\ Fraction(t) # Fraction(u)
  <2>1. ~OneContinues(t, u)
    BY <1>5 DEF OneContinues
  <2>2. PICK i \in Nat : FirstDiffers(t, u, i)
    BY <1>5, <2>1, SomeDigitDiffers
  <2>3. /\ i \in 1 .. Width
        /\ FractionDigit(t, i) \in Nat /\ FractionDigit(u, i) \in Nat
        /\ FractionDigit(t, i) # FractionDigit(u, i)
        /\ \A j \in 1 .. i - 1 : FractionDigit(t, j) = FractionDigit(u, j)
    <3>1. i \in 1 .. Width
      BY <2>2, KeptIs, DigitsAssumption DEF FirstDiffers
    <3>2. QED
      BY <2>2, <3>1, NextDigit, DigitsAssumption DEF FirstDiffers
  <2>4. Before(x, y) <=> FractionDigit(t, i) < FractionDigit(u, i)
    BY <1>5, <2>2, TextsDiffer
  <2>5. FractionDigit(t, i) < FractionDigit(u, i) => t < u
    BY <1>5, <2>3, DigitDecides
  <2>6. FractionDigit(u, i) < FractionDigit(t, i) => u < t
    BY <1>5, <2>3, DigitDecides
  <2>7. QED
    BY <2>3, <2>4, <2>5, <2>6
<1>6. QED
  BY <1>1, <1>2, <1>3, <1>4, <1>5

-----------------------------------------------------------------------------
(* The ticker: it fires within an interval of the last reconcile's start,   *)
(* unless it has fired already; a reconcile that is over leaves a tick for  *)
(* at most Between.  main's own reconcile starts when the process does.     *)
Busy == {"query", "apply"}

TickerInv ==
  /\ boot <= now
  /\ worker = "boot" => now = boot /\ ~ticking
  /\ worker = "idle" => ticking
  /\ worker \in Busy => at <= now /\ now <= at + MaxWork
  /\ worker \in Busy /\ ~ticking => at = boot
  /\ ~ticking => ~due
  /\ ticking => /\ now <= fire /\ fire <= now + PollInterval
                /\ worker \in Busy /\ ~due => fire <= at + PollInterval

(* What the query found is open and, by its text, over. *)
FoundInv ==
  found => worker = "apply" /\ row \in {"open", "left"} /\ Expired(at)

(* How long after its time a reconcile that ends the row starts. *)
Slack == IF row = "open" THEN Second + Between ELSE Second + PollInterval + MaxWork

(* How long after its time the tick of that reconcile comes. *)
TickSlack == IF row = "open" THEN Second + PollInterval
             ELSE Second + PollInterval + MaxWork

(* The row that is still open: the next reconcile is near, or the one under *)
(* way will end it, or has found it not to be due.                          *)
RowInv ==
  /\ row = "none" => until = 0
  /\ row = "open" => ticking
  /\ row \in {"open", "left"} =>
       /\ worker = "idle" => IF due THEN now < until + Slack ELSE fire < until + TickSlack
       /\ worker = "query" /\ ticking => at < until + Slack
       /\ worker = "apply" /\ found /\ ticking => at < until + Slack
       /\ worker = "apply" /\ ~found => at < until + Second

IInv == TypeOK /\ TickerInv /\ FoundInv /\ RowInv /\ NotEarly

LEMMA Types ==
  /\ Second \in Nat \ {0} /\ PollInterval \in Nat \ {0}
  /\ TTL \in Nat /\ MaxCall \in Nat /\ MaxCall <= TTL /\ MaxWork \in Nat /\ MaxTime \in Nat
  /\ Between \in Nat /\ PollInterval <= Between /\ MaxWork <= Between
  /\ Between <= PollInterval + MaxWork
BY DigitsAssumption, ExpiryAssumption DEF Between

LEMMA Bounds == IInv => EndsInTime
<1> SUFFICES ASSUME IInv, row \in {"open", "left"}
             PROVE  EndsInTime
  BY DEF EndsInTime
<1>1. {now, boot, until, at, fire} \subseteq Nat
  BY DEF IInv, TypeOK
<1>2. CASE row = "open"
  BY <1>1, <1>2, Types DEF IInv, TypeOK, TickerInv, RowInv, Slack, TickSlack, Busy, EndsInTime
<1>3. CASE row = "left"
  BY <1>1, <1>3, Types DEF IInv, TypeOK, TickerInv, RowInv, Slack, TickSlack, Busy, EndsInTime
<1>4. QED
  BY <1>2, <1>3

LEMMA InitIInv == Init => IInv
<1> SUFFICES ASSUME Init PROVE IInv
  OBVIOUS
<1>1. now \in Nat /\ until \in Nat
  BY Types DEF Init
<1>2. TypeOK
  <2>1. {now, boot, until, ended, at, fire} \subseteq Nat
    BY <1>1 DEF Init
  <2>2. {found, ticking, due} \subseteq BOOLEAN
    BY DEF Init
  <2>3. QED
    BY <2>1, <2>2 DEF Init, TypeOK
<1>3. TickerInv /\ FoundInv /\ NotEarly
  BY <1>1 DEF Init, TickerInv, FoundInv, NotEarly, Busy
<1>4. RowInv
  BY DEF Init, RowInv
<1>5. QED
  BY <1>2, <1>3, <1>4 DEF IInv

LEMMA StepIInv == IInv /\ [Next]_vars => IInv'
<1> SUFFICES ASSUME IInv, [Next]_vars PROVE IInv'
  OBVIOUS
<1> USE Types DEF IInv
<1>0. now \in Nat /\ boot \in Nat /\ until \in Nat /\ at \in Nat /\ fire \in Nat /\ ended \in Nat
  BY DEF TypeOK
<1>1. CASE Open
  <2> USE <1>0, <1>1 DEF Open, tickerVars
  <2>1. TypeOK' /\ TickerInv' /\ NotEarly'
    BY DEF TypeOK, TickerInv, NotEarly, Busy
  <2>2. FoundInv'
    BY DEF FoundInv
  <2>3. RowInv'
    BY DEF RowInv, TypeOK, TickerInv, FoundInv, Busy, Slack, TickSlack
  <2>4. QED
    BY <2>1, <2>2, <2>3
<1>2. CASE Reconcile
  <2> USE <1>0, <1>2 DEF Reconcile, rowVars
  <2>1. TypeOK' /\ TickerInv' /\ NotEarly'
    <3>1. TypeOK' /\ NotEarly'
      BY DEF TypeOK, NotEarly
    <3>2. CASE worker = "boot"
      BY <3>1, <3>2 DEF TickerInv, Busy
    <3>3. CASE worker = "idle" /\ due
      BY <3>1, <3>3 DEF TickerInv, Busy
    <3>4. QED
      BY <3>2, <3>3
  <2>2. FoundInv'
    BY DEF FoundInv
  <2>3. RowInv'
    BY DEF RowInv, TypeOK, TickerInv, FoundInv, Busy, Slack, TickSlack
  <2>4. QED
    BY <2>1, <2>2, <2>3
<1>3. CASE Query
  <2> USE <1>0, <1>3 DEF Query, rowVars, tickerVars
  <2>1. TypeOK' /\ TickerInv' /\ NotEarly'
    BY DEF TypeOK, TickerInv, NotEarly, Busy
  <2>2. FoundInv'
    BY DEF FoundInv, Expired
  <2>3. ~found' /\ row \in {"open", "left"} => at < until + Second
    BY ExpiredComplete
  <2>4. RowInv'
    BY <2>3 DEF RowInv, TypeOK, Slack, TickSlack
  <2>5. QED
    BY <2>1, <2>2, <2>4
<1>4. CASE Return
  <2> USE <1>0, <1>4 DEF Return
  <2>1. TypeOK' /\ TickerInv'
    <3>1. TypeOK'
      <4>1. fire' \in Nat /\ ended' \in Nat
        OBVIOUS
      <4>2. row' \in {"none", "open", "left", "ended"}
        BY DEF TypeOK
      <4>3. {found', ticking', due'} \subseteq BOOLEAN
        BY DEF TypeOK
      <4>4. QED
        BY <4>1, <4>2, <4>3 DEF TypeOK
    <3>2. TickerInv'
      BY DEF TickerInv, Busy
    <3>3. QED
      BY <3>1, <3>2
  <2>2. FoundInv'
    BY DEF FoundInv
  <2>3. NotEarly'
    <3>1. found => until < at + Second /\ at <= now
      BY ExpiredSound DEF FoundInv, TickerInv, Busy
    <3>2. QED
      BY <3>1 DEF NotEarly
  <2>4. RowInv'
    <3>1. CASE found
      BY <3>1 DEF RowInv, FoundInv
    <3>2. CASE ~found
      BY <3>2 DEF RowInv, TypeOK, TickerInv, FoundInv, Busy, Slack, TickSlack
    <3>3. QED
      BY <3>1, <3>2
  <2>5. QED
    BY <2>1, <2>2, <2>3, <2>4
<1>5. CASE Fire
  <2> USE <1>0, <1>5 DEF Fire, rowVars
  <2>1. TypeOK' /\ TickerInv' /\ NotEarly'
    BY DEF TypeOK, TickerInv, NotEarly, Busy
  <2>2. FoundInv'
    BY DEF FoundInv, Expired
  <2>3. RowInv'
    BY DEF RowInv, TypeOK, TickerInv, Busy, Slack, TickSlack
  <2>4. QED
    BY <2>1, <2>2, <2>3
<1>6. CASE Tick
  <2> USE <1>0, <1>6 DEF Tick, rowVars, tickerVars
  <2>1. TypeOK' /\ TickerInv' /\ NotEarly'
    BY DEF TypeOK, TickerInv, NotEarly, Busy
  <2>2. FoundInv'
    BY DEF FoundInv, Expired
  <2>3. RowInv'
    BY DEF RowInv, TypeOK, TickerInv, Busy, Slack, TickSlack
  <2>4. QED
    BY <2>1, <2>2, <2>3
<1>7. CASE Horizon \/ UNCHANGED vars
  BY <1>7 DEF Horizon, vars, TypeOK, TickerInv, FoundInv, RowInv, NotEarly, Busy,
              Slack, TickSlack, Expired
<1>8. QED
  BY <1>1, <1>2, <1>3, <1>4, <1>5, <1>6, <1>7 DEF Next

LEMMA Invariance == Spec => []IInv
BY InitIInv, StepIInv, PTL DEF Spec

(* store.go, worker.go: no row is ended a second or more before its time,   *)
(* for any number of digits.                                               *)
THEOREM NeverEarly == Spec => []NotEarly
<1>1. IInv => NotEarly
  BY DEF IInv
<1>2. QED
  BY <1>1, Invariance, PTL

(* worker.go, main.go: how long a row may outlive its time, for every       *)
(* interval and every length of a reconcile.                                *)
THEOREM AlwaysInTime == Spec => []EndsInTime
BY Bounds, Invariance, PTL

(* How SQLite compares a row's time with the reconciler's (byStatusBefore,  *)
(* store.go): as times are compared, except within one second where one     *)
(* fraction continues the other.                                           *)
THEOREM TextsOrdered == Spec => []TextOrder
<1>1. IInv => TextOrder
  <2> SUFFICES ASSUME IInv, ~(Seconds(until) = Seconds(at) /\ OneContinues(until, at))
               PROVE  Expired(at) <=> until <= at
    BY DEF TextOrder
  <2>1. until \in Nat /\ at \in Nat
    BY DEF IInv, TypeOK
  <2>2. QED
    BY <2>1, OrderOfTexts DEF Expired
<1>2. QED
  BY <1>1, Invariance, PTL
=============================================================================
