----------------------------- MODULE MessagesProofs -----------------------------
(***************************************************************************)
(* Requests and listings: proofs for fields of any size.                   *)
(***************************************************************************)
EXTENDS MessagesProperties, SequenceLemmas

-------------------------------------------------------------------------------
(* Numbers.                                                                *)

(* Powers are what they are defined to be.                                 *)
LEMMA PowerLaw ==
  /\ Power[0] = 1
  /\ \A i \in Nat : Power[i] \in Nat \ {0} /\ Power[i + 1] = Base * Power[i]
<1>1. Base \in 2..10
  BY MessagesAssumption
<1> DEFINE g == [n \in Nat |-> [x \in Nat \ {0} |-> Base * x]]
<1>2. g \in [Nat -> [Nat \ {0} -> Nat \ {0}]]
  BY <1>1
<1>3. PICK f \in [Nat -> Nat \ {0}] : f[0] = 1 /\ \A n \in Nat : f[n + 1] = g[n][f[n]]
  <2> HIDE DEF g
  <2>1. 1 \in Nat \ {0}
    OBVIOUS
  <2>2. PICK f : Recurs(f, Nat \ {0}, 1, g)
    BY <1>2, <2>1, NatRecursion
  <2> QED
    BY <2>2 DEF Recurs
<1>4. \A n \in Nat : f[n + 1] = Base * f[n]
  BY <1>3
<1> DEFINE Is(h) == h = [i \in Nat |-> IF i = 0 THEN 1 ELSE Base * h[i - 1]]
<1>5. Is(f)
  <2> DEFINE h == [i \in Nat |-> IF i = 0 THEN 1 ELSE Base * f[i - 1]]
  <2>1. ASSUME NEW i \in Nat PROVE h[i] = f[i]
    <3>1. CASE i = 0
      BY <1>3, <3>1
    <3>2. CASE i # 0
      <4>1. i - 1 \in Nat /\ (i - 1) + 1 = i
        BY <3>2
      <4> QED
        BY <1>4, <3>2, <4>1
    <3> QED
      BY <3>1, <3>2
  <2>2. h = f
    BY <1>3, <2>1
  <2> QED
    BY <2>2
<1>6. Is(Power)
  <2>1. Power = CHOOSE h : Is(h)
    BY DEF Power
  <2> QED
    BY <1>5, <2>1
<1>7. Power[0] = 1 /\ \A n \in Nat : Power[n + 1] = Base * Power[n]
  BY <1>6
<1> DEFINE T == {n \in Nat : Power[n] \in Nat \ {0}}
<1>8. 0 \in T
  BY <1>7
<1>9. \A n \in T : n + 1 \in T
  BY <1>1, <1>7
<1> HIDE DEF T
<1>10. T = Nat
  BY <1>8, <1>9, NatSetInduction DEF T
<1>11. \A n \in T : Power[n] \in Nat \ {0}
  BY DEF T
<1> QED
  BY <1>7, <1>10, <1>11

(* They grow, and so no number is without a greatest digit.                *)
LEMMA PowerGrows ==
  /\ \A i \in Nat : i < Power[i]
  /\ \A i, j \in Nat : i <= j => Power[i] <= Power[j]
<1>1. Base \in 2..10
  BY MessagesAssumption
<1>2. \A i \in Nat : Power[i] \in Nat /\ Power[i + 1] > Power[i]
  <2>1. \A x \in Nat \ {0} : Base * x > x
    BY <1>1
  <2> QED
    BY <2>1, PowerLaw
<1> DEFINE T == {i \in Nat : i < Power[i]}
           U == {d \in Nat : \A i \in Nat : Power[i] <= Power[i + d]}
<1>3. T = Nat
  <2>1. 0 \in T
    BY PowerLaw
  <2>2. \A n \in T : n + 1 \in T
    BY <1>2
  <2> HIDE DEF T
  <2> QED
    BY <2>1, <2>2, NatSetInduction DEF T
<1>4. U = Nat
  <2>1. 0 \in U
    BY <1>2
  <2>2. ASSUME NEW n \in U PROVE n + 1 \in U
    <3>1. ASSUME NEW i \in Nat PROVE Power[i] <= Power[i + (n + 1)]
      <4>1. i + (n + 1) = (i + n) + 1 /\ i + n \in Nat
        OBVIOUS
      <4> QED
        BY <1>2, <4>1
    <3> QED
      BY <3>1
  <2> HIDE DEF U
  <2> QED
    BY <2>1, <2>2, NatSetInduction DEF U
<1>5. \A i, j \in Nat : i <= j => j - i \in U /\ i + (j - i) = j
  <2> HIDE DEF U
  <2> QED
    BY <1>4
<1> QED
  BY <1>3, <1>5

(* The quotient is given by a remainder that is less than the divisor.     *)
LEMMA Quotient ==
  ASSUME NEW m \in Nat, NEW d \in Nat \ {0}
  PROVE  /\ m \div d \in Nat /\ m % d \in 0..(d - 1)
         /\ m = (m \div d) * d + (m % d)
         /\ \A q \in Nat, r \in 0..(d - 1) : m = q * d + r => m \div d = q
<1>1. m \div d \in Nat /\ m % d \in 0..(d - 1)
  OBVIOUS
<1>2. m = (m \div d) * d + (m % d)
  OBVIOUS
<1>3. ASSUME NEW p \in Nat, NEW s \in 0..(d - 1), NEW q \in Nat, NEW r \in 0..(d - 1),
             p * d + s = q * d + r
      PROVE  ~(p < q)
  <2> SUFFICES ASSUME p < q PROVE FALSE
    OBVIOUS
  <2> DEFINE e == q - (p + 1)
  <2>1. e \in Nat /\ q = p + 1 + e
    OBVIOUS
  <2> HIDE DEF e
  <2>2. q * d = p * d + d + e * d /\ e * d \in Nat /\ p * d \in Nat
    BY <2>1
  <2> QED
    BY <1>3, <2>2
<1> QED
  BY <1>1, <1>2, <1>3

(* A quotient by a power, digit by digit.                                  *)
LEMMA Rest ==
  ASSUME NEW m \in Nat
  PROVE  /\ m \div Power[0] = m
         /\ \A j \in Nat : /\ m \div Power[j] \in Nat
                           /\ (m \div Power[j]) % Base \in 0..(Base - 1)
                           /\ m \div Power[j] = (m \div Power[j + 1]) * Base
                                                  + ((m \div Power[j]) % Base)
                           /\ m < Power[j] => m \div Power[j] = 0
<1>1. Base \in 2..10
  BY MessagesAssumption
<1>2. m \div Power[0] = m
  BY PowerLaw
<1>3. ASSUME NEW j \in Nat
      PROVE  /\ m \div Power[j] \in Nat
             /\ (m \div Power[j]) % Base \in 0..(Base - 1)
             /\ m \div Power[j] = (m \div Power[j + 1]) * Base + ((m \div Power[j]) % Base)
             /\ m < Power[j] => m \div Power[j] = 0
  <2> DEFINE p == Power[j]
             q == m \div p
             r == m % p
             a == q \div Base
             b == q % Base
  <2>1. p \in Nat \ {0} /\ Power[j + 1] = Base * p
    BY PowerLaw
  <2>2. q \in Nat /\ r \in 0..(p - 1) /\ m = q * p + r
    BY <2>1, Quotient
  <2> HIDE DEF p, q, r
  <2>3. a \in Nat /\ b \in 0..(Base - 1) /\ q = a * Base + b
    BY <1>1, <2>2, Quotient
  <2> HIDE DEF a, b
  <2>4. m = a * (Base * p) + (b * p + r)
    <3>1. q * p = a * (Base * p) + b * p
      BY <1>1, <2>1, <2>2, <2>3
    <3>2. a * (Base * p) \in Nat /\ b * p \in Nat
      BY <1>1, <2>1, <2>3
    <3> QED
      BY <2>2, <3>1, <3>2
  <2>5. b * p + r \in 0..(Base * p - 1)
    <3>1. b * p <= (Base - 1) * p /\ (Base - 1) * p = Base * p - p /\ b * p \in Nat
      BY <1>1, <2>1, <2>3
    <3>2. Base * p \in Nat
      BY <1>1, <2>1
    <3> QED
      BY <2>1, <2>2, <3>1, <3>2
  <2>6. m \div Power[j + 1] = a
    <3>1. Base * p \in Nat \ {0}
      BY <1>1, <2>1
    <3> DEFINE d == Base * p
               e == b * p + r
    <3>2. m = a * d + e /\ e \in 0..(d - 1) /\ d \in Nat \ {0}
      BY <2>4, <2>5, <3>1
    <3> HIDE DEF d, e
    <3>3. m \div d = a
      BY <2>3, <3>2, Quotient
    <3> QED
      BY <2>1, <3>3 DEF d
  <2>7. m < p => q = 0
    <3>1. m < p => m \div p = 0
      BY <2>1
    <3> QED
      BY <3>1 DEF q
  <2> QED
    BY <1>1, <2>2, <2>3, <2>6, <2>7 DEF p, q, a, b
<1> QED
  BY <1>2, <1>3

(* The digits, and what each is worth.                                     *)
LEMMA Digits ==
  /\ Digit = {"0", "1", "2", "3", "4", "5", "6", "7", "8", "9"}
  /\ \A d \in 0..9 : DigitSeq[d + 1] \in Digit /\ DigitValue(DigitSeq[d + 1]) = d
<1>1. /\ DOMAIN DigitSeq = 1..10
      /\ DigitSeq[1] = "0" /\ DigitSeq[2] = "1" /\ DigitSeq[3] = "2" /\ DigitSeq[4] = "3"
      /\ DigitSeq[5] = "4" /\ DigitSeq[6] = "5" /\ DigitSeq[7] = "6" /\ DigitSeq[8] = "7"
      /\ DigitSeq[9] = "8" /\ DigitSeq[10] = "9"
  BY DEF DigitSeq
<1>2. Digit = {DigitSeq[i] : i \in 1..10}
  BY <1>1 DEF Digit, Range
<1>3. Digit = {"0", "1", "2", "3", "4", "5", "6", "7", "8", "9"}
  <2>1. \A i \in 1..10 : \/ i = 1 \/ i = 2 \/ i = 3 \/ i = 4 \/ i = 5
                         \/ i = 6 \/ i = 7 \/ i = 8 \/ i = 9 \/ i = 10
    OBVIOUS
  <2> QED
    BY <1>1, <1>2, <2>1
<1>4. \A i, j \in 1..10 : DigitSeq[i] = DigitSeq[j] => i = j
  BY <1>1
<1>5. ASSUME NEW d \in 0..9 PROVE DigitSeq[d + 1] \in Digit /\ DigitValue(DigitSeq[d + 1]) = d
  <2>1. d + 1 \in 1..10
    OBVIOUS
  <2>2. (CHOOSE e \in 1..10 : DigitSeq[e] = DigitSeq[d + 1]) = d + 1
    BY <1>4, <2>1
  <2>3. DigitValue(DigitSeq[d + 1]) = (CHOOSE e \in 1..10 : DigitSeq[e] = DigitSeq[d + 1]) - 1
    BY DEF DigitValue
  <2> DEFINE c == CHOOSE e \in 1..10 : DigitSeq[e] = DigitSeq[d + 1]
  <2>4. c = d + 1 /\ DigitValue(DigitSeq[d + 1]) = c - 1
    BY <2>2, <2>3
  <2> HIDE DEF c
  <2> QED
    BY <1>2, <2>1, <2>4
<1> QED
  BY <1>3, <1>5

(* The value of a text, character by character.                            *)
LEMMA ValueLaw ==
  ASSUME NEW text \in Seq(Digit), \A i \in 1..Len(text) : DigitValue(text[i]) \in Nat
  PROVE  \E v : /\ v \in [0..Len(text) -> Nat]
                /\ v[0] = 0
                /\ \A i \in 1..Len(text) : v[i] = v[i - 1] * Base + DigitValue(text[i])
                /\ Value(text) = v[Len(text)]
<1>1. Base \in 2..10 /\ Len(text) \in Nat
  BY MessagesAssumption, LenProperties
<1> DEFINE n == Len(text)
           z == 0
           g == [i \in Nat |-> [x \in Nat |->
                   IF i + 1 \in 1..n THEN x * Base + DigitValue(text[i + 1]) ELSE 0]]
<1>2. g \in [Nat -> [Nat -> Nat]] /\ z \in Nat
  BY <1>1
<1>3. PICK f \in [Nat -> Nat] : f[0] = z /\ \A i \in Nat : f[i + 1] = g[i][f[i]]
  <2> HIDE DEF g, z
  <2>1. PICK f : Recurs(f, Nat, z, g)
    BY <1>2, NatRecursion
  <2> QED
    BY <2>1 DEF Recurs
<1>4. \A i \in 1..n : f[i] = f[i - 1] * Base + DigitValue(text[i])
  <2> SUFFICES ASSUME NEW i \in 1..n
               PROVE  f[i] = f[i - 1] * Base + DigitValue(text[i])
    OBVIOUS
  <2>1. i - 1 \in Nat /\ (i - 1) + 1 = i
    BY <1>1
  <2>2. f[i] = g[i - 1][f[i - 1]]
    BY <1>3, <2>1
  <2> QED
    BY <1>3, <2>1, <2>2
<1> DEFINE Is(h) == h = [i \in 0..n |-> IF i = 0 THEN 0
                                        ELSE h[i - 1] * Base + DigitValue(text[i])]
           v == [i \in 0..n |-> f[i]]
<1>5. Is(v)
  <2> DEFINE w == [i \in 0..n |-> IF i = 0 THEN 0
                                  ELSE v[i - 1] * Base + DigitValue(text[i])]
  <2>1. ASSUME NEW i \in 0..n PROVE w[i] = v[i]
    <3>1. CASE i = 0
      BY <1>3, <3>1
    <3>2. CASE i # 0
      <4>1. i \in 1..n /\ i - 1 \in 0..n
        BY <1>1, <3>2
      <4>2. v[i - 1] = f[i - 1] /\ v[i] = f[i]
        BY <4>1
      <4> QED
        BY <1>4, <3>2, <4>1, <4>2
    <3> QED
      BY <3>1, <3>2
  <2>2. w = v
    BY <2>1
  <2> QED
    BY <2>2
<1> HIDE DEF v
<1>6. PICK u : Is(u) /\ Value(text) = u[n]
  <2>1. Value(text) = (CHOOSE h : Is(h))[n]
    BY DEF Value
  <2> HIDE DEF Is
  <2> QED
    BY <1>5, <2>1
<1>7. /\ DOMAIN u = 0..n
      /\ u[0] = 0
      /\ \A i \in 1..n : u[i] = u[i - 1] * Base + DigitValue(text[i])
  <2>1. u = [i \in 0..n |-> IF i = 0 THEN 0 ELSE u[i - 1] * Base + DigitValue(text[i])]
    BY <1>6
  <2>2. \A i \in 0..n : u[i] = IF i = 0 THEN 0 ELSE u[i - 1] * Base + DigitValue(text[i])
    BY <2>1
  <2>3. DOMAIN u = 0..n
    BY <2>1
  <2>4. n \in Nat
    BY <1>1
  <2> HIDE DEF Is, n
  <2>5. u[0] = 0
    BY <2>2, <2>4
  <2>6. \A i \in 1..n : i \in 0..n /\ i # 0
    BY <2>4
  <2>7. \A i \in 1..n : u[i] = u[i - 1] * Base + DigitValue(text[i])
    BY <2>2, <2>6
  <2> QED
    BY <2>3, <2>5, <2>7
<1> DEFINE T == {i \in Nat : i <= n => u[i] \in Nat}
<1>8. T = Nat
  <2>1. 0 \in T
    BY <1>7
  <2>2. ASSUME NEW i \in T PROVE i + 1 \in T
    <3>1. CASE i + 1 \in 1..n
      <4>1. u[i + 1] = u[i] * Base + DigitValue(text[i + 1])
        BY <1>7, <3>1
      <4>2. u[i] \in Nat /\ DigitValue(text[i + 1]) \in Nat
        BY <1>1, <3>1
      <4>3. \A x, y \in Nat : x * Base + y \in Nat
        BY <1>1
      <4>4. u[i + 1] \in Nat
        BY <4>1, <4>2, <4>3
      <4> QED
        BY <4>4
    <3>2. CASE i + 1 \notin 1..n
      BY <1>1, <3>2
    <3> QED
      BY <3>1, <3>2
  <2> HIDE DEF T
  <2> QED
    BY <2>1, <2>2, NatSetInduction DEF T
<1>9. u \in [0..n -> Nat]
  <2>1. \A i \in 0..n : i \in T
    BY <1>1, <1>8
  <2>2. \A i \in 0..n : u[i] \in Nat
    BY <1>1, <2>1
  <2>3. u = [i \in 0..n |-> u[i]]
    BY <1>6
  <2> QED
    BY <2>2, <2>3
<1> QED
  BY <1>6, <1>7, <1>9

(* Digits, as many as there are, are read back as the number they are of.  *)
DigitsOf(m, k) == [i \in 1..k |-> DigitSeq[((m \div Power[k - i]) % Base) + 1]]

(* They are k digits.                                                      *)
LEMMA DigitsReadBack ==
  ASSUME NEW m \in Nat, NEW k \in Nat, m < Power[k]
  PROVE  /\ DigitsOf(m, k) \in Seq(Digit) /\ Len(DigitsOf(m, k)) = k
         /\ Value(DigitsOf(m, k)) = m
<1> DEFINE t == DigitsOf(m, k)
           q(i) == m \div Power[k - i]
<1>1. Base \in 2..10
  BY MessagesAssumption
<1>2. \A i \in 0..k : q(i) \in Nat /\ q(i) % Base \in 0..(Base - 1)
  <2>1. \A i \in 0..k : k - i \in Nat
    OBVIOUS
  <2> QED
    BY <2>1, Rest
<1>3. \A i \in 1..k : q(i) = q(i - 1) * Base + (q(i) % Base)
  <2> SUFFICES ASSUME NEW i \in 1..k PROVE q(i) = q(i - 1) * Base + (q(i) % Base)
    OBVIOUS
  <2>1. k - i \in Nat /\ (k - i) + 1 = k - (i - 1)
    OBVIOUS
  <2> QED
    BY <2>1, Rest
<1>4. q(0) = 0 /\ q(k) = m
  <2>1. k - 0 = k /\ k - k = 0
    OBVIOUS
  <2> QED
    BY <2>1, Rest
<1> HIDE DEF q
<1>5. \A i \in 1..k : /\ t[i] = DigitSeq[(q(i) % Base) + 1]
                      /\ t[i] \in Digit /\ DigitValue(t[i]) = q(i) % Base
  <2>1. \A i \in 1..k : t[i] = DigitSeq[(q(i) % Base) + 1]
    BY DEF DigitsOf, q
  <2>2. \A i \in 1..k : q(i) % Base \in 0..9
    <3>1. \A b \in 0..(Base - 1) : b \in 0..9
      BY <1>1
    <3>2. \A i \in 1..k : i \in 0..k
      OBVIOUS
    <3> QED
      BY <1>2, <3>1, <3>2
  <2> HIDE DEF t
  <2> QED
    BY <2>1, <2>2, Digits
<1>6. t \in Seq(Digit) /\ Len(t) = k
  <2>1. t \in [1..k -> Digit]
    BY <1>5 DEF DigitsOf
  <2> QED
    BY <2>1, FunctionIsSeq
<1> HIDE DEF t
<1>7. PICK v : /\ v \in [0..k -> Nat]
               /\ v[0] = 0
               /\ \A i \in 1..k : v[i] = v[i - 1] * Base + DigitValue(t[i])
               /\ Value(t) = v[k]
  <2>1. \A i \in 1..Len(t) : DigitValue(t[i]) \in Nat
    BY <1>1, <1>2, <1>5, <1>6
  <2> QED
    BY <1>6, <2>1, ValueLaw
<1> DEFINE T == {i \in Nat : i <= k => v[i] = q(i)}
<1>8. T = Nat
  <2>1. 0 \in T
    BY <1>4, <1>7
  <2>2. ASSUME NEW i \in T PROVE i + 1 \in T
    <3>1. CASE i + 1 \in 1..k
      <4>1. v[i + 1] = v[i] * Base + (q(i + 1) % Base)
        <5>1. (i + 1) - 1 = i
          OBVIOUS
        <5> QED
          BY <1>5, <1>7, <3>1, <5>1
      <4>2. q(i + 1) = q(i) * Base + (q(i + 1) % Base)
        <5>1. (i + 1) - 1 = i
          OBVIOUS
        <5> QED
          BY <1>3, <3>1, <5>1
      <4>3. v[i] = q(i)
        BY <3>1
      <4>4. v[i + 1] = q(i + 1)
        BY <4>1, <4>2, <4>3
      <4> QED
        BY <4>4
    <3>2. CASE i + 1 \notin 1..k
      BY <3>2
    <3> QED
      BY <3>1, <3>2
  <2> HIDE DEF T
  <2> QED
    BY <2>1, <2>2, NatSetInduction DEF T
<1>9. v[k] = q(k)
  <2>1. k \in T
    BY <1>8
  <2> QED
    BY <2>1
<1> QED
  BY <1>4, <1>6, <1>7, <1>9 DEF t

(* How many digits a number has.                                           *)
DigitCount(m) == Min({i \in 1..(m + 1) : m < Power[i]})

(* It is enough digits, and no fewer are.                                  *)
LEMMA CountLaw ==
  ASSUME NEW m \in Nat
  PROVE  /\ DigitCount(m) \in 1..(m + 1) /\ m < Power[DigitCount(m)]
         /\ \A i \in Nat \ {0} : m < Power[i] => DigitCount(m) <= i
<1> DEFINE S == {i \in 1..(m + 1) : m < Power[i]}
           T == {n \in Nat : \A i \in S : i > n}
           c == DigitCount(m)
<1>1. m + 1 \in S
  <2>1. m + 1 \in Nat /\ m + 1 < Power[m + 1] /\ Power[m + 1] \in Nat
    BY PowerGrows, PowerLaw
  <2> QED
    BY <2>1
<1>2. \E i \in S : \A j \in S : i <= j
  <2> SUFFICES ASSUME \A i \in S : \E j \in S : j < i PROVE FALSE
    OBVIOUS
  <2>1. 0 \in T
    OBVIOUS
  <2>2. ASSUME NEW n \in T PROVE n + 1 \in T
    <3>1. \A i \in S : i > n /\ \E j \in S : j < i /\ j > n
      OBVIOUS
    <3>2. \A i \in S : i \in Nat
      OBVIOUS
    <3>3. \A i \in S : i > n + 1
      BY <3>1, <3>2
    <3> HIDE DEF S
    <3> QED
      BY <3>3
  <2> HIDE DEF T
  <2>3. T = Nat
    BY <2>1, <2>2, NatSetInduction DEF T
  <2>4. m + 1 \in T
    BY <2>3
  <2> HIDE DEF S
  <2>5. m + 1 > m + 1
    BY <1>1, <2>4 DEF T
  <2> QED
    BY <2>5
<1>3. c \in S /\ \A j \in S : c <= j
  <2>1. c = CHOOSE x \in S : \A y \in S : x <= y
    BY DEF DigitCount, Min
  <2> HIDE DEF S, c
  <2> QED
    BY <1>2, <2>1
<1> HIDE DEF c
<1>4. ASSUME NEW i \in Nat \ {0}, m < Power[i] PROVE c <= i
  <2>1. CASE i <= m + 1
    BY <1>3, <1>4, <2>1
  <2>2. CASE i > m + 1
    BY <1>3, <2>2
  <2> QED
    BY <2>1, <2>2
<1> QED
  BY <1>3, <1>4 DEF c

(* The greater of two numbers.                                             *)
LEMMA MaxOfTwo ==
  ASSUME NEW a \in Int, NEW b \in Int
  PROVE  Max({a, b}) = IF a >= b THEN a ELSE b
<1> DEFINE c == IF a >= b THEN a ELSE b
<1>1. c \in {a, b} /\ \A y \in {a, b} : c >= y
  OBVIOUS
<1>2. \A x \in {a, b} : (\A y \in {a, b} : x >= y) => x = c
  OBVIOUS
<1> HIDE DEF c
<1>3. Max({a, b}) = c
  BY <1>1, <1>2 DEF Max
<1> QED
  BY <1>3 DEF c

(* A sign, and the digits of what has it.                                  *)
Signed(sign, m, w) == sign \o DigitsOf(m, Max({w - Len(sign), DigitCount(m)}))

(* Decimal, in the words of the lemmas.                                    *)
LEMMA DecimalParts ==
  ASSUME NEW n, NEW w
  PROVE  Decimal(n, w) = Signed(IF n < 0 THEN <<"-">> ELSE <<>>, IF n < 0 THEN -n ELSE n, w)
BY DEF Decimal, DigitsOf, DigitCount, Signed

(* What printf writes for a number that is not negative, atoi reads as     *)
(* that number; it is as short as the width and the number allow.          *)
LEMMA DecimalLaw ==
  ASSUME NEW n \in Nat, NEW w \in Nat
  PROVE  /\ Decimal(n, w) \in Seq(Digit)
         /\ Len(Decimal(n, w)) >= 1 /\ Len(Decimal(n, w)) >= w
         /\ n < Power[Len(Decimal(n, w))]
         /\ \A s \in Nat \ {0} : n < Power[s] /\ w <= s => Len(Decimal(n, w)) <= s
         /\ Value(Decimal(n, w)) = n
<1> DEFINE k == IF w >= DigitCount(n) THEN w ELSE DigitCount(n)
<1>1. /\ DigitCount(n) \in Nat \ {0} /\ n < Power[DigitCount(n)]
      /\ \A i \in Nat \ {0} : n < Power[i] => DigitCount(n) <= i
  BY CountLaw
<1>2. Decimal(n, w) = DigitsOf(n, k)
  <2>1. Max({w - 0, DigitCount(n)}) = k
    BY <1>1, MaxOfTwo
  <2> DEFINE sign == <<>>
  <2>2. (IF n < 0 THEN <<"-">> ELSE <<>>) = sign /\ (IF n < 0 THEN -n ELSE n) = n
    OBVIOUS
  <2>3. Len(sign) = 0
    OBVIOUS
  <2> HIDE DEF sign, k
  <2>4. Decimal(n, w) = sign \o DigitsOf(n, k)
    <3>1. Decimal(n, w) = Signed(sign, n, w)
      BY <2>2, DecimalParts
    <3> QED
      BY <2>1, <2>3, <3>1 DEF Signed
  <2>5. k \in Nat
    BY <1>1 DEF k
  <2>6. DigitsOf(n, k) \in [1..k -> {DigitsOf(n, k)[i] : i \in 1..k}]
    BY DEF DigitsOf
  <2>7. DigitsOf(n, k) \in Seq({DigitsOf(n, k)[i] : i \in 1..k})
    BY <2>5, <2>6, FunctionIsSeq
  <2>8. sign \o DigitsOf(n, k) = DigitsOf(n, k)
    BY <2>7 DEF sign
  <2> QED
    BY <2>4, <2>8
<1>3. k \in Nat /\ k >= 1 /\ k >= w /\ n < Power[k]
  <2>1. k \in Nat /\ k >= 1 /\ k >= w /\ k >= DigitCount(n)
    BY <1>1
  <2> HIDE DEF k
  <2>2. Power[DigitCount(n)] <= Power[k] /\ Power[k] \in Nat /\ Power[DigitCount(n)] \in Nat
    BY <1>1, <2>1, PowerGrows, PowerLaw
  <2> QED
    BY <1>1, <2>1, <2>2
<1>4. \A s \in Nat \ {0} : n < Power[s] /\ w <= s => k <= s
  BY <1>1
<1> HIDE DEF k
<1> QED
  BY <1>2, <1>3, <1>4, DigitsReadBack

(* A negative number begins with a sign.                                   *)
Plain == Digit \cup {"-", "a", "?"}

(* So it is never taken for digits.                                        *)
LEMMA NegativeLaw ==
  ASSUME NEW n \in Int, n < 0, NEW w \in Nat \ {0}
  PROVE  /\ Decimal(n, w) \in Seq(Plain)
         /\ Len(Decimal(n, w)) >= 1
         /\ Decimal(n, w)[1] = "-"
<1> DEFINE m == -n
           k == IF w - 1 >= DigitCount(m) THEN w - 1 ELSE DigitCount(m)
           t == DigitsOf(m, k)
<1>1. m \in Nat
  OBVIOUS
<1>2. DigitCount(m) \in Nat \ {0} /\ m < Power[DigitCount(m)]
  BY <1>1, CountLaw
<1>3. Decimal(n, w) = <<"-">> \o t
  <2>1. Max({w - 1, DigitCount(m)}) = k
    BY <1>2, MaxOfTwo
  <2> DEFINE sign == <<"-">>
  <2>3. (IF n < 0 THEN <<"-">> ELSE <<>>) = sign /\ (IF n < 0 THEN -n ELSE n) = m
    OBVIOUS
  <2>4. Len(sign) = 1
    OBVIOUS
  <2> HIDE DEF sign, m
  <2>5. Decimal(n, w) = Signed(sign, m, w)
    BY <2>3, DecimalParts
  <2>6. w - Len(sign) = w - 1
    BY <2>4
  <2> HIDE DEF k
  <2>7. Signed(sign, m, w) = sign \o DigitsOf(m, k)
    BY <2>1, <2>6 DEF Signed
  <2> QED
    BY <2>5, <2>7 DEF sign
<1>4. t \in Seq(Digit)
  <2>1. k \in Nat /\ k >= DigitCount(m)
    BY <1>2
  <2> HIDE DEF k
  <2>2. m < Power[k]
    <3>1. Power[DigitCount(m)] <= Power[k] /\ Power[k] \in Nat /\ Power[DigitCount(m)] \in Nat
      BY <1>2, <2>1, PowerGrows, PowerLaw
    <3> QED
      BY <1>1, <1>2, <3>1
  <2> HIDE DEF m
  <2> QED
    BY <1>1, <2>1, <2>2, DigitsReadBack
<1> HIDE DEF t
<1>5. t \in Seq(Plain) /\ <<"-">> \in Seq(Plain) /\ Len(<<"-">>) = 1
  <2>1. Len(t) \in Nat /\ t \in [1..Len(t) -> Plain]
    BY <1>4, LenProperties, ElementOfSeq DEF Plain
  <2>2. t \in Seq(Plain)
    BY <2>1, FunctionIsSeq
  <2>3. <<"-">> \in Seq(Plain)
    BY DEF Plain
  <2> QED
    BY <2>2, <2>3
<1> DEFINE d == <<"-">>
<1>6. d[1] = "-" /\ d \in Seq(Plain) /\ Len(d) = 1
  BY <1>5
<1> HIDE DEF d
<1>7. d \o t \in Seq(Plain) /\ IsJoin(d \o t, d, t)
  BY <1>5, <1>6, JoinTwo
<1>8. Len(d \o t) >= 1 /\ (d \o t)[1] = "-"
  <2>1. Len(t) \in Nat
    BY <1>5, LenProperties
  <2> QED
    BY <1>6, <1>7, <2>1 DEF IsJoin
<1> QED
  BY <1>3, <1>7, <1>8 DEF d

-------------------------------------------------------------------------------
(* Requests.                                                               *)

(* What the variables hold once the client has sent a request.             *)
Asked ==
  /\ op \in Ops
  /\ num \in [Numbers(op) -> -1..MaxTyped]
  /\ word \in [TypedWords(op) -> Words]
  /\ ClientChecks

Char == Plain \cup {" ", "\n"} \cup Ops

(* The fields.                                                             *)
LEMMA FieldsAre ==
  /\ Len(Fields("OPA")) = 7 /\ Len(Fields("BID")) = 4 /\ Len(Fields("CLS")) = 3
  /\ Len(Fields("SAS")) = 1 /\ Len(Fields("SRC")) = 1
  /\ Len(Fields("LIN")) = 2 /\ Len(Fields("LMA")) = 1 /\ Len(Fields("LST")) = 0
  /\ Fields("OPA")[1] = "uid" /\ Fields("OPA")[2] = "pw" /\ Fields("OPA")[3] = "name"
  /\ Fields("OPA")[4] = "start" /\ Fields("OPA")[5] = "time"
  /\ Fields("OPA")[6] = "fname" /\ Fields("OPA")[7] = "fsize"
  /\ Fields("BID")[1] = "uid" /\ Fields("BID")[2] = "pw"
  /\ Fields("BID")[3] = "aid" /\ Fields("BID")[4] = "value"
  /\ Fields("CLS")[1] = "uid" /\ Fields("CLS")[2] = "pw" /\ Fields("CLS")[3] = "aid"
  /\ Fields("SAS")[1] = "aid" /\ Fields("SRC")[1] = "aid"
  /\ Fields("LIN")[1] = "uid" /\ Fields("LIN")[2] = "pw" /\ Fields("LMA")[1] = "uid"
BY DEF Fields

(* The fields are numbered from 1.                                         *)
LEMMA FieldsDomain ==
  \A o \in Ops : DOMAIN Fields(o) = 1..Len(Fields(o))
<1>1. DOMAIN Fields("OPA") = 1..Len(Fields("OPA"))
  BY DEF Fields
<1>2. DOMAIN Fields("BID") = 1..Len(Fields("BID"))
  BY DEF Fields
<1>3. DOMAIN Fields("CLS") = 1..Len(Fields("CLS"))
  BY DEF Fields
<1>4. DOMAIN Fields("SAS") = 1..Len(Fields("SAS"))
  BY DEF Fields
<1>5. DOMAIN Fields("SRC") = 1..Len(Fields("SRC"))
  BY DEF Fields
<1>6. DOMAIN Fields("LIN") = 1..Len(Fields("LIN"))
  BY DEF Fields
<1>7. DOMAIN Fields("LMA") = 1..Len(Fields("LMA"))
  BY DEF Fields
<1>8. DOMAIN Fields("LST") = 1..Len(Fields("LST"))
  BY DEF Fields
<1> QED
  BY <1>1, <1>2, <1>3, <1>4, <1>5, <1>6, <1>7, <1>8 DEF Ops

(* Which of them are numbers or words that were typed.                     *)
LEMMA FieldSets ==
  /\ Numbers("OPA") = {"start", "time", "fsize"} /\ TypedWords("OPA") = {"name", "fname"}
  /\ Numbers("BID") = {"aid", "value"} /\ TypedWords("BID") = {}
  /\ Numbers("CLS") = {"aid"} /\ TypedWords("CLS") = {}
  /\ Numbers("SAS") = {"aid"} /\ TypedWords("SAS") = {}
  /\ Numbers("SRC") = {"aid"} /\ TypedWords("SRC") = {}
  /\ Numbers("LIN") = {} /\ TypedWords("LIN") = {"uid", "pw"}
  /\ Numbers("LMA") = {} /\ TypedWords("LMA") = {}
  /\ Numbers("LST") = {} /\ TypedWords("LST") = {}
<1>1. Range(Fields("OPA")) = {"uid", "pw", "name", "start", "time", "fname", "fsize"}
  BY DEF Fields, Range
<1>2. Range(Fields("BID")) = {"uid", "pw", "aid", "value"}
  BY DEF Fields, Range
<1>3. Range(Fields("CLS")) = {"uid", "pw", "aid"}
  BY DEF Fields, Range
<1>4. Range(Fields("SAS")) = {"aid"} /\ Range(Fields("SRC")) = {"aid"}
  BY DEF Fields, Range
<1>5. Range(Fields("LIN")) = {"uid", "pw"}
  BY DEF Fields, Range
<1>6. Range(Fields("LMA")) = {"uid"}
  BY DEF Fields, Range
<1>7. Range(Fields("LST")) = {}
  BY DEF Fields, Range
<1> QED
  BY <1>1, <1>2, <1>3, <1>4, <1>5, <1>6, <1>7 DEF Numbers, TypedWords

(* The rest are of the session.                                            *)
LEMMA FieldKinds ==
  \A o \in Ops : \A i \in 1..Len(Fields(o)) :
    Fields(o)[i] \in Numbers(o) \cup TypedWords(o) \cup {"uid", "pw"}
<1>1. ASSUME NEW o \in Ops, NEW i \in 1..Len(Fields(o))
      PROVE  Fields(o)[i] \in Numbers(o) \cup TypedWords(o) \cup {"uid", "pw"}
  <2>1. CASE o = "OPA"
    <3>1. i \in 1..7
      BY <2>1, FieldsAre
    <3>2. i = 1 \/ i = 2 \/ i = 3 \/ i = 4 \/ i = 5 \/ i = 6 \/ i = 7
      BY <3>1
    <3> QED
      BY <2>1, <3>2, FieldsAre, FieldSets
  <2>2. CASE o = "BID"
    <3>1. i \in 1..4
      BY <2>2, FieldsAre
    <3>2. i = 1 \/ i = 2 \/ i = 3 \/ i = 4
      BY <3>1
    <3> QED
      BY <2>2, <3>2, FieldsAre, FieldSets
  <2>3. CASE o = "CLS"
    <3>1. i \in 1..3
      BY <2>3, FieldsAre
    <3>2. i = 1 \/ i = 2 \/ i = 3
      BY <3>1
    <3> QED
      BY <2>3, <3>2, FieldsAre, FieldSets
  <2>4. CASE o = "SAS" \/ o = "SRC"
    <3>1. Len(Fields(o)) = 1
      BY <2>4, FieldsAre
    <3>2. i = 1
      BY <3>1
    <3> QED
      BY <2>4, <3>2, FieldsAre, FieldSets
  <2>5. CASE o = "LIN"
    <3>1. Len(Fields(o)) = 2
      BY <2>5, FieldsAre
    <3>2. i = 1 \/ i = 2
      BY <3>1
    <3> QED
      BY <2>5, <3>2, FieldsAre, FieldSets
  <2>6. CASE o = "LMA"
    <3>1. i = 1
      BY <2>6, FieldsAre
    <3> QED
      BY <2>6, <3>1, FieldsAre, FieldSets
  <2>7. CASE o = "LST"
    BY <2>7, FieldsAre
  <2> QED
    BY <2>1, <2>2, <2>3, <2>4, <2>5, <2>6, <2>7 DEF Ops
<1> QED
  BY <1>1

(* A number is never written with more digits than its field has.          *)
LEMMA NumberSizes ==
  \A o \in Ops : \A f \in Numbers(o) :
    /\ f \in {"aid", "value", "start", "time", "fsize"}
    /\ Width(f) \in Nat \ {0} /\ Size(f) \in Nat \ {0} /\ Width(f) <= Size(f)
<1>1. {AidSize, ValueSize, TimeSize, FsizeSize} \subseteq Nat \ {0}
  BY MessagesAssumption
<1>2. \A o \in Ops : \A f \in Numbers(o) : f \in {"aid", "value", "start", "time", "fsize"}
  BY DEF Numbers
<1>3. /\ Size("aid") = AidSize /\ Size("value") = ValueSize /\ Size("start") = ValueSize
      /\ Size("time") = TimeSize /\ Size("fsize") = FsizeSize
  BY DEF Size
<1>4. /\ Width("aid") = AidSize /\ Width("value") = ValueSize
      /\ Width("start") = 1 /\ Width("time") = 1 /\ Width("fsize") = 1
  BY DEF Width
<1> QED
  BY <1>1, <1>2, <1>3, <1>4

(* How a number that was typed is written.                                 *)
LEMMA NumberText ==
  ASSUME Asked, NEW f \in Numbers(op)
  PROVE  /\ num[f] \in -1..MaxTyped
         /\ Text(f) = Decimal(num[f], Width(f))
         /\ Text(f) \in Seq(Plain) /\ Len(Text(f)) \in Nat \ {0}
         /\ num[f] < 0 => Text(f)[1] = "-"
         /\ num[f] >= 0 =>
              /\ Text(f) \in Seq(Digit) /\ Value(Text(f)) = num[f]
              /\ Len(Text(f)) >= Width(f)
              /\ num[f] < Power[Len(Text(f))]
         /\ num[f] \in 0..(Power[Size(f)] - 1) => Len(Text(f)) <= Size(f)
<1>1. num[f] \in -1..MaxTyped /\ MaxTyped \in Nat
  BY MessagesAssumption DEF Asked
<1>2. Text(f) = Decimal(num[f], Width(f))
  BY DEF Asked, Text
<1>3. Width(f) \in Nat \ {0} /\ Size(f) \in Nat \ {0} /\ Width(f) <= Size(f)
  BY NumberSizes DEF Asked
<1> DEFINE n == num[f]
           w == Width(f)
           s == Size(f)
           t == Decimal(n, w)
<1> HIDE DEF n, w, s
<1>4. n \in -1..MaxTyped /\ w \in Nat \ {0} /\ s \in Nat \ {0} /\ w <= s
  BY <1>1, <1>3 DEF n, w, s
<1>5. CASE n < 0
  <2>1. t \in Seq(Plain) /\ Len(t) >= 1 /\ t[1] = "-"
    <3>1. n \in Int
      BY <1>1, <1>4
    <3> QED
      BY <1>4, <1>5, <3>1, NegativeLaw
  <2> HIDE DEF t
  <2>2. Len(t) \in Nat \ {0}
    BY <2>1, LenProperties
  <2> QED
    BY <1>1, <1>2, <1>5, <2>1, <2>2 DEF n, w, s, t
<1>6. CASE n >= 0
  <2>1. n \in Nat
    BY <1>1, <1>4, <1>6
  <2>2. /\ t \in Seq(Digit) /\ Len(t) >= 1 /\ Len(t) >= w
        /\ n < Power[Len(t)] /\ Value(t) = n
        /\ n < Power[s] /\ w <= s => Len(t) <= s
    BY <1>4, <2>1, DecimalLaw
  <2> HIDE DEF t
  <2>3. Len(t) \in Nat \ {0}
    BY <2>2, LenProperties
  <2>4. t \in Seq(Plain)
    <3>1. t \in [1..Len(t) -> Plain]
      BY <2>2, LenProperties, ElementOfSeq DEF Plain
    <3> QED
      BY <2>3, <3>1, FunctionIsSeq
  <2>5. n \in 0..(Power[s] - 1) => n < Power[s]
    BY <1>4, PowerLaw
  <2> QED
    BY <1>1, <1>2, <1>4, <1>6, <2>2, <2>3, <2>4, <2>5 DEF n, w, s, t
<1>7. n < 0 \/ n >= 0
  BY <1>1, <1>4
<1> QED
  BY <1>5, <1>6, <1>7

(* A number that passes for one is the number that was typed.              *)
LEMMA ValidNumber ==
  ASSUME Asked, NEW f \in Numbers(op), NEW size, Valid(Text(f), size, Digit)
  PROVE  num[f] \in Nat /\ Value(Text(f)) = num[f] /\ Text(f) \in Seq(Digit)
<1>1. "-" \notin Digit
  BY Digits
<1>2. 1 \in 1..Len(Text(f)) /\ num[f] \in -1..MaxTyped /\ MaxTyped \in Nat
  BY NumberText, MessagesAssumption
<1>3. Text(f)[1] \in Digit
  BY <1>2 DEF Valid
<1>4. num[f] >= 0
  BY <1>1, <1>2, <1>3, NumberText
<1> QED
  BY <1>2, <1>4, NumberText

(* How a word that was typed is written.                                   *)
LEMMA WordText ==
  ASSUME Asked, NEW f \in TypedWords(op)
  PROVE  /\ Text(f) = word[f] /\ f \in DOMAIN word
         /\ Text(f) \in Seq(Plain) /\ Len(Text(f)) \in Nat \ {0}
<1>1. f \notin DOMAIN num /\ f \in DOMAIN word
  <2>1. f \notin Numbers(op)
    BY DEF TypedWords, Numbers
  <2> QED
    BY <2>1 DEF Asked
<1>2. Text(f) = word[f]
  BY <1>1 DEF Text
<1>3. PICK n \in 1..(WordSize + 1) : word[f] \in [1..n -> {"0", "a", "?"}]
  BY DEF Asked, Words
<1>4. n \in Nat \ {0}
  BY MessagesAssumption
<1>5. word[f] \in [1..n -> Plain]
  BY <1>3, Digits DEF Plain
<1> QED
  BY <1>1, <1>2, <1>4, <1>5, FunctionIsSeq

(* The UID and the password are always of the right form: they have been   *)
(* checked by now, or they are those of the session.                       *)
LEMMA SessionText ==
  ASSUME Asked, NEW f \in {"uid", "pw"}, op = "LIN" \/ f \notin TypedWords(op)
  PROVE  /\ ValidField(f, Text(f))
         /\ Text(f) \in Seq(Plain) /\ Len(Text(f)) = WordSize
<1>1. WordSize \in Nat \ {0}
  BY MessagesAssumption
<1>2. CASE op = "LIN"
  <2>1. f \in TypedWords(op)
    BY <1>2, FieldSets
  <2>2. /\ Exact(word["uid"], WordSize, Digit) /\ Exact(word["pw"], WordSize, Alnum)
    BY <1>2 DEF Asked, ClientChecks
  <2>3. Text(f) = word[f] /\ Text(f) \in Seq(Plain)
    BY <2>1, WordText
  <2>4. CASE f = "uid"
    BY <2>2, <2>3, <2>4 DEF ValidField, Exact
  <2>5. CASE f = "pw"
    BY <2>2, <2>3, <2>5 DEF ValidField, Exact
  <2> QED
    BY <2>4, <2>5
<1>3. CASE f \notin TypedWords(op)
  <2>1. f \notin DOMAIN num /\ f \notin DOMAIN word
    BY <1>3 DEF Asked, Numbers
  <2>2. Text(f) = SessionWord(f)
    BY <2>1 DEF Text
  <2> DEFINE c == IF f = "uid" THEN "0" ELSE "a"
             t == [i \in 1..WordSize |-> c]
  <2>3. SessionWord(f) = t
    BY DEF SessionWord
  <2>4. c \in Plain /\ c \in Alnum /\ (f = "uid" => c \in Digit)
    BY Digits DEF Plain, Alnum
  <2> HIDE DEF c
  <2>5. t \in [1..WordSize -> Plain] /\ \A i \in 1..WordSize : t[i] = c
    BY <2>4
  <2> HIDE DEF t
  <2>6. t \in Seq(Plain) /\ Len(t) = WordSize
    BY <1>1, <2>5, FunctionIsSeq
  <2>7. CASE f = "uid"
    <3>1. Exact(t, WordSize, Digit)
      BY <1>1, <2>4, <2>5, <2>6, <2>7 DEF Exact, Valid
    <3> QED
      BY <2>2, <2>3, <2>6, <2>7, <3>1 DEF ValidField
  <2>8. CASE f = "pw"
    <3>1. Exact(t, WordSize, Alnum)
      BY <1>1, <2>4, <2>5, <2>6 DEF Exact, Valid
    <3> QED
      BY <2>2, <2>3, <2>6, <2>8, <3>1 DEF ValidField
  <2> QED
    BY <2>7, <2>8
<1> QED
  BY <1>2, <1>3

(* No field is empty or has a separator in it.                             *)
LEMMA TextLaw ==
  ASSUME Asked, NEW i \in 1..Len(Fields(op))
  PROVE  Text(Fields(op)[i]) \in Seq(Plain) /\ Len(Text(Fields(op)[i])) \in Nat \ {0}
<1> DEFINE f == Fields(op)[i]
<1>1. f \in Numbers(op) \cup TypedWords(op) \cup {"uid", "pw"}
  BY FieldKinds DEF Asked
<1> HIDE DEF f
<1>2. WordSize \in Nat \ {0}
  BY MessagesAssumption
<1>3. Text(f) \in Seq(Plain) /\ Len(Text(f)) \in Nat \ {0}
  BY <1>1, <1>2, NumberText, WordText, SessionText
<1> QED
  BY <1>3 DEF f

-------------------------------------------------------------------------------
(* The request as it is laid out.                                          *)

Texts == [i \in 1..Len(Fields(op)) |-> Text(Fields(op)[i])]
Pieces == [i \in 1..Len(Fields(op)) |-> <<" ">> \o Text(Fields(op)[i])]
Closing == IF op = "OPA" THEN <<" ", "?">> ELSE <<"\n">>

(* at[i] characters of the whole are before the i-th field and its space.  *)
Laid(at, whole) ==
  /\ whole \in Seq(Char)
  /\ at \in [1..(Len(Fields(op)) + 1) -> Nat]
  /\ at[1] = 1 /\ whole[1] = op
  /\ \A i \in 1..Len(Fields(op)) :
       /\ at[i + 1] = at[i] + 1 + Len(Texts[i])
       /\ at[i + 1] <= at[Len(Fields(op)) + 1]
       /\ whole[at[i] + 1] = " "
       /\ \A j \in 1..Len(Texts[i]) : whole[at[i] + 1 + j] = Texts[i][j]
  /\ Len(whole) = at[Len(Fields(op)) + 1] + IF op = "OPA" THEN 2 ELSE 1
  /\ whole[at[Len(Fields(op)) + 1] + 1] = IF op = "OPA" THEN " " ELSE "\n"

(* Every request is laid out so, and snprintf keeps the beginning of it.   *)
LEMMA RequestLaid ==
  ASSUME Asked
  PROVE  \E at, whole : Laid(at, whole) /\ Format = Fit(whole, Room(op))
<1> DEFINE n == Len(Fields(op))
           S == Char
<1>1. n \in Nat
  BY FieldsAre DEF Asked, Ops
<1>2. ASSUME NEW i \in 1..n
      PROVE  /\ Texts[i] = Text(Fields(op)[i]) /\ Len(Texts[i]) \in Nat \ {0}
             /\ Pieces[i] \in Seq(S) /\ Len(Pieces[i]) = Len(Texts[i]) + 1
             /\ Pieces[i][1] = " "
             /\ \A j \in 1..Len(Texts[i]) : Pieces[i][j + 1] = Texts[i][j]
  <2> DEFINE t == Text(Fields(op)[i])
  <2>1. t \in Seq(Plain) /\ Len(t) \in Nat \ {0}
    BY TextLaw
  <2>2. Texts[i] = t /\ Pieces[i] = <<" ">> \o t
    BY DEF Texts, Pieces
  <2>3. " " \in S
    BY DEF Char
  <2> HIDE DEF t, S
  <2>4. t \in Seq(S)
    <3>1. t \in [1..Len(t) -> S]
      BY <2>1, LenProperties, ElementOfSeq DEF S, Char
    <3> QED
      BY <2>1, <3>1, FunctionIsSeq
  <2>5. PICK u \in Seq(S) : u = <<" ">> \o t /\ IsCons(u, " ", t)
    BY <2>3, <2>4, ConsTwo
  <2>6. Texts[i] = t /\ Pieces[i] = u
    BY <2>2, <2>5
  <2>7. Texts[i] = Text(Fields(op)[i])
    BY DEF Texts
  <2> QED
    BY <2>1, <2>5, <2>6, <2>7 DEF IsCons
<1> DEFINE head == <<op>>
           tail == Closing
<1>3. head \in Seq(S) /\ Len(head) = 1 /\ head[1] = op
  <2>1. op \in S
    BY DEF Asked, Char
  <2> HIDE DEF S
  <2> QED
    BY <2>1
<1>4. /\ tail \in Seq(S)
      /\ Len(tail) = IF op = "OPA" THEN 2 ELSE 1
      /\ tail[1] = IF op = "OPA" THEN " " ELSE "\n"
  <2>1. CASE op = "OPA"
    <3>1. tail = <<" ", "?">>
      BY <2>1 DEF Closing
    <3>2. " " \in S /\ "?" \in S
      BY DEF Char, Plain
    <3> HIDE DEF S
    <3>3. <<" ", "?">> \in Seq(S)
      <4> DEFINE a == " "
                 b == "?"
      <4>1. a \in S /\ b \in S
        BY <3>2
      <4> HIDE DEF a, b
      <4>2. <<a, b>> \in Seq(S)
        BY <4>1
      <4> QED
        BY <4>2 DEF a, b
    <3>4. Len(<<" ", "?">>) = 2 /\ <<" ", "?">>[1] = " "
      OBVIOUS
    <3> HIDE DEF tail
    <3> QED
      BY <2>1, <3>1, <3>3, <3>4
  <2>2. CASE op # "OPA"
    <3>1. tail = <<"\n">>
      BY <2>2 DEF Closing
    <3> QED
      BY <2>2, <3>1 DEF Char, Plain
  <2> QED
    BY <2>1, <2>2
<1>5. Pieces \in Seq(Seq(S)) /\ Len(Pieces) = n
  <2>1. Pieces \in [1..n -> Seq(S)]
    BY <1>2 DEF Pieces
  <2> QED
    BY <1>1, <2>1, FunctionIsSeq
<1>6. Format = Fit(head \o FlattenSeq(Pieces) \o tail, Room(op))
  BY DEF Format, Pieces, Closing
<1> HIDE DEF n, S, head, tail
<1>7. PICK whole, at : whole \in Seq(S) /\ Framed(at, head, Pieces, tail, whole)
  BY <1>3, <1>4, <1>5, FramedPlaces
<1>8. Format = Fit(whole, Room(op))
  BY <1>6, <1>7 DEF Framed
<1>9. Laid(at, whole)
  <2>1. /\ at \in [1..(n + 1) -> Nat] /\ at[1] = 1 /\ whole[1] = op
        /\ Len(whole) = at[n + 1] + Len(tail)
        /\ whole[at[n + 1] + 1] = tail[1]
    <3>1. /\ at \in [1..(Len(Pieces) + 1) -> Nat] /\ at[1] = Len(head)
          /\ \A j \in 1..Len(head) : whole[j] = head[j]
          /\ Len(whole) = at[Len(Pieces) + 1] + Len(tail)
          /\ \A j \in 1..Len(tail) : whole[at[Len(Pieces) + 1] + j] = tail[j]
      BY <1>7 DEF Framed
    <3> DEFINE lt == Len(tail)
               lh == Len(head)
    <3>0. (lt = 1 \/ lt = 2) /\ lh = 1
      BY <1>3, <1>4
    <3>2. 1 \in 1..lt /\ 1 \in 1..lh
      <4> HIDE DEF lt, lh
      <4> QED
        BY <3>0
    <3>3. whole[1] = op
      BY <1>3, <3>1, <3>2
    <3> QED
      BY <1>3, <1>5, <3>1, <3>2, <3>3
  <2>2. ASSUME NEW i \in 1..n
        PROVE  /\ at[i + 1] = at[i] + 1 + Len(Texts[i]) /\ at[i + 1] <= at[n + 1]
               /\ whole[at[i] + 1] = " "
               /\ \A j \in 1..Len(Texts[i]) : whole[at[i] + 1 + j] = Texts[i][j]
    <3>1. /\ at[i + 1] = at[i] + Len(Pieces[i]) /\ at[i + 1] <= at[n + 1]
          /\ \A j \in 1..Len(Pieces[i]) : whole[at[i] + j] = Pieces[i][j]
      BY <1>5, <1>7 DEF Framed
    <3>2. at[i] \in Nat
      BY <1>1, <2>1
    <3>3. /\ Len(Texts[i]) \in Nat \ {0} /\ Len(Pieces[i]) = Len(Texts[i]) + 1
          /\ Pieces[i][1] = " "
          /\ \A j \in 1..Len(Texts[i]) : Pieces[i][j + 1] = Texts[i][j]
      BY <1>2
    <3> DEFINE a == at[i]
               l == Len(Texts[i])
               m == Len(Pieces[i])
    <3>0. a \in Nat /\ l \in Nat \ {0} /\ m = l + 1
      BY <3>2, <3>3
    <3>4. \A j \in 1..l : j + 1 \in 1..m /\ a + (j + 1) = a + 1 + j
      <4> HIDE DEF a, l, m
      <4> QED
        BY <3>0
    <3>5. 1 \in 1..m
      <4> HIDE DEF a, l, m
      <4> QED
        BY <3>0
    <3>6. a + m = a + 1 + l
      <4> HIDE DEF a, l, m
      <4> QED
        BY <3>0
    <3>7. \A j \in 1..Len(Texts[i]) : whole[at[i] + 1 + j] = Texts[i][j]
      BY <3>1, <3>3, <3>4
    <3> QED
      BY <3>1, <3>3, <3>5, <3>6, <3>7
  <2> QED
    BY <1>4, <1>7, <2>1, <2>2 DEF Laid, n, S
<1> QED
  BY <1>8, <1>9

(* snprintf: what there is room for.                                       *)
LEMMA FitLaw ==
  ASSUME NEW S, NEW text \in Seq(S), NEW room \in Nat
  PROVE  /\ Len(Fit(text, room)) = IF room <= Len(text) THEN room ELSE Len(text)
         /\ Len(Fit(text, room)) \in Nat
         /\ \A j \in 1..Len(Fit(text, room)) : Fit(text, room)[j] = text[j] /\ j \in 1..Len(text)
         /\ Fit(text, room) \in Seq(S)
<1> DEFINE l == Len(text)
           m == IF room <= l THEN room ELSE l
<1>1. l \in Nat
  BY LenProperties
<1>2. m \in {room, l} /\ \A y \in {room, l} : m <= y
  BY <1>1
<1>3. \A x \in {room, l} : (\A y \in {room, l} : x <= y) => x = m
  BY <1>1
<1>4. Min({room, l}) = m
  <2> HIDE DEF m, l
  <2> QED
    BY <1>2, <1>3 DEF Min
<1>5. Fit(text, room) = SubSeq(text, 1, m)
  BY <1>4 DEF Fit
<1>6. m \in 0..l
  BY <1>1
<1> HIDE DEF m
<1>7. /\ SubSeq(text, 1, m) \in Seq(S)
      /\ Len(SubSeq(text, 1, m)) = m
      /\ \A j \in 1..m : SubSeq(text, 1, m)[j] = text[j] /\ j \in 1..l
  BY <1>6, <1>1, SubSeqProperties
<1> QED
  BY <1>5, <1>6, <1>7 DEF m

(* What the protocol allows passes the checks of the server.               *)
LEMMA LimitsValid ==
  ASSUME Asked, InLimits, NEW i \in 1..Len(Fields(op))
  PROVE  /\ ValidField(Fields(op)[i], Text(Fields(op)[i]))
         /\ Len(Text(Fields(op)[i])) <= Size(Fields(op)[i])
<1> DEFINE f == Fields(op)[i]
           t == Text(f)
<1>1. f \in Numbers(op) \cup TypedWords(op) \cup {"uid", "pw"}
  BY FieldKinds DEF Asked
<1>2. t \in Seq(Plain) /\ Len(t) \in Nat \ {0}
  BY TextLaw
<1>3. t # <<>>
  BY <1>2, EmptySeq
<1> HIDE DEF f
<1>4. CASE f \in Numbers(op)
  <2>1. num[f] \in 0..(Power[Size(f)] - 1)
    BY <1>4 DEF InLimits, Asked
  <2>2. /\ t \in Seq(Digit) /\ Value(t) = num[f] /\ Len(t) <= Size(f)
    <3>1. num[f] >= 0
      BY <2>1, <1>4, NumberText, MessagesAssumption
    <3> QED
      BY <1>4, <2>1, <3>1, NumberText
  <2>3. \A j \in 1..Len(t) : t[j] \in Digit
    BY <2>2, ElementOfSeq
  <2> HIDE DEF t
  <2>4. Valid(t, Size(f), Digit) /\ Valid(t, Len(t), Digit)
    BY <1>2, <2>2, <2>3 DEF Valid
  <2>5. f = "aid" => Value(t) < Power[AidSize]
    <3>1. f = "aid" => Size(f) = AidSize
      BY DEF Size
    <3>2. AidSize \in Nat
      BY MessagesAssumption
    <3> DEFINE p == Power[AidSize]
    <3>3. p \in Nat
      BY <3>2, PowerLaw
    <3>4. f = "aid" => Value(t) \in 0..(p - 1)
      BY <2>1, <2>2, <3>1
    <3> HIDE DEF p
    <3>5. f = "aid" => Value(t) < p
      BY <3>3, <3>4
    <3> QED
      BY <3>5 DEF p
  <2>6. f = "fsize" => Value(t) <= MaxFsize
    <3>1. f = "fsize" => op = "OPA"
      BY <1>4, FieldSets DEF Asked, Ops
    <3>2. op = "OPA" => num["fsize"] \in 1..MaxFsize
      BY DEF Asked, ClientChecks
    <3>3. MaxFsize \in Nat
      <4>1. Power[FsizeSize] \in Nat
        BY PowerLaw, MessagesAssumption
      <4> QED
        BY <4>1, MessagesAssumption
    <3> QED
      BY <2>2, <3>1, <3>2, <3>3
  <2>7. f \in {"aid", "value", "start", "time", "fsize"}
    BY <1>4, NumberSizes DEF Asked
  <2>8. ValidField(f, t)
    <3>1. CASE f = "aid"
      BY <2>4, <2>5, <3>1 DEF ValidField
    <3>2. CASE f \in {"value", "start", "time"}
      BY <1>3, <2>4, <3>2 DEF ValidField
    <3>3. CASE f = "fsize"
      BY <1>3, <2>4, <2>6, <3>3 DEF ValidField
    <3> QED
      BY <2>7, <3>1, <3>2, <3>3
  <2> QED
    BY <2>2, <2>8 DEF f, t
<1>5. CASE f \in TypedWords(op) /\ op # "LIN"
  <2>1. f \in {"name", "fname"}
    BY <1>5 DEF TypedWords
  <2>2. t = word[f] /\ f \in DOMAIN word
    BY <1>5, WordText
  <2>3. Valid(t, WordSize, Alnum)
    BY <2>2 DEF InLimits
  <2>4. Size(f) = WordSize
    BY <2>1 DEF Size
  <2> HIDE DEF t
  <2>5. ValidField(f, t)
    BY <1>3, <2>1, <2>3 DEF ValidField
  <2>6. Len(t) <= Size(f)
    BY <2>3, <2>4 DEF Valid
  <2> QED
    BY <2>5, <2>6 DEF f, t
<1>6. CASE f \in {"uid", "pw"}
  <2>1. op = "LIN" \/ f \notin TypedWords(op)
    BY <1>6 DEF TypedWords
  <2>2. ValidField(f, t) /\ Len(t) = WordSize
    BY <1>6, <2>1, SessionText
  <2>3. Size(f) = WordSize
    BY <1>6 DEF Size
  <2> QED
    BY <1>2, <2>2, <2>3 DEF f
<1>7. op = "LIN" => f \in {"uid", "pw"}
  BY <1>1, FieldSets
<1> QED
  BY <1>1, <1>4, <1>5, <1>6, <1>7

(* What passes the checks of the server is what was meant.                 *)
ActsOn(g) ==
  /\ Len(g) = Len(Fields(op))
  /\ \A i \in 1..Len(g) :
       LET f == Fields(op)[i]
       IN  IF f \in Numbers(op) THEN Value(g[i]) = num[f] ELSE g[i] = Text(f)
  /\ "aid" \in Numbers(op) =>
       num["aid"] \in Aids /\ Decimal(num["aid"], AidSize) \in Range(g)

(* Texts that pass the checks of the server are acted on as was meant.     *)
LEMMA ActsLaw ==
  ASSUME Asked, ValidFields(Texts)
  PROVE  ActsOn(Texts)
<1> DEFINE n == Len(Fields(op))
<1>1. n \in Nat
  BY FieldsAre DEF Asked, Ops
<1>2. /\ Len(Texts) = n /\ DOMAIN Texts = 1..n
      /\ \A i \in 1..n : Texts[i] = Text(Fields(op)[i])
  <2>1. Texts \in [1..n -> {Texts[i] : i \in 1..n}]
    BY DEF Texts
  <2>2. Len(Texts) = n
    BY <1>1, <2>1, FunctionIsSeq
  <2> QED
    BY <2>1, <2>2 DEF Texts
<1> HIDE DEF n
<1>3. ASSUME NEW i \in 1..n, Fields(op)[i] \in Numbers(op)
      PROVE  LET f == Fields(op)[i]
             IN  /\ num[f] \in Nat /\ Value(Text(f)) = num[f]
                 /\ f = "aid" => num[f] \in Aids
  <2> DEFINE f == Fields(op)[i]
             t == Text(f)
  <2>1. ValidField(f, t)
    BY <1>2 DEF ValidFields
  <2>2. f \in {"aid", "value", "start", "time", "fsize"}
    BY <1>3, NumberSizes DEF Asked
  <2>3. f \in Numbers(op)
    BY <1>3
  <2> HIDE DEF f
  <2>4. \E size : Valid(t, size, Digit)
    <3> HIDE DEF t
    <3>1. CASE f = "aid"
      BY <2>1, <3>1 DEF ValidField
    <3>2. CASE f \in {"value", "start", "time"}
      BY <2>1, <3>2 DEF ValidField
    <3>3. CASE f = "fsize"
      BY <2>1, <3>3 DEF ValidField
    <3> QED
      BY <2>2, <3>1, <3>2, <3>3
  <2>5. num[f] \in Nat /\ Value(t) = num[f]
    BY <2>3, <2>4, ValidNumber
  <2>6. f = "aid" => num[f] \in Aids
    <3>1. f = "aid" => Value(t) < Power[AidSize]
      BY <2>1 DEF ValidField
    <3>2. Power[AidSize] \in Nat
      BY PowerLaw, MessagesAssumption
    <3> QED
      BY <2>5, <3>1, <3>2 DEF Aids
  <2> QED
    BY <2>5, <2>6 DEF f
<1>4. ASSUME "aid" \in Numbers(op)
      PROVE  num["aid"] \in Aids /\ Decimal(num["aid"], AidSize) \in Range(Texts)
  <2>1. PICK i \in 1..n : Fields(op)[i] = "aid"
    <3>1. "aid" \in Range(Fields(op))
      BY <1>4 DEF Numbers
    <3>2. DOMAIN Fields(op) = 1..n
      BY FieldsDomain DEF Asked, n
    <3> QED
      BY <3>1, <3>2 DEF Range
  <2>2. num["aid"] \in Aids
    BY <1>3, <1>4, <2>1
  <2>3. Texts[i] = Decimal(num["aid"], AidSize)
    <3>1. Text("aid") = Decimal(num["aid"], Width("aid")) /\ Width("aid") = AidSize
      BY <1>4, NumberText DEF Width
    <3> QED
      BY <1>2, <2>1, <3>1
  <2> QED
    BY <1>2, <2>2, <2>3 DEF Range
<1> QED
  BY <1>2, <1>3, <1>4 DEF ActsOn, n

(* The texts by number.                                                    *)
LEMMA TextsAre ==
  ASSUME Asked
  PROVE  /\ Texts \in Seq(Seq(Plain)) /\ Len(Texts) = Len(Fields(op))
         /\ Len(Fields(op)) \in Nat
         /\ \A i \in 1..Len(Fields(op)) :
              /\ Texts[i] = Text(Fields(op)[i])
              /\ Texts[i] \in Seq(Plain) /\ Len(Texts[i]) \in Nat \ {0}
<1> DEFINE n == Len(Fields(op))
<1>1. n \in Nat
  BY FieldsAre DEF Asked, Ops
<1>2. \A i \in 1..n : /\ Texts[i] = Text(Fields(op)[i])
                      /\ Texts[i] \in Seq(Plain) /\ Len(Texts[i]) \in Nat \ {0}
  BY TextLaw DEF Texts
<1>3. Texts \in [1..n -> Seq(Plain)]
  BY <1>2 DEF Texts
<1> HIDE DEF n
<1>4. Texts \in Seq(Seq(Plain)) /\ Len(Texts) = n
  BY <1>1, <1>3, FunctionIsSeq
<1> QED
  BY <1>1, <1>2, <1>4 DEF n

(* A number has no more digits than it counts, or one.                     *)
LEMMA FewDigits ==
  ASSUME Asked, NEW f \in Numbers(op), Width(f) = 1, num[f] >= 0
  PROVE  Len(Text(f)) <= MaxTyped
<1> DEFINE v == num[f]
<1>1. MaxTyped \in Nat \ {0} /\ v \in Nat /\ v <= MaxTyped
  BY NumberText, MessagesAssumption
<1>2. v < Power[MaxTyped]
  <2>1. MaxTyped < Power[MaxTyped] /\ Power[MaxTyped] \in Nat
    BY <1>1, PowerGrows, PowerLaw
  <2> HIDE DEF v
  <2> QED
    BY <1>1, <2>1
<1>3. Text(f) = Decimal(v, 1)
  BY NumberText
<1> HIDE DEF v
<1>4. 1 \in Nat /\ 1 <= MaxTyped
  BY <1>1
<1> QED
  BY <1>1, <1>2, <1>3, <1>4, DecimalLaw

(* Where there is room for all.                                            *)
LEMMA RoomForAll ==
  ASSUME Asked, op \in {"OPA", "LIN", "LMA", "LST"}, NEW at, NEW whole, Laid(at, whole)
  PROVE  Len(whole) <= Room(op)
<1> DEFINE W == WordSize
           M == MaxTyped
           l(i) == Len(Texts[i])
<1>1. W \in Nat \ {0} /\ M \in Nat \ {0}
  BY MessagesAssumption
<1>2. Room(op) = 10 * (W + M)
  BY DEF Room
<1>3. /\ at[1] = 1 /\ at \in [1..(Len(Fields(op)) + 1) -> Nat]
      /\ \A i \in 1..Len(Fields(op)) : at[i + 1] = at[i] + 1 + l(i)
      /\ Len(whole) = at[Len(Fields(op)) + 1] + IF op = "OPA" THEN 2 ELSE 1
  BY DEF Laid
<1>4. \A i \in 1..Len(Fields(op)) : l(i) \in Nat /\ Texts[i] = Text(Fields(op)[i])
  BY TextsAre
<1>5. CASE op = "OPA"
  <2>1. Len(Fields(op)) = 7
    BY <1>5, FieldsAre
  <2>2. /\ Texts[1] = Text("uid") /\ Texts[2] = Text("pw") /\ Texts[3] = Text("name")
        /\ Texts[4] = Text("start") /\ Texts[5] = Text("time")
        /\ Texts[6] = Text("fname") /\ Texts[7] = Text("fsize")
    <3>1. \A i \in 1..7 : Texts[i] = Text(Fields("OPA")[i])
      BY <1>4, <1>5, <2>1
    <3> DEFINE F == Fields("OPA")
    <3>2. /\ Texts[1] = Text(F[1]) /\ Texts[2] = Text(F[2]) /\ Texts[3] = Text(F[3])
          /\ Texts[4] = Text(F[4]) /\ Texts[5] = Text(F[5])
          /\ Texts[6] = Text(F[6]) /\ Texts[7] = Text(F[7])
      BY <3>1
    <3> QED
      BY <3>2, FieldsAre
  <2>3. l(1) = W /\ l(2) = W
    <3>1. "uid" \notin TypedWords(op) /\ "pw" \notin TypedWords(op)
      BY <1>5, FieldSets
    <3> QED
      BY <2>2, <3>1, SessionText
  <2>4. l(3) <= W /\ l(6) <= W
    <3>1. "name" \in TypedWords(op) /\ "fname" \in TypedWords(op)
      BY <1>5, FieldSets
    <3>2. Len(word["name"]) <= W /\ Len(word["fname"]) <= W
      BY <1>5 DEF Asked, ClientChecks, Valid
    <3> QED
      BY <2>2, <3>1, <3>2, WordText
  <2>5. l(4) <= M /\ l(5) <= M /\ l(7) <= M
    <3>1. "start" \in Numbers(op) /\ "time" \in Numbers(op) /\ "fsize" \in Numbers(op)
      BY <1>5, FieldSets
    <3>2. Width("start") = 1 /\ Width("time") = 1 /\ Width("fsize") = 1
      BY DEF Width
    <3>3. num["start"] >= 0 /\ num["time"] >= 0 /\ num["fsize"] >= 0
      <4>1. /\ num["start"] >= 0 /\ num["time"] \in 0..(Power[TimeSize] - 1)
            /\ num["fsize"] \in 1..MaxFsize
        BY <1>5 DEF Asked, ClientChecks
      <4>2. Power[TimeSize] \in Nat /\ Power[FsizeSize] \in Nat
        BY PowerLaw, MessagesAssumption
      <4>3. MaxFsize \in Nat
        BY <4>2, MessagesAssumption
      <4> QED
        BY <4>1, <4>2, <4>3
    <3> QED
      BY <2>2, <3>1, <3>2, <3>3, FewDigits
  <2> DEFINE l1 == l(1) l2 == l(2) l3 == l(3) l4 == l(4) l5 == l(5) l6 == l(6) l7 == l(7)
  <2>6. /\ l1 = W /\ l2 = W /\ l3 <= W /\ l6 <= W /\ l4 <= M /\ l5 <= M /\ l7 <= M
        /\ l3 \in Nat /\ l4 \in Nat /\ l5 \in Nat /\ l6 \in Nat /\ l7 \in Nat
    BY <1>4, <2>1, <2>3, <2>4, <2>5
  <2>7. /\ at[1] = 1 /\ at[2] = at[1] + 1 + l1 /\ at[3] = at[2] + 1 + l2
        /\ at[4] = at[3] + 1 + l3 /\ at[5] = at[4] + 1 + l4 /\ at[6] = at[5] + 1 + l5
        /\ at[7] = at[6] + 1 + l6 /\ at[8] = at[7] + 1 + l7
        /\ Len(whole) = at[8] + 2
    <3>1. at[1] = 1 /\ \A i \in 1..7 : at[i + 1] = at[i] + 1 + l(i)
      BY <1>3, <2>1
    <3>2. Len(whole) = at[7 + 1] + 2
      BY <1>3, <1>5, <2>1
    <3> HIDE DEF l
    <3>3. at[1] = 1 /\ at[2] = at[1] + 1 + l(1) /\ at[3] = at[2] + 1 + l(2) /\ at[4] = at[3] + 1 + l(3)
      BY <3>1
    <3>4. /\ at[5] = at[4] + 1 + l(4) /\ at[6] = at[5] + 1 + l(5)
          /\ at[7] = at[6] + 1 + l(6) /\ at[8] = at[7] + 1 + l(7)
      BY <3>1
    <3> QED
      BY <3>2, <3>3, <3>4
  <2> HIDE DEF l1, l2, l3, l4, l5, l6, l7, W, M
  <2> QED
    BY <1>1, <1>2, <2>6, <2>7
<1>6. CASE op = "LIN"
  <2>1. Len(Fields(op)) = 2
    BY <1>6, FieldsAre
  <2>2. Texts[1] = Text("uid") /\ Texts[2] = Text("pw")
    BY <1>4, <1>6, <2>1, FieldsAre
  <2> DEFINE l1 == l(1) l2 == l(2)
  <2>3. l1 = W /\ l2 = W
    BY <1>6, <2>2, SessionText
  <2>4. /\ at[1] = 1 /\ at[2] = at[1] + 1 + l1 /\ at[3] = at[2] + 1 + l2
        /\ Len(whole) = at[3] + 1
    <3>1. at[1] = 1 /\ \A i \in 1..2 : at[i + 1] = at[i] + 1 + l(i)
      BY <1>3, <2>1
    <3>2. Len(whole) = at[2 + 1] + 1
      BY <1>3, <1>6, <2>1
    <3> HIDE DEF l
    <3> QED
      BY <3>1, <3>2
  <2> HIDE DEF l1, l2, W, M
  <2> QED
    BY <1>1, <1>2, <2>3, <2>4
<1>7. CASE op = "LMA"
  <2>1. Len(Fields(op)) = 1
    BY <1>7, FieldsAre
  <2>2. Texts[1] = Text("uid") /\ "uid" \notin TypedWords(op)
    BY <1>4, <1>7, <2>1, FieldsAre, FieldSets
  <2> DEFINE l1 == l(1)
  <2>3. l1 = W
    BY <2>2, SessionText
  <2>4. at[1] = 1 /\ at[2] = at[1] + 1 + l1 /\ Len(whole) = at[2] + 1
    <3>1. at[1] = 1 /\ \A i \in 1..1 : at[i + 1] = at[i] + 1 + l(i)
      BY <1>3, <2>1
    <3>2. Len(whole) = at[1 + 1] + 1
      BY <1>3, <1>7, <2>1
    <3> HIDE DEF l
    <3> QED
      BY <3>1, <3>2
  <2> HIDE DEF l1, W, M
  <2> QED
    BY <1>1, <1>2, <2>3, <2>4
<1>8. CASE op = "LST"
  <2>1. Len(Fields(op)) = 0
    BY <1>8, FieldsAre
  <2>2. Len(whole) = 2
    BY <1>3, <1>8, <2>1
  <2> HIDE DEF W, M
  <2> QED
    BY <1>1, <1>2, <2>2
<1> QED
  BY <1>5, <1>6, <1>7, <1>8

(* When a field is not too long, and those before it are not, there is     *)
(* room for one character more: nobody waits for what has been cut.        *)
LEMMA RoomLaw ==
  ASSUME Asked, op \in Tcp, NEW at, NEW whole, Laid(at, whole),
         NEW k \in 1..Len(Fields(op)), NEW b \in Nat,
         b <= Len(Texts[k]), b <= Size(Fields(op)[k]),
         \A i \in 1..(k - 1) : Len(Texts[i]) <= Size(Fields(op)[i])
  PROVE  at[k] + 1 + b < Len(Fit(whole, Room(op)))
<1> DEFINE n == Len(Fields(op))
           W == WordSize
           A == AidSize
           V == ValueSize
           M == MaxTyped
           l(i) == Len(Texts[i])
           s(i) == Size(Fields(op)[i])
<1>1. /\ W \in Nat \ {0} /\ A \in Nat \ {0} /\ V \in Nat \ {0} /\ M \in Nat \ {0}
  BY MessagesAssumption
<1>2. /\ at[1] = 1 /\ at \in [1..(n + 1) -> Nat]
      /\ \A i \in 1..n : at[i + 1] = at[i] + 1 + l(i) /\ at[i + 1] <= at[n + 1]
      /\ Len(whole) = at[n + 1] + IF op = "OPA" THEN 2 ELSE 1
      /\ whole \in Seq(Char)
  BY DEF Laid
<1>3. n \in Nat /\ \A i \in 1..n : l(i) \in Nat
  BY TextsAre
<1>4. at[k] + 1 + b < Len(whole)
  <2>1. at[k + 1] = at[k] + 1 + l(k) /\ at[k + 1] <= at[n + 1] /\ at[k] \in Nat /\ at[n + 1] \in Nat
    <3>1. k \in 1..(n + 1) /\ n + 1 \in 1..(n + 1)
      BY <1>3
    <3>2. at \in [1..(n + 1) -> Nat]
      BY <1>2
    <3>3. at[k + 1] = at[k] + 1 + l(k) /\ at[k + 1] <= at[n + 1]
      BY <1>2
    <3> HIDE DEF n, l
    <3> QED
      BY <3>1, <3>2, <3>3
  <2>2. Len(whole) > at[n + 1]
    BY <1>2, <2>1
  <2>3. l(k) \in Nat /\ b <= l(k)
    BY <1>3
  <2>4. at[k] + 1 + b <= at[k] + 1 + l(k)
    <3> DEFINE a == at[k]
               lk == l(k)
    <3>1. a \in Nat /\ lk \in Nat /\ b <= lk
      BY <2>1, <2>3
    <3> HIDE DEF a, lk
    <3>2. a + 1 + b <= a + 1 + lk
      BY <3>1
    <3> QED
      BY <3>2 DEF a, lk
  <2> HIDE DEF n
  <2> DEFINE lw == Len(whole)
  <2>5. lw \in Nat
    BY <1>2, LenProperties
  <2>6. at[k] + 1 + b <= at[n + 1] /\ at[n + 1] < lw
    <3>1. at[k] + 1 + b <= at[k + 1]
      BY <2>1, <2>4
    <3>2. at[k + 1] \in Nat
      BY <2>1, <2>3
    <3> QED
      BY <2>1, <2>2, <2>5, <3>1, <3>2
  <2> HIDE DEF lw
  <2>7. at[k] + 1 + b < lw
    BY <2>1, <2>5, <2>6
  <2> QED
    BY <2>7 DEF lw
<1>5. Size("uid") = W /\ Size("pw") = W /\ Size("aid") = A /\ Size("value") = V
  BY DEF Size
<1>6. Room(op) \in Nat
  <2>1. /\ Room("BID") = 2 * W + A + V + 6 /\ Room("CLS") = 2 * W + A + 5
        /\ Room("SAS") = A + 4 /\ Room("OPA") = 10 * (W + M)
    BY DEF Room
  <2> QED
    BY <1>1, <2>1 DEF Tcp
<1>7. Len(Fit(whole, Room(op))) = IF Room(op) <= Len(whole) THEN Room(op) ELSE Len(whole)
  BY <1>2, <1>6, FitLaw
<1>8. CASE op = "OPA"
  <2>1. Len(whole) <= Room(op)
    BY <1>8, RoomForAll
  <2>2. Len(whole) \in Nat
    BY <1>2, LenProperties
  <2>3. Len(Fit(whole, Room(op))) = Len(whole)
    BY <1>6, <1>7, <2>1, <2>2
  <2> QED
    BY <1>4, <2>3
<1>9. CASE op \in {"BID", "CLS", "SAS"}
  <2>1. at[k] + 1 + b < Room(op)
    <3> DEFINE l1 == l(1) l2 == l(2) l3 == l(3)
    <3>1. CASE op = "BID"
      <4>1. n = 4 /\ s(1) = W /\ s(2) = W /\ s(3) = A /\ s(4) = V
        BY <1>5, <3>1, FieldsAre
      <4>2. Room(op) = 2 * W + A + V + 6
        BY <3>1 DEF Room
      <4>3. /\ at[1] = 1 /\ at[2] = at[1] + 1 + l1 /\ at[3] = at[2] + 1 + l2
            /\ at[4] = at[3] + 1 + l3 /\ l1 \in Nat /\ l2 \in Nat /\ l3 \in Nat
        <5>1. /\ at[1] = 1 /\ \A i \in 1..4 : at[i + 1] = at[i] + 1 + l(i)
              /\ \A i \in 1..4 : l(i) \in Nat
          BY <1>2, <1>3, <4>1
        <5> HIDE DEF l
        <5> QED
          BY <5>1
      <4>4. k = 1 \/ k = 2 \/ k = 3 \/ k = 4
        BY <4>1
      <4>5. /\ k = 1 => b <= W
            /\ k = 2 => b <= W /\ l1 <= W
            /\ k = 3 => b <= A /\ l1 <= W /\ l2 <= W
            /\ k = 4 => b <= V /\ l1 <= W /\ l2 <= W /\ l3 <= A
        BY <4>1
      <4> HIDE DEF l1, l2, l3, W, A, V, M, n
      <4> QED
        BY <1>1, <4>2, <4>3, <4>4, <4>5
    <3>2. CASE op = "CLS"
      <4>1. n = 3 /\ s(1) = W /\ s(2) = W /\ s(3) = A
        BY <1>5, <3>2, FieldsAre
      <4>2. Room(op) = 2 * W + A + 5
        BY <3>2 DEF Room
      <4>3. /\ at[1] = 1 /\ at[2] = at[1] + 1 + l1 /\ at[3] = at[2] + 1 + l2
            /\ l1 \in Nat /\ l2 \in Nat
        BY <1>2, <1>3, <4>1
      <4>4. k = 1 \/ k = 2 \/ k = 3
        BY <4>1
      <4>5. /\ k = 1 => b <= W
            /\ k = 2 => b <= W /\ l1 <= W
            /\ k = 3 => b <= A /\ l1 <= W /\ l2 <= W
        BY <4>1
      <4> HIDE DEF l1, l2, l3, W, A, V, M, n
      <4> QED
        BY <1>1, <4>2, <4>3, <4>4, <4>5
    <3>3. CASE op = "SAS"
      <4>1. n = 1 /\ s(1) = A
        BY <1>5, <3>3, FieldsAre
      <4>2. Room(op) = A + 4
        BY <3>3 DEF Room
      <4>3. k = 1
        BY <4>1
      <4>4. at[1] = 1 /\ b <= A
        BY <1>2, <4>1, <4>3
      <4> HIDE DEF W, A, V, M, n
      <4> QED
        BY <1>1, <4>2, <4>3, <4>4
    <3> QED
      BY <1>9, <3>1, <3>2, <3>3
  <2> QED
    BY <1>4, <1>7, <2>1
<1> QED
  BY <1>8, <1>9 DEF Tcp

-------------------------------------------------------------------------------
(* Reading.                                                                *)

(* The fields g have been read, the characters b of the next, p in all.    *)
ReadingAt(at, g, b, p) ==
  /\ g \in Seq(Seq(Plain)) /\ Len(g) < Len(Fields(op))
  /\ \A i \in 1..Len(g) : g[i] = Texts[i] /\ Len(Texts[i]) <= Size(Fields(op)[i])
  /\ b \in Seq(Plain)
  /\ Len(b) <= Len(Texts[Len(g) + 1]) /\ Len(b) <= Size(Fields(op)[Len(g) + 1])
  /\ \A j \in 1..Len(b) : b[j] = Texts[Len(g) + 1][j]
  /\ p = at[Len(g) + 1] + 1 + Len(b)

(* What ends the k-th field.                                               *)
Ender(k) == IF k = Len(Fields(op)) /\ op # "OPA" THEN "\n" ELSE " "

(* What is read next.                                                      *)
LEMMA NextChar ==
  ASSUME Asked, op \in Tcp, NEW at, NEW whole, Laid(at, whole),
         NEW g, NEW b, NEW p, ReadingAt(at, g, b, p)
  PROVE  LET k == Len(g) + 1
             t == Texts[k]
         IN  /\ k \in 1..Len(Fields(op)) /\ p \in Nat
             /\ p < Len(Fit(whole, Room(op)))
             /\ p + 1 \in 1..Len(Fit(whole, Room(op)))
             /\ Fit(whole, Room(op))[p + 1] = whole[p + 1]
             /\ Len(b) < Len(t) => whole[p + 1] = t[Len(b) + 1] /\ whole[p + 1] \in Plain
             /\ Len(b) >= Len(t) =>
                  b = t /\ whole[p + 1] = Ender(k)
<1> DEFINE k == Len(g) + 1
           t == Texts[k]
           n == Len(Fields(op))
           lb == Len(b)
           lt == Len(t)
<1>1. k \in 1..n /\ n \in Nat /\ Len(g) \in Nat
  BY TextsAre, LenProperties DEF ReadingAt
<1>2. t \in Seq(Plain) /\ lt \in Nat \ {0} /\ lb \in Nat /\ lb <= lt /\ b \in Seq(Plain)
  BY <1>1, TextsAre, LenProperties DEF ReadingAt
<1>3. p = at[k] + 1 + lb
  BY DEF ReadingAt
<1>4. at[k] \in Nat /\ at[k + 1] = at[k] + 1 + lt
  <2>1. at \in [1..(n + 1) -> Nat] /\ at[k + 1] = at[k] + 1 + lt
    BY <1>1 DEF Laid
  <2>2. k \in 1..(n + 1)
    BY <1>1
  <2> HIDE DEF k, n, lt
  <2> QED
    BY <2>1, <2>2
<1>5. p \in Nat
  <2> HIDE DEF k, lb
  <2> QED
    BY <1>2, <1>3, <1>4
<1>6. p < Len(Fit(whole, Room(op)))
  <2>1. lb <= Size(Fields(op)[k])
    BY DEF ReadingAt
  <2>2. \A i \in 1..(k - 1) : Len(Texts[i]) <= Size(Fields(op)[i])
    BY <1>1 DEF ReadingAt
  <2> HIDE DEF k, lb
  <2>3. at[k] + 1 + lb < Len(Fit(whole, Room(op)))
    BY <1>1, <1>2, <2>1, <2>2, RoomLaw DEF n
  <2> QED
    BY <1>3, <2>3
<1>7. whole \in Seq(Char) /\ Room(op) \in Nat
  <2>1. /\ Room("BID") = 2 * WordSize + AidSize + ValueSize + 6
        /\ Room("CLS") = 2 * WordSize + AidSize + 5
        /\ Room("SAS") = AidSize + 4 /\ Room("OPA") = 10 * (WordSize + MaxTyped)
    BY DEF Room
  <2>2. AidSize \in Nat /\ WordSize \in Nat /\ ValueSize \in Nat /\ MaxTyped \in Nat
    BY MessagesAssumption
  <2> QED
    <3>1. \A x \in {"BID", "CLS", "SAS", "OPA"} : Room(x) \in Nat
      BY <2>1, <2>2
    <3> QED
      BY <3>1 DEF Tcp, Laid
<1> DEFINE fit == Fit(whole, Room(op))
<1>8. Len(fit) \in Nat /\ \A j \in 1..Len(fit) : fit[j] = whole[j]
  BY <1>7, FitLaw
<1> HIDE DEF fit
<1>9. p + 1 \in 1..Len(fit) /\ fit[p + 1] = whole[p + 1]
  <2> DEFINE lf == Len(fit)
  <2>1. p + 1 \in 1..lf
    <3>1. p < lf /\ lf \in Nat
      BY <1>6, <1>8 DEF fit
    <3> HIDE DEF lf
    <3> QED
      BY <1>5, <3>1
  <2> QED
    BY <1>8, <2>1
<1>10. ASSUME lb < lt PROVE whole[p + 1] = t[lb + 1] /\ whole[p + 1] \in Plain
  <2>1. \A j \in 1..lt : whole[at[k] + 1 + j] = t[j]
    BY <1>1 DEF Laid
  <2>2. t[lb + 1] \in Plain
    BY <1>2, <1>10, ElementOfSeq
  <2> HIDE DEF k, lb, lt, t
  <2> DEFINE a == at[k]
  <2>3. lb + 1 \in 1..lt /\ a + 1 + (lb + 1) = p + 1
    <3>1. a \in Nat /\ lb \in Nat /\ lt \in Nat /\ lb < lt /\ p = a + 1 + lb
      BY <1>2, <1>3, <1>4, <1>10
    <3> HIDE DEF a
    <3> QED
      BY <3>1
  <2> QED
    BY <2>1, <2>2, <2>3
<1>11. ASSUME lb >= lt
       PROVE  /\ b = t
              /\ whole[p + 1] = IF k = n /\ op # "OPA" THEN "\n" ELSE " "
  <2>1. lb = lt
    <3> HIDE DEF lb, lt
    <3> QED
      BY <1>2, <1>11
  <2>2. b = t
    <3>1. \A j \in 1..lb : b[j] = t[j]
      BY DEF ReadingAt
    <3> QED
      BY <1>2, <2>1, <3>1, SeqEqual
  <2>3. p + 1 = at[k + 1] + 1
    <3> HIDE DEF k, lb, lt
    <3> QED
      BY <1>2, <1>3, <1>4, <2>1
  <2>4. CASE k = n
    <3>1. whole[at[n + 1] + 1] = IF op = "OPA" THEN " " ELSE "\n"
      BY DEF Laid
    <3> HIDE DEF k, n
    <3> QED
      BY <2>2, <2>3, <2>4, <3>1
  <2>5. CASE k # n
    <3>1. k + 1 \in 1..n
      <4> HIDE DEF k, n
      <4> QED
        BY <1>1, <2>5
    <3>2. whole[at[k + 1] + 1] = " "
      BY <3>1 DEF Laid
    <3> QED
      BY <2>2, <2>3, <2>5, <3>2
  <2> QED
    BY <2>4, <2>5
<1>12. ASSUME lb >= lt PROVE b = t /\ whole[p + 1] = Ender(k)
  BY <1>11, <1>12 DEF Ender
<1> QED
  BY <1>1, <1>5, <1>6, <1>9, <1>10, <1>12 DEF fit

(* A field that has been read.                                             *)
LEMMA OneMoreField ==
  ASSUME Asked, NEW g \in Seq(Seq(Plain)), NEW b,
         Len(g) + 1 \in 1..Len(Fields(op)),
         \A i \in 1..Len(g) : g[i] = Texts[i],
         b = Texts[Len(g) + 1]
  PROVE  /\ Append(g, b) \in Seq(Seq(Plain)) /\ Len(Append(g, b)) = Len(g) + 1
         /\ \A i \in 1..(Len(g) + 1) : Append(g, b)[i] = Texts[i]
         /\ Len(g) + 1 = Len(Fields(op)) => Append(g, b) = Texts
<1> DEFINE u == Append(g, b)
           n == Len(g)
<1>1. b \in Seq(Plain) /\ n \in Nat
  BY TextsAre, LenProperties
<1>2. /\ u \in Seq(Seq(Plain)) /\ Len(u) = n + 1
      /\ \A i \in 1..n : u[i] = g[i]
      /\ u[n + 1] = b
  BY <1>1, AppendProperties
<1>3. \A i \in 1..(n + 1) : u[i] = Texts[i]
  <2> HIDE DEF u
  <2>1. \A i \in 1..n : u[i] = Texts[i]
    BY <1>2
  <2>2. u[n + 1] = Texts[n + 1]
    BY <1>2
  <2> HIDE DEF n
  <2>3. \A i \in 1..(n + 1) : i \in 1..n \/ i = n + 1
    BY <1>1
  <2> QED
    BY <2>1, <2>2, <2>3
<1>4. n + 1 = Len(Fields(op)) => u = Texts
  <2>1. Texts \in Seq(Seq(Plain)) /\ Len(Texts) = Len(Fields(op))
    BY TextsAre
  <2> HIDE DEF u, n
  <2> QED
    BY <1>2, <1>3, <2>1, SeqEqual
<1> QED
  BY <1>2, <1>3, <1>4

(* The first field, when nothing of it has been read.                      *)
ReadyToRead ==
  \E at, whole : /\ Laid(at, whole) /\ Format = Fit(whole, Room(op))
                 /\ op \in Tcp => ReadingAt(at, <<>>, <<>>, 2)

(* A request that has been formatted can be read from its beginning.       *)
LEMMA RequestReady == Asked => ReadyToRead
<1> SUFFICES ASSUME Asked PROVE ReadyToRead
  OBVIOUS
<1>1. PICK at, whole : Laid(at, whole) /\ Format = Fit(whole, Room(op))
  BY RequestLaid
<1>2. ASSUME op \in Tcp PROVE ReadingAt(at, <<>>, <<>>, 2)
  <2> DEFINE e == <<>>
  <2>1. e \in Seq(Seq(Plain)) /\ e \in Seq(Plain) /\ Len(e) = 0
    OBVIOUS
  <2>2. Len(Fields(op)) \in Nat /\ Len(Fields(op)) >= 1
    BY <1>2, FieldsAre DEF Tcp
  <2>3. Len(Texts[1]) \in Nat /\ Fields(op)[1] \in {"uid", "aid"}
    <3>1. 1 \in 1..Len(Fields(op))
      BY <2>2
    <3>2. Fields(op)[1] \in {"uid", "aid"}
      BY <1>2, FieldsAre DEF Tcp
    <3> QED
      BY <3>1, <3>2, TextsAre
  <2>4. Size(Fields(op)[1]) \in Nat
    <3>1. Size("uid") = WordSize /\ Size("aid") = AidSize
      BY DEF Size
    <3> QED
      BY <2>3, <3>1, MessagesAssumption
  <2>5. at[1] = 1
    BY <1>1 DEF Laid
  <2>6. Len(e) + 1 = 1 /\ 2 = at[1] + 1 + Len(e)
    BY <2>1, <2>5
  <2>7. 1..Len(e) = {}
    BY <2>1
  <2> HIDE DEF e
  <2>8. ReadingAt(at, e, e, 2)
    BY <2>1, <2>2, <2>3, <2>4, <2>6, <2>7 DEF ReadingAt
  <2> QED
    BY <2>8 DEF e
<1> QED
  BY <1>1, <1>2 DEF ReadyToRead

(* And so can the one that is formatted next.                              *)
LEMMA NextRequestReady == Asked' => ReadyToRead'
<1>1. Asked => ReadyToRead
  BY RequestReady
<1> QED
  BY <1>1, PTL

-------------------------------------------------------------------------------
(* Datagrams.                                                              *)

(* What is cut out of a text.                                              *)
LEMMA CutOut ==
  ASSUME NEW S, NEW text \in Seq(S), NEW t \in Seq(S), NEW from \in Nat \ {0}, NEW n \in Nat,
         Len(t) = n, from + n <= Len(text) + 1,
         \A j \in 1..n : text[from - 1 + j] = t[j]
  PROVE  SubSeq(text, from, from + n - 1) = t
<1> DEFINE u == SubSeq(text, from, from + n - 1)
           l == Len(text)
<1>1. l \in Nat
  BY LenProperties
<1>2. u \in Seq(S) /\ Len(u) = n /\ \A j \in 1..n : u[j] = text[from - 1 + j]
  <2> DEFINE m == from + n - 1
  <2>1. \A i \in from..m : text[i] \in S
    <3>1. \A i \in from..m : i \in 1..l
      <4>1. from + n <= l + 1
        OBVIOUS
      <4> HIDE DEF l
      <4> QED
        BY <1>1, <4>1
    <3> QED
      BY <3>1, ElementOfSeq
  <2>2. m \in Int /\ from \in Int /\ m - from + 1 = n /\ (IF from <= m THEN m - from + 1 ELSE 0) = n
    OBVIOUS
  <2>3. \A j \in 1..n : from + j - 1 = from - 1 + j
    OBVIOUS
  <2> HIDE DEF m
  <2>4. /\ SubSeq(text, from, m) \in Seq(S)
        /\ Len(SubSeq(text, from, m)) = IF from <= m THEN m - from + 1 ELSE 0
        /\ \A i \in 1..(m - from + 1) : SubSeq(text, from, m)[i] = text[from + i - 1]
    BY <2>1, <2>2, SubSeqProperties
  <2>5. u = SubSeq(text, from, m)
    BY DEF m
  <2> HIDE DEF u
  <2> QED
    BY <2>2, <2>3, <2>4, <2>5
<1> HIDE DEF u
<1> QED
  BY <1>2, SeqEqual

(* A field, cut out of the request.                                        *)
LEMMA FieldCut ==
  ASSUME Asked, NEW at, NEW whole, Laid(at, whole), NEW k \in 1..Len(Fields(op))
  PROVE  SubSeq(whole, at[k] + 2, at[k] + 2 + Len(Texts[k]) - 1) = Texts[k]
<1> DEFINE n == Len(Fields(op))
           t == Texts[k]
           l == Len(t)
           a == at[k]
           z == at[n + 1]
           lw == Len(whole)
<1>1. t \in Seq(Plain) /\ l \in Nat \ {0} /\ n \in Nat
  BY TextsAre
<1>2. /\ at \in [1..(n + 1) -> Nat] /\ whole \in Seq(Char)
      /\ at[k + 1] = a + 1 + l /\ at[k + 1] <= z
      /\ lw = z + IF op = "OPA" THEN 2 ELSE 1
      /\ \A j \in 1..l : whole[a + 1 + j] = t[j]
  BY DEF Laid
<1>3. a \in Nat /\ z \in Nat
  <2>1. k \in 1..(n + 1) /\ n + 1 \in 1..(n + 1)
    BY <1>1
  <2> HIDE DEF n
  <2> QED
    BY <1>2, <2>1
<1>4. t \in Seq(Char)
  <2>1. t \in [1..l -> Char]
    BY <1>1, LenProperties, ElementOfSeq DEF Char
  <2> HIDE DEF t
  <2> QED
    BY <1>1, <2>1, FunctionIsSeq
<1> HIDE DEF n, a, z, lw
<1>5. a + 2 + l <= lw + 1 /\ a + 2 \in Nat \ {0}
  <2> HIDE DEF l
  <2> QED
    BY <1>1, <1>2, <1>3
<1>6. \A j \in 1..l : a + 2 - 1 + j = a + 1 + j
  BY <1>3
<1>7. \A j \in 1..l : whole[a + 2 - 1 + j] = t[j]
  BY <1>2, <1>6
<1> HIDE DEF t
<1>8. PICK from \in Nat \ {0} : from = a + 2
  BY <1>5
<1>9. from + l <= lw + 1 /\ \A j \in 1..l : whole[from - 1 + j] = t[j]
  <2> HIDE DEF l
  <2>1. from + l <= lw + 1
    BY <1>5, <1>8
  <2>2. \A j \in 1..l : from - 1 + j = a + 2 - 1 + j
    BY <1>3, <1>8
  <2> QED
    BY <1>7, <2>1, <2>2
<1>10. SubSeq(whole, from, from + l - 1) = t
  BY <1>1, <1>2, <1>4, <1>9, CutOut DEF lw
<1> QED
  BY <1>8, <1>10 DEF a, t

(* The request is sent as a whole when there is room.                      *)
LEMMA WholeFits ==
  ASSUME NEW S, NEW whole \in Seq(S), NEW room \in Nat, Len(whole) <= room
  PROVE  Fit(whole, room) = whole
<1>1. Len(whole) \in Nat
  BY LenProperties
<1>2. Len(Fit(whole, room)) = Len(whole)
  <2> DEFINE l == Len(whole)
             f == Len(Fit(whole, room))
  <2>1. f = IF room <= l THEN room ELSE l
    BY FitLaw
  <2>2. l \in Nat /\ l <= room
    BY <1>1
  <2> HIDE DEF l, f
  <2>3. f = l
    BY <2>1, <2>2
  <2> QED
    BY <2>3 DEF l, f
<1> QED
  BY <1>2, FitLaw, SeqEqual

(* A datagram is acted on only as it was meant, and it is if it may be.    *)
LEMMA LoginDatagram ==
  ASSUME Asked, op \in {"LIN", "LMA", "LST"}, msg = Format
  PROVE  Understood /\ Parsed = Texts /\ ValidFields(Texts)
<1>1. PICK at, whole : Laid(at, whole) /\ Format = Fit(whole, Room(op))
  BY RequestLaid
<1> DEFINE W == WordSize
<1>2. W \in Nat \ {0} /\ MaxTyped \in Nat
  BY MessagesAssumption
<1>3. msg = whole
  <2>1. Room(op) \in Nat
    BY <1>2 DEF Room
  <2> QED
    <3>1. whole \in Seq(Char)
      BY <1>1 DEF Laid
    <3>2. Len(whole) <= Room(op)
      BY <1>1, RoomForAll
    <3> QED
      BY <1>1, <2>1, <3>1, <3>2, WholeFits
<1>4. /\ whole \in Seq(Char) /\ at[1] = 1
      /\ \A i \in 1..Len(Fields(op)) :
           at[i + 1] = at[i] + 1 + Len(Texts[i]) /\ whole[at[i] + 1] = " "
      /\ Len(whole) = at[Len(Fields(op)) + 1] + 1
      /\ whole[at[Len(Fields(op)) + 1] + 1] = "\n"
  BY <1>1 DEF Laid
<1>5. /\ Texts \in Seq(Seq(Plain)) /\ Len(Texts) = Len(Fields(op))
      /\ \A i \in 1..Len(Fields(op)) : Texts[i] = Text(Fields(op)[i])
  BY TextsAre
<1>6. CASE op = "LIN"
  <2>1. Len(Fields(op)) = 2 /\ Fields(op)[1] = "uid" /\ Fields(op)[2] = "pw"
    BY <1>6, FieldsAre
  <2>2. Texts[1] = Text("uid") /\ Texts[2] = Text("pw")
    BY <1>5, <2>1
  <2>3. /\ ValidField("uid", Texts[1]) /\ Len(Texts[1]) = W
        /\ ValidField("pw", Texts[2]) /\ Len(Texts[2]) = W
    BY <1>6, <2>2, SessionText
  <2>4. at[2] = W + 2 /\ at[3] = 2 * W + 3 /\ Len(whole) = 2 * W + 4
    <3>1. \A i \in 1..2 : at[i + 1] = at[i] + 1 + Len(Texts[i])
      BY <1>4, <2>1
    <3>2. at[1 + 1] = at[1] + 1 + W /\ at[2 + 1] = at[2] + 1 + W
      BY <2>3, <3>1
    <3>3. Len(whole) = at[2 + 1] + 1
      BY <1>4, <2>1
    <3> DEFINE lw == Len(whole)
    <3>4. lw = at[2 + 1] + 1 /\ at[1] = 1
      BY <1>4, <3>3
    <3> HIDE DEF lw, W
    <3>5. at[2] = W + 2 /\ at[3] = 2 * W + 3 /\ lw = 2 * W + 4
      BY <1>2, <3>2, <3>4
    <3> QED
      BY <3>5 DEF lw
  <2>5. SubSeq(whole, 3, 3 + W - 1) = Texts[1]
    <3>1. SubSeq(whole, at[1] + 2, at[1] + 2 + W - 1) = Texts[1]
      BY <1>1, <2>1, <2>3, FieldCut
    <3>2. at[1] = 1
      BY <1>4
    <3> HIDE DEF W
    <3>3. at[1] + 2 = 3
      BY <3>2
    <3> QED
      BY <3>1, <3>3
  <2>6. SubSeq(whole, 4 + W, 4 + W + W - 1) = Texts[2]
    <3>1. SubSeq(whole, at[2] + 2, at[2] + 2 + W - 1) = Texts[2]
      BY <1>1, <2>1, <2>3, FieldCut
    <3>2. at[2] + 2 = 4 + W
      BY <1>2, <2>4
    <3> QED
      BY <3>1, <3>2
  <2>7. whole[3 + W] = " " /\ whole[4 + 2 * W] = "\n"
    <3>1. \A i \in 1..2 : whole[at[i] + 1] = " "
      BY <1>4, <2>1
    <3>2. whole[at[2] + 1] = " "
      <4>1. 2 \in 1..2
        OBVIOUS
      <4> QED
        BY <3>1, <4>1, Zenon
    <3>3. whole[at[2 + 1] + 1] = "\n"
      BY <1>4, <2>1
    <3>4. at[2] = W + 2 /\ at[2 + 1] = 2 * W + 3
      BY <2>4
    <3> HIDE DEF W
    <3>5. at[2] + 1 = 3 + W /\ at[2 + 1] + 1 = 4 + 2 * W
      BY <1>2, <3>4
    <3> QED
      BY <3>2, <3>3, <3>5
  <2>8. Parsed = <<Texts[1], Texts[2]>>
    BY <1>3, <1>6, <2>5, <2>6 DEF Parsed, Slice
  <2>9. Texts = <<Texts[1], Texts[2]>>
    <3> DEFINE t == Texts
    <3>1. t \in Seq(Seq(Plain)) /\ Len(t) = 2
      BY <1>5, <2>1
    <3> HIDE DEF t
    <3>2. t = <<t[1], t[2]>>
      BY <3>1
    <3> QED
      BY <3>2 DEF t
  <2>10. ValidFields(Texts)
    <3>1. \A i \in 1..2 : i = 1 \/ i = 2
      OBVIOUS
    <3> QED
      BY <1>5, <2>1, <2>3, <3>1 DEF ValidFields
  <2>11. Understood
    <3>1. At(3 + W, " ") /\ At(4 + 2 * W, "\n")
      <4>1. 3 + W <= 2 * W + 4 /\ 4 + 2 * W <= 2 * W + 4
        BY <1>2
      <4> QED
        BY <1>3, <2>4, <2>7, <4>1 DEF At
    <3>2. Parsed = Texts
      BY <2>8, <2>9
    <3> QED
      BY <1>6, <2>10, <3>1, <3>2 DEF Understood
  <2> QED
    BY <2>8, <2>9, <2>10, <2>11
<1>7. CASE op = "LMA"
  <2>1. Len(Fields(op)) = 1 /\ Fields(op)[1] = "uid" /\ "uid" \notin TypedWords(op)
    BY <1>7, FieldsAre, FieldSets
  <2>2. Texts[1] = Text("uid")
    BY <1>5, <2>1
  <2>3. ValidField("uid", Texts[1]) /\ Len(Texts[1]) = W
    BY <2>1, <2>2, SessionText
  <2>4. at[2] = W + 2 /\ Len(whole) = W + 3
    <3>1. \A i \in 1..1 : at[i + 1] = at[i] + 1 + Len(Texts[i])
      BY <1>4, <2>1
    <3>2. at[1 + 1] = at[1] + 1 + W
      BY <2>3, <3>1
    <3>3. Len(whole) = at[1 + 1] + 1
      BY <1>4, <2>1
    <3> DEFINE lw == Len(whole)
    <3>4. lw = at[1 + 1] + 1 /\ at[1] = 1
      BY <1>4, <3>3
    <3> HIDE DEF lw, W
    <3>5. at[2] = W + 2 /\ lw = W + 3
      BY <1>2, <3>2, <3>4
    <3> QED
      BY <3>5 DEF lw
  <2>5. SubSeq(whole, 3, 3 + W - 1) = Texts[1]
    <3>1. SubSeq(whole, at[1] + 2, at[1] + 2 + W - 1) = Texts[1]
      BY <1>1, <2>1, <2>3, FieldCut
    <3>2. at[1] = 1
      BY <1>4
    <3> HIDE DEF W
    <3>3. at[1] + 2 = 3
      BY <3>2
    <3> QED
      BY <3>1, <3>3
  <2>6. whole[3 + W] = "\n"
    <3>1. whole[at[1 + 1] + 1] = "\n"
      BY <1>4, <2>1
    <3>2. at[1 + 1] = W + 2
      BY <2>4
    <3> HIDE DEF W
    <3>3. at[1 + 1] + 1 = 3 + W
      BY <1>2, <3>2
    <3> QED
      BY <3>1, <3>3
  <2>7. Parsed = <<Texts[1]>>
    BY <1>3, <1>7, <2>5 DEF Parsed, Slice
  <2>8. Texts = <<Texts[1]>>
    <3> DEFINE t == Texts
    <3>1. t \in Seq(Seq(Plain)) /\ Len(t) = 1
      BY <1>5, <2>1
    <3> HIDE DEF t
    <3>2. t = <<t[1]>>
      BY <3>1
    <3> QED
      BY <3>2 DEF t
  <2>9. ValidFields(Texts)
    <3>1. \A i \in 1..1 : i = 1
      OBVIOUS
    <3> QED
      BY <1>5, <2>1, <2>3, <3>1 DEF ValidFields
  <2>10. Understood
    <3>1. At(3 + W, "\n")
      <4>1. 3 + W <= W + 3
        BY <1>2
      <4> QED
        BY <1>3, <2>4, <2>6, <4>1 DEF At
    <3>2. Parsed = Texts
      BY <2>7, <2>8
    <3> QED
      BY <1>7, <2>9, <3>1, <3>2 DEF Understood
  <2> QED
    BY <2>7, <2>8, <2>9, <2>10
<1>8. CASE op = "LST"
  <2>1. Len(Fields(op)) = 0
    BY <1>8, FieldsAre
  <2>2. Texts = <<>>
    BY <1>5, <2>1, EmptySeq
  <2>3. ValidFields(Texts)
    BY <1>5, <2>1 DEF ValidFields
  <2>4. Len(whole) = 2 /\ whole[2] = "\n"
    <3>1. at[0 + 1] = 1 /\ Len(whole) = at[0 + 1] + 1 /\ whole[at[0 + 1] + 1] = "\n"
      BY <1>4, <2>1
    <3> QED
      BY <3>1
  <2>5. Understood
    BY <1>3, <1>8, <2>4 DEF Understood, At
  <2> QED
    BY <1>8, <2>2, <2>3, <2>5 DEF Parsed
<1> QED
  BY <1>6, <1>7, <1>8
(* A search is for the auction that was meant, or is not understood.       *)
LEMMA SearchDatagram ==
  ASSUME Asked, op = "SRC", msg = Format
  PROVE  /\ Understood => Parsed = Texts /\ ValidFields(Texts)
         /\ InLimits => Understood
<1> DEFINE A == AidSize
           t == Texts[1]
           l == Len(t)
           v == num["aid"]
<1>1. A \in Nat \ {0} /\ Room(op) = A + 4 /\ Room(op) \in Nat
  <2>1. A \in Nat \ {0}
    BY MessagesAssumption
  <2>2. Room("SRC") = A + 4
    BY DEF Room
  <2> HIDE DEF A
  <2> QED
    BY <2>1, <2>2
<1>2. PICK at, whole : Laid(at, whole) /\ Format = Fit(whole, Room(op))
  BY RequestLaid
<1>3. Len(Fields(op)) = 1 /\ Fields(op)[1] = "aid" /\ "aid" \in Numbers(op)
  BY FieldsAre, FieldSets
<1>4. /\ Texts \in Seq(Seq(Plain)) /\ Len(Texts) = 1
      /\ t = Text("aid") /\ t \in Seq(Plain) /\ l \in Nat \ {0}
  <2>1. 1 \in 1..1
    OBVIOUS
  <2> QED
    BY <1>3, <2>1, TextsAre
<1>5. Texts = <<t>>
  <2> DEFINE u == Texts
  <2>1. u \in Seq(Seq(Plain)) /\ Len(u) = 1
    BY <1>4
  <2> HIDE DEF u
  <2>2. u = <<u[1]>>
    BY <2>1
  <2> QED
    BY <2>2 DEF u
<1>6. /\ whole \in Seq(Char) /\ at[1] = 1
      /\ Len(whole) = l + 3 /\ whole[l + 3] = "\n"
  <2>1. \A i \in 1..1 : at[i + 1] = at[i] + 1 + Len(Texts[i])
    BY <1>2, <1>3 DEF Laid
  <2>2. at[1 + 1] = at[1] + 1 + l
    BY <2>1
  <2>3. /\ whole \in Seq(Char) /\ at[1] = 1 /\ Len(whole) = at[1 + 1] + 1
        /\ whole[at[1 + 1] + 1] = "\n"
    BY <1>2, <1>3 DEF Laid
  <2> DEFINE lw == Len(whole)
  <2>4. lw = at[1 + 1] + 1
    BY <2>3
  <2> HIDE DEF lw, l
  <2>5. lw = l + 3 /\ at[1 + 1] + 1 = l + 3
    BY <1>4, <2>2, <2>3, <2>4
  <2> QED
    BY <2>3, <2>5 DEF lw
<1>7. SubSeq(whole, 3, 3 + l - 1) = t
  <2>1. SubSeq(whole, at[1] + 2, at[1] + 2 + l - 1) = t
    BY <1>2, <1>3, FieldCut
  <2> HIDE DEF l
  <2>2. at[1] + 2 = 3
    BY <1>6
  <2> QED
    BY <2>1, <2>2
<1>8. l <= A => msg = whole
  <2>1. ASSUME l <= A PROVE Len(whole) <= Room(op)
    <3> DEFINE lw == Len(whole)
    <3>1. lw = l + 3
      BY <1>6
    <3> HIDE DEF lw, A, l
    <3>2. lw <= Room(op)
      BY <1>1, <1>4, <2>1, <3>1
    <3> QED
      BY <3>2 DEF lw
  <2> QED
    BY <1>1, <1>2, <1>6, <2>1, WholeFits
<1>9. msg = whole => Slice(3, Len(msg) - 3) = t
  <2>1. ASSUME msg = whole PROVE Slice(3, Len(msg) - 3) = t
    <3> DEFINE lw == Len(whole)
    <3>1. lw - 3 = l
      <4>1. lw = l + 3
        BY <1>6
      <4> HIDE DEF lw, l
      <4> QED
        BY <1>4, <4>1
    <3> HIDE DEF l
    <3>2. Slice(3, lw - 3) = SubSeq(whole, 3, 3 + (lw - 3) - 1)
      BY <2>1 DEF Slice
    <3> HIDE DEF lw
    <3>3. Slice(3, lw - 3) = t
      BY <1>7, <3>1, <3>2
    <3> QED
      BY <2>1, <3>3 DEF lw
  <2> QED
    BY <2>1
<1>10. Text("aid") = Decimal(v, A)
  BY <1>3, NumberText DEF Width
<1>11. ASSUME Understood PROVE Parsed = Texts /\ ValidFields(Texts)
  <2>1. /\ Len(msg) \in 4..(A + 3)
        /\ Valid(Slice(3, Len(msg) - 3), A, Digit)
    BY <1>11 DEF Understood
  <2>2. Len(msg) = IF Room(op) <= Len(whole) THEN Room(op) ELSE Len(whole)
    BY <1>1, <1>2, <1>6, FitLaw
  <2>3. l <= A
    <3> DEFINE lw == Len(whole)
               lm == Len(msg)
    <3>1. lw = l + 3 /\ lm \in 4..(A + 3) /\ lm = IF Room(op) <= lw THEN Room(op) ELSE lw
      BY <1>6, <2>1, <2>2
    <3> HIDE DEF lw, lm, l, A
    <3> QED
      BY <1>1, <1>4, <3>1
  <2>4. Valid(t, A, Digit)
    BY <1>8, <1>9, <2>1, <2>3
  <2>5. v \in Nat /\ Value(t) = v /\ t \in Seq(Digit)
    BY <1>3, <1>4, <2>4, ValidNumber
  <2>6. Parsed = <<t>>
    <3>1. Parsed = <<Decimal(Value(Slice(3, Len(msg) - 3)), A)>>
      BY DEF Parsed
    <3>2. Slice(3, Len(msg) - 3) = t
      BY <1>8, <1>9, <2>3
    <3> QED
      BY <1>4, <1>10, <2>5, <3>1, <3>2
  <2>7. v < Power[A]
    <3>1. v < Power[l]
      BY <1>3, <1>4, <2>5, NumberText
    <3>2. Power[l] <= Power[A]
      BY <1>1, <1>4, <2>3, PowerGrows
    <3>3. Power[l] \in Nat /\ Power[A] \in Nat
      BY <1>1, <1>4, PowerLaw
    <3> HIDE DEF v, l, A
    <3> QED
      BY <2>5, <3>1, <3>2, <3>3
  <2>8. ValidField("aid", t)
    <3>1. \A i \in 1..l : t[i] \in Digit
      BY <2>5, ElementOfSeq
    <3> HIDE DEF t
    <3>2. l <= l
      BY <1>4
    <3>3. Valid(t, l, Digit)
      BY <3>1, <3>2 DEF Valid
    <3> QED
      BY <2>5, <2>7, <3>3 DEF ValidField
  <2>9. ValidFields(Texts)
    <3>1. \A i \in 1..1 : i = 1
      OBVIOUS
    <3> QED
      BY <1>3, <1>4, <2>8, <3>1 DEF ValidFields
  <2> QED
    BY <1>5, <2>6, <2>9
<1>12. ASSUME InLimits PROVE Understood
  <2>1. ValidField("aid", t) /\ l <= A
    <3>1. 1 \in 1..Len(Fields(op)) /\ Size("aid") = A
      BY <1>3 DEF Size
    <3> QED
      BY <1>3, <1>4, <1>12, <3>1, LimitsValid
  <2>2. Valid(t, A, Digit)
    <3>1. Valid(t, l, Digit)
      BY <2>1 DEF ValidField
    <3> QED
      BY <2>1, <3>1 DEF Valid
  <2>3. msg = whole /\ Slice(3, Len(msg) - 3) = t
    BY <1>8, <1>9, <2>1
  <2>4. Len(msg) \in 4..(A + 3)
    <3> DEFINE lw == Len(whole)
    <3>1. lw = l + 3
      BY <1>6
    <3> HIDE DEF lw, l, A
    <3>2. lw \in 4..(A + 3)
      BY <1>1, <1>4, <2>1, <3>1
    <3> QED
      BY <2>3, <3>2 DEF lw
  <2>5. At(Len(msg), "\n")
    <3> DEFINE lm == Len(msg)
    <3>1. lm = l + 3 /\ msg[l + 3] = "\n"
      BY <1>6, <2>3
    <3> HIDE DEF l
    <3>2. l + 3 <= l + 3
      BY <1>4
    <3> QED
      BY <3>1, <3>2 DEF At
  <2> QED
    BY <2>2, <2>3, <2>4, <2>5 DEF Understood
<1> QED
  BY <1>11, <1>12
(* How long fields may be.                                                 *)
LEMMA FieldSizes ==
  ASSUME Asked, NEW i \in 1..Len(Fields(op))
  PROVE  Size(Fields(op)[i]) \in Nat \ {0}
<1> DEFINE f == Fields(op)[i]
<1>1. f \in Numbers(op) \cup TypedWords(op) \cup {"uid", "pw"}
  BY FieldKinds DEF Asked
<1> HIDE DEF f
<1>2. f \in {"uid", "pw", "name", "fname"} \/ f \in Numbers(op)
  BY <1>1 DEF TypedWords
<1>3. f \in {"uid", "pw", "name", "fname"} => Size(f) = WordSize
  BY DEF Size
<1>4. f \in Numbers(op) => Size(f) \in Nat \ {0}
  BY NumberSizes DEF Asked
<1>5. Size(f) \in Nat \ {0}
  BY <1>2, <1>3, <1>4, MessagesAssumption
<1> QED
  BY <1>5 DEF f
-------------------------------------------------------------------------------
(* Steps of read_field.                                                    *)

(* A character of a field is neither of those that end one.                *)
LEMMA PlainIsPlain == " " \notin Plain /\ "\n" \notin Plain
BY Digits DEF Plain

(* One character more.                                                     *)
LEMMA CharTaken ==
  ASSUME Asked, NEW at, NEW g, NEW b, NEW p \in Nat, NEW c,
         ReadingAt(at, g, b, p),
         Len(b) < Len(Texts[Len(g) + 1]), Len(b) < Size(Fields(op)[Len(g) + 1]),
         Size(Fields(op)[Len(g) + 1]) \in Nat, at[Len(g) + 1] \in Nat,
         c = Texts[Len(g) + 1][Len(b) + 1]
  PROVE  ReadingAt(at, g, Append(b, c), p + 1)
<1> DEFINE k == Len(g) + 1
           t == Texts[k]
           u == Append(b, c)
           lb == Len(b)
           lt == Len(t)
           s == Size(Fields(op)[k])
<1>1. /\ g \in Seq(Seq(Plain)) /\ Len(g) < Len(Fields(op)) /\ b \in Seq(Plain)
      /\ p = at[k] + 1 + lb
      /\ \A i \in 1..Len(g) : g[i] = Texts[i] /\ Len(Texts[i]) <= Size(Fields(op)[i])
      /\ \A j \in 1..lb : b[j] = t[j]
  BY DEF ReadingAt
<1>2. k \in 1..Len(Fields(op)) /\ lb \in Nat
  BY <1>1, TextsAre, LenProperties
<1>3. t \in Seq(Plain) /\ lt \in Nat
  BY <1>2, TextsAre
<1>4. c \in Plain
  <2>1. lb + 1 \in 1..lt
    <3>1. lb < lt
      OBVIOUS
    <3> HIDE DEF lb, lt
    <3> QED
      BY <1>2, <1>3, <3>1
  <2> QED
    BY <1>3, <2>1, ElementOfSeq
<1>5. u \in Seq(Plain) /\ Len(u) = lb + 1 /\ (\A j \in 1..lb : u[j] = b[j]) /\ u[lb + 1] = c
  BY <1>1, <1>4, AppendProperties
<1>6. Len(u) <= lt /\ Len(u) <= s /\ p + 1 = at[k] + 1 + Len(u)
  <2>1. lb < lt /\ lb < s /\ s \in Nat /\ at[k] \in Nat
    OBVIOUS
  <2> DEFINE lu == Len(u)
             a == at[k]
  <2>2. lu = lb + 1 /\ p = a + 1 + lb /\ a \in Nat
    BY <1>1, <1>5
  <2> HIDE DEF lu, lb, lt, s, a
  <2>3. lu <= lt /\ lu <= s /\ p + 1 = a + 1 + lu
    BY <1>2, <1>3, <2>1, <2>2
  <2> QED
    BY <2>3 DEF lu, a
<1>7. \A j \in 1..Len(u) : u[j] = t[j]
  <2>1. u[lb + 1] = t[lb + 1]
    BY <1>5
  <2> HIDE DEF u, lb, t
  <2>2. \A j \in 1..(lb + 1) : j \in 1..lb \/ j = lb + 1
    BY <1>2
  <2> QED
    BY <1>1, <1>5, <2>1, <2>2
<1> HIDE DEF u
<1>8. ReadingAt(at, g, u, p + 1)
  BY <1>1, <1>5, <1>6, <1>7 DEF ReadingAt
<1> QED
  BY <1>8 DEF u

(* One field more, and it was not the last.                                *)
LEMMA FieldTaken ==
  ASSUME Asked, NEW at, NEW whole, Laid(at, whole),
         NEW g, NEW b, NEW p \in Nat, ReadingAt(at, g, b, p),
         b = Texts[Len(g) + 1], Len(g) + 1 # Len(Fields(op))
  PROVE  ReadingAt(at, Append(g, b), <<>>, p + 1)
<1> DEFINE k == Len(g) + 1
           n == Len(Fields(op))
           e == <<>>
           h == Append(g, b)
<1>1. /\ g \in Seq(Seq(Plain)) /\ Len(g) < n /\ b \in Seq(Plain)
      /\ p = at[k] + 1 + Len(b) /\ Len(b) <= Size(Fields(op)[k])
      /\ \A i \in 1..Len(g) : g[i] = Texts[i] /\ Len(Texts[i]) <= Size(Fields(op)[i])
  BY DEF ReadingAt
<1>2. Len(g) \in Nat /\ n \in Nat /\ k \in 1..n /\ k + 1 \in 1..n
  <2>1. Len(g) \in Nat /\ n \in Nat
    BY <1>1, TextsAre, LenProperties
  <2>2. Len(g) + 1 # n
    OBVIOUS
  <2> HIDE DEF n
  <2> QED
    BY <1>1, <2>1, <2>2
<1>3. /\ h \in Seq(Seq(Plain)) /\ Len(h) = k
      /\ \A i \in 1..k : h[i] = Texts[i]
  BY <1>1, <1>2, OneMoreField
<1>4. \A i \in 1..k : Len(Texts[i]) <= Size(Fields(op)[i])
  <2>1. Len(Texts[k]) <= Size(Fields(op)[k])
    BY <1>1
  <2>2. \A i \in 1..k : i \in 1..Len(g) \/ i = k
    BY <1>2
  <2> QED
    BY <1>1, <2>1, <2>2
<1>5. e \in Seq(Plain) /\ Len(e) = 0 /\ 1..Len(e) = {}
  OBVIOUS
<1>6. Len(Texts[k + 1]) \in Nat /\ Size(Fields(op)[k + 1]) \in Nat
  BY <1>2, TextsAre, FieldSizes
<1>7. p + 1 = at[k + 1] + 1 + Len(e)
  <2>1. at[k + 1] = at[k] + 1 + Len(b)
    BY <1>2 DEF Laid
  <2> DEFINE lb == Len(b)
  <2>2. p = at[k] + 1 + lb /\ at[k + 1] = at[k] + 1 + lb
    BY <1>1, <2>1
  <2> HIDE DEF lb, k, e
  <2> QED
    BY <1>5, <2>2
<1>8. k < n
  <2> HIDE DEF n, k
  <2> QED
    BY <1>2
<1> HIDE DEF h, e, k
<1>9. ReadingAt(at, h, e, p + 1)
  BY <1>3, <1>4, <1>5, <1>6, <1>7, <1>8 DEF ReadingAt
<1> QED
  BY <1>9 DEF h, e
-------------------------------------------------------------------------------
(* The invariant.                                                          *)

(* A request that is being read is what the client has formatted; of one   *)
(* that is read a character at a time, what is read is what was meant.     *)
ReadingInv ==
  server = "read" =>
    /\ msg = Format
    /\ op \in Tcp => \E at, whole : /\ Laid(at, whole) /\ Format = Fit(whole, Room(op))
                                    /\ ReadingAt(at, got, buf, pos)

PhaseInv ==
  /\ server \in {"idle", "read", "acts", "refuses", "fails"} /\ listing \in BOOLEAN
  /\ op = "none" <=> server = "idle"
  /\ server # "idle" => Asked
  /\ server = "idle" => got = <<>> /\ buf = <<>>
  /\ listing => server = "acts"

MessagesInv == PhaseInv /\ ReadingInv /\ ActsAsAsked /\ ValidIsServed /\ NoWaitForTyped

(* What was asked does not change until the answer.                        *)
LEMMA SameAsk ==
  ASSUME UNCHANGED ask
  PROVE  /\ op' = op /\ num' = num /\ word' = word
         /\ Asked' = Asked /\ Texts' = Texts /\ Format' = Format /\ InLimits' = InLimits
         /\ \A at, whole : Laid(at, whole)' = Laid(at, whole)
<1>1. op' = op /\ num' = num /\ word' = word
  BY DEF ask
<1>2. Asked' = Asked
  BY <1>1 DEF Asked, ClientChecks
<1>3. \A f : Text(f)' = Text(f)
  BY <1>1 DEF Text
<1>4. Texts' = Texts
  BY <1>1, <1>3 DEF Texts
<1>5. Format' = Format
  BY <1>1, <1>3 DEF Format
<1>6. InLimits' = InLimits
  BY <1>1 DEF InLimits
<1>7. \A at, whole : Laid(at, whole)' = Laid(at, whole)
  BY <1>1, <1>4 DEF Laid
<1> QED
  BY <1>1, <1>2, <1>4, <1>5, <1>6, <1>7

(* The server acts on what it has read.                                    *)
LEMMA GotIsActedOn ==
  ASSUME UNCHANGED ask, ActsOn(got')
  PROVE  ActsAsAsked'
<1>1. op' = op /\ num' = num /\ word' = word
  BY DEF ask
<1>2. \A f : Text(f)' = Text(f)
  BY <1>1 DEF Text
<1> QED
  BY <1>1, <1>2 DEF ActsOn, ActsAsAsked

(* What is being read after a step of read_field.                          *)
LEMMA StillReading ==
  ASSUME UNCHANGED <<ask, msg>>, msg = Format, NEW at, NEW whole,
         Laid(at, whole), Format = Fit(whole, Room(op)),
         ReadingAt(at, got', buf', pos')
  PROVE  ReadingInv'
<1>1. op' = op /\ Texts' = Texts /\ Format' = Format /\ msg' = msg /\ Laid(at, whole)'
  BY SameAsk
<1>2. (Format = Fit(whole, Room(op)))'
  BY <1>1
<1>3. ReadingAt(at, got, buf, pos)'
  BY <1>1 DEF ReadingAt
<1> QED
  BY <1>1, <1>2, <1>3 DEF ReadingInv
(* The client asks.                                                        *)
LEMMA AskInv ==
  ASSUME MessagesInv, Ask
  PROVE  MessagesInv'
<1>1. /\ op = "none" /\ op' \in Ops /\ msg' = Format' /\ server' = "read"
      /\ (op' \in Tcp => pos' = 2)
      /\ got' = got /\ buf' = buf /\ listing' = listing
  BY DEF Ask
<1>2. server = "idle" /\ got = <<>> /\ buf = <<>> /\ listing = FALSE
  BY <1>1 DEF MessagesInv, PhaseInv
<1>3. Asked'
  BY DEF Ask, Asked
<1>4. "none" \notin Ops
  BY DEF Ops
<1>5. PhaseInv'
  BY <1>1, <1>2, <1>3, <1>4 DEF PhaseInv
<1>6. ReadyToRead'
  BY <1>3, NextRequestReady
<1>7. PICK at, whole :
        /\ Laid(at, whole)' /\ (Format = Fit(whole, Room(op)))'
        /\ (op \in Tcp => ReadingAt(at, <<>>, <<>>, 2))'
  BY <1>6 DEF ReadyToRead
<1>8. ASSUME op' \in Tcp PROVE ReadingAt(at, got, buf, pos)'
  <2>1. ReadingAt(at, <<>>, <<>>, 2)'
    BY <1>7, <1>8
  <2>2. got' = <<>> /\ buf' = <<>> /\ pos' = 2
    BY <1>1, <1>2, <1>8
  <2> QED
    BY <2>1, <2>2 DEF ReadingAt
<1>9. ReadingInv'
  BY <1>1, <1>7, <1>8 DEF ReadingInv
<1>10. ActsAsAsked' /\ ValidIsServed' /\ NoWaitForTyped'
  BY <1>1 DEF ActsAsAsked, ValidIsServed, NoWaitForTyped
<1> QED
  BY <1>5, <1>9, <1>10 DEF MessagesInv

(* The server reads a character.                                           *)
LEMMA ReadCharInv ==
  ASSUME MessagesInv, ReadChar
  PROVE  MessagesInv'
<1> DEFINE k == Len(got) + 1
           n == Len(Fields(op))
           t == Texts[k]
           c == msg[pos + 1]
<1>1. /\ server = "read" /\ op \in Tcp /\ pos' = pos + 1
      /\ UNCHANGED ask /\ UNCHANGED msg /\ UNCHANGED listing
  BY DEF ReadChar
<1>2. Asked /\ msg = Format /\ listing = FALSE
  BY <1>1 DEF MessagesInv, PhaseInv, ReadingInv
<1>3. PICK at, whole : /\ Laid(at, whole) /\ Format = Fit(whole, Room(op))
                       /\ ReadingAt(at, got, buf, pos)
  BY <1>1 DEF MessagesInv, ReadingInv
<1>4. /\ k \in 1..n /\ pos \in Nat /\ c = whole[pos + 1]
      /\ Len(buf) < Len(t) => c = t[Len(buf) + 1] /\ c \in Plain
      /\ Len(buf) >= Len(t) => buf = t /\ c = Ender(k)
  <2> DEFINE w == whole[pos + 1]
             lb == Len(buf)
             lt == Len(t)
  <2>1. k \in 1..n /\ pos \in Nat /\ Fit(whole, Room(op))[pos + 1] = w
    BY <1>1, <1>2, <1>3, NextChar
  <2>2. lb < lt => w = t[lb + 1] /\ w \in Plain
    BY <1>1, <1>2, <1>3, NextChar
  <2>3. lb >= lt => buf = t /\ w = Ender(k)
    BY <1>1, <1>2, <1>3, NextChar
  <2>4. c = w
    <3>1. msg = Fit(whole, Room(op))
      BY <1>2, <1>3
    <3> HIDE DEF w
    <3> QED
      BY <2>1, <3>1
  <2> HIDE DEF w, k, n, t, c, lb, lt
  <2>5. /\ lb < lt => c = t[lb + 1] /\ c \in Plain
        /\ lb >= lt => buf = t /\ c = Ender(k)
    BY <2>2, <2>3, <2>4
  <2>6. c = whole[pos + 1]
    BY <2>4 DEF w
  <2> QED
    BY <2>1, <2>5, <2>6 DEF lb, lt
<1>5. /\ got \in Seq(Seq(Plain)) /\ buf \in Seq(Plain) /\ Len(buf) \in Nat
      /\ \A i \in 1..Len(got) : got[i] = Texts[i]
  BY <1>3, LenProperties DEF ReadingAt
<1>6. t \in Seq(Plain) /\ Len(t) \in Nat \ {0} /\ Size(Fields(op)[k]) \in Nat
  BY <1>2, <1>4, TextsAre, FieldSizes
<1>7. at[k] \in Nat
  <2>1. at \in [1..(n + 1) -> Nat] /\ n \in Nat
    BY <1>2, <1>3, TextsAre DEF Laid
  <2>2. k \in 1..(n + 1)
    <3>1. k \in 1..n
      BY <1>4
    <3> HIDE DEF k, n
    <3> QED
      BY <2>1, <3>1
  <2> QED
    BY <2>1, <2>2
<1>8. Asked' /\ op' = op /\ InLimits' = InLimits
  BY <1>1, <1>2, SameAsk
<1>9. op # "none"
  BY <1>1 DEF Tcp
<1>10. ASSUME server' = "refuses", ~InLimits PROVE MessagesInv'
  BY <1>1, <1>2, <1>8, <1>9, <1>10
     DEF MessagesInv, PhaseInv, ReadingInv, ActsAsAsked, ValidIsServed, NoWaitForTyped
<1>11. ASSUME server' = "read", ReadingAt(at, got', buf', pos') PROVE MessagesInv'
  <2>1. ReadingInv'
    BY <1>1, <1>2, <1>3, <1>11, StillReading
  <2> QED
    BY <1>1, <1>2, <1>8, <1>9, <1>11, <2>1
       DEF MessagesInv, PhaseInv, ActsAsAsked, ValidIsServed, NoWaitForTyped
<1>12. ASSUME server' = "acts", ActsOn(got') PROVE MessagesInv'
  <2>1. ActsAsAsked'
    BY <1>1, <1>12, GotIsActedOn
  <2> QED
    BY <1>1, <1>2, <1>8, <1>9, <1>12, <2>1
       DEF MessagesInv, PhaseInv, ReadingInv, ValidIsServed, NoWaitForTyped
<1>13. CASE c \notin {" ", "\n"}
  <2>1. Take(c)
    BY <1>13 DEF ReadChar
  <2>2. Len(buf) < Len(t) /\ c = t[Len(buf) + 1]
    <3> DEFINE lb == Len(buf)
               lt == Len(t)
    <3>1. /\ lb \in Nat /\ lt \in Nat
          /\ lb < lt => c = t[lb + 1]
          /\ lb >= lt => c = Ender(k)
      BY <1>4, <1>5, <1>6
    <3>2. c # Ender(k)
      <4> HIDE DEF c, k
      <4> QED
        BY <1>13, Zenon DEF Ender
    <3> HIDE DEF lb, lt
    <3>3. lb < lt \/ lb >= lt
      BY <3>1
    <3> HIDE DEF c, t, k
    <3> QED
      BY <3>1, <3>2, <3>3, Zenon DEF lb, lt
  <2>3. CASE Len(buf) < Size(Fields(op)[k])
    <3>1. buf' = Append(buf, c) /\ got' = got /\ server' = "read"
      BY <1>1, <2>1, <2>3 DEF Take, Field
    <3>2. ReadingAt(at, got, Append(buf, c), pos + 1)
      BY <1>2, <1>3, <1>4, <1>6, <1>7, <2>2, <2>3, CharTaken
    <3> QED
      BY <1>1, <1>11, <3>1, <3>2
  <2>4. CASE ~(Len(buf) < Size(Fields(op)[k]))
    <3>1. server' = "refuses"
      BY <2>1, <2>4 DEF Take, Field, Decide
    <3>2. ASSUME InLimits PROVE FALSE
      <4>1. Len(Texts[k]) <= Size(Fields(op)[k])
        BY <1>2, <1>4, <3>2, LimitsValid, TextsAre
      <4> QED
        BY <1>5, <1>6, <2>2, <2>4, <4>1
    <3> QED
      BY <1>10, <3>1, <3>2
  <2> QED
    BY <2>3, <2>4
<1>14. CASE c \in {" ", "\n"}
  <2>1. ~(Len(buf) < Len(t))
    BY <1>4, <1>14, PlainIsPlain
  <2>2. buf = t /\ c = Ender(k)
    <3> DEFINE lb == Len(buf)
               lt == Len(t)
    <3>1. /\ lb \in Nat /\ lt \in Nat /\ ~(lb < lt)
          /\ lb >= lt => buf = t /\ c = Ender(k)
      BY <1>4, <1>5, <1>6, <2>1
    <3> HIDE DEF lb, lt, c, t, k, n
    <3> QED
      BY <3>1
  <2>3. buf # <<>>
    BY <1>6, <2>2, EmptySeq
  <2>4. IsLast <=> k = n
    BY DEF IsLast
  <2>5. EndOfField(c)
    <3> HIDE DEF c
    <3> QED
      BY <2>2, <2>4 DEF EndOfField, Ender
  <2>6. /\ got' = Append(got, buf) /\ buf' = <<>>
        /\ IF IsLast THEN Decide(ValidFields(got')) ELSE UNCHANGED server
    BY <1>14, <2>3, <2>5 DEF ReadChar
  <2>7. k = n => Append(got, buf) = Texts
    BY <1>2, <1>4, <1>5, <2>2, OneMoreField
  <2>8. CASE k = n /\ ValidFields(Texts)
    <3>1. server' = "acts" /\ got' = Texts
      BY <2>4, <2>6, <2>7, <2>8 DEF Decide
    <3>2. ActsOn(Texts)
      BY <1>2, <2>8, ActsLaw
    <3> QED
      BY <1>12, <3>1, <3>2
  <2>9. CASE k = n /\ ~ValidFields(Texts)
    <3>1. server' = "refuses"
      BY <2>4, <2>6, <2>7, <2>9 DEF Decide
    <3>2. ~InLimits
      BY <1>2, <2>9, LimitsValid, TextsAre DEF ValidFields
    <3> QED
      BY <1>10, <3>1, <3>2
  <2>10. CASE k # n
    <3>1. server' = "read" /\ got' = Append(got, buf) /\ buf' = <<>>
      BY <1>1, <2>4, <2>6, <2>10
    <3>2. ReadingAt(at, Append(got, buf), <<>>, pos + 1)
      BY <1>2, <1>3, <1>4, <2>2, <2>10, FieldTaken
    <3> QED
      BY <1>1, <1>11, <3>1, <3>2
  <2> QED
    BY <2>8, <2>9, <2>10
<1> QED
  BY <1>13, <1>14

(* Nothing comes that the server could read.                               *)
LEMMA ReadFailsInv ==
  ASSUME MessagesInv, ReadFails
  PROVE  MessagesInv'
<1>1. /\ server = "read" /\ op \in Tcp /\ server' = "fails" /\ pos' = pos
      /\ UNCHANGED ask /\ msg' = msg /\ listing' = listing
  BY DEF ReadFails, NothingComes
<1>2. Asked /\ msg = Format /\ listing = FALSE
  BY <1>1 DEF MessagesInv, PhaseInv, ReadingInv
<1>3. PICK at, whole : /\ Laid(at, whole) /\ Format = Fit(whole, Room(op))
                       /\ ReadingAt(at, got, buf, pos)
  BY <1>1 DEF MessagesInv, ReadingInv
<1>4. pos < Len(msg)
  BY <1>1, <1>2, <1>3, NextChar
<1>5. Asked' /\ op' = op
  BY <1>1, <1>2, SameAsk
<1>6. op # "none"
  BY <1>1 DEF Tcp
<1> QED
  BY <1>1, <1>2, <1>4, <1>5, <1>6
     DEF MessagesInv, PhaseInv, ReadingInv, ActsAsAsked, ValidIsServed, NoWaitForTyped

(* The server takes a datagram apart.                                      *)
LEMMA ReadDatagramInv ==
  ASSUME MessagesInv, ReadDatagram
  PROVE  MessagesInv'
<1>1. /\ server = "read" /\ op \notin Tcp /\ UNCHANGED ask /\ listing' = listing
      /\ server' = IF Understood THEN "acts" ELSE "refuses"
      /\ got' = IF Understood THEN Parsed ELSE <<>>
  BY DEF ReadDatagram, Decide
<1>2. Asked /\ msg = Format /\ listing = FALSE /\ op # "none"
  BY <1>1 DEF MessagesInv, PhaseInv, ReadingInv
<1>3. op \in {"LIN", "LMA", "LST", "SRC"}
  BY <1>1, <1>2 DEF Asked, Ops, Tcp
<1>4. /\ Understood => Parsed = Texts /\ ValidFields(Texts)
      /\ InLimits => Understood
  BY <1>2, <1>3, LoginDatagram, SearchDatagram
<1>5. Asked' /\ op' = op /\ InLimits' = InLimits
  BY <1>1, <1>2, SameAsk
<1>6. CASE Understood
  <2>1. ActsOn(got')
    BY <1>1, <1>2, <1>4, <1>6, ActsLaw
  <2>2. ActsAsAsked'
    BY <1>1, <2>1, GotIsActedOn
  <2> QED
    BY <1>1, <1>2, <1>5, <1>6, <2>2
       DEF MessagesInv, PhaseInv, ReadingInv, ValidIsServed, NoWaitForTyped
<1>7. CASE ~Understood
  BY <1>1, <1>2, <1>4, <1>5, <1>7
     DEF MessagesInv, PhaseInv, ReadingInv, ActsAsAsked, ValidIsServed, NoWaitForTyped
<1> QED
  BY <1>6, <1>7

(* Steps after which the server reads nothing and has read what it had.    *)
LEMMA AnswerInv ==
  ASSUME MessagesInv, Reply \/ ReplyList \/ ListTurn \/ UNCHANGED vars
  PROVE  MessagesInv'
<1>1. CASE Reply
  <2>1. "none" \notin Ops
    BY DEF Ops
  <2>2. /\ op' = "none" /\ server' = "idle" /\ buf' = <<>> /\ got' = <<>>
        /\ listing' = listing /\ ~listing
    BY <1>1 DEF Reply
  <2> QED
    BY <2>1, <2>2
       DEF MessagesInv, PhaseInv, ReadingInv, ActsAsAsked, ValidIsServed, NoWaitForTyped
<1>2. CASE ReplyList \/ ListTurn
  <2>1. /\ server = "acts" /\ UNCHANGED ask /\ server' = server /\ got' = got /\ buf' = buf
        /\ listing' \in BOOLEAN
    <3>1. CASE ReplyList
      BY <3>1 DEF ReplyList, ListWanted
    <3>2. CASE ListTurn
      <4>1. listing /\ listing' = ~AtNewline(UsedUp(pos))
        BY <3>2 DEF ListTurn
      <4>2. (~AtNewline(UsedUp(pos))) \in BOOLEAN
        BY Zenon DEF AtNewline
      <4> QED
        BY <3>2, <4>1, <4>2 DEF ListTurn, MessagesInv, PhaseInv
    <3> QED
      BY <1>2, <3>1, <3>2
  <2>2. Asked' = Asked /\ op' = op
    BY <2>1, SameAsk
  <2>3. ActsOn(got')
    BY <2>1 DEF MessagesInv, ActsAsAsked, ActsOn
  <2>4. ActsAsAsked'
    BY <2>1, <2>3, GotIsActedOn
  <2> QED
    BY <2>1, <2>2, <2>4
       DEF MessagesInv, PhaseInv, ReadingInv, ValidIsServed, NoWaitForTyped
<1>3. CASE UNCHANGED vars
  <2>1. /\ UNCHANGED ask /\ msg' = msg /\ server' = server /\ got' = got /\ buf' = buf
        /\ listing' = listing /\ pos' = pos
    BY <1>3 DEF vars
  <2>2. Asked' = Asked /\ op' = op /\ Format' = Format /\ InLimits' = InLimits
    BY <2>1, SameAsk
  <2>3. ReadingInv'
    <3>1. ASSUME server = "read", op \in Tcp PROVE ReadingInv'
      <4>1. PICK at, whole : /\ Laid(at, whole) /\ Format = Fit(whole, Room(op))
                             /\ ReadingAt(at, got, buf, pos)
        BY <3>1 DEF MessagesInv, ReadingInv
      <4>2. ReadingAt(at, got', buf', pos')
        BY <2>1, <4>1
      <4>3. msg = Format
        BY <3>1 DEF MessagesInv, ReadingInv
      <4> QED
        BY <2>1, <4>1, <4>2, <4>3, StillReading
    <3> QED
      BY <2>1, <2>2, <3>1 DEF MessagesInv, ReadingInv
  <2>4. ActsAsAsked'
    <3>1. ASSUME server = "acts" PROVE ActsAsAsked'
      <4>1. ActsOn(got')
        BY <2>1, <3>1 DEF MessagesInv, ActsAsAsked, ActsOn
      <4> QED
        BY <2>1, <4>1, GotIsActedOn
    <3> QED
      BY <2>1, <3>1 DEF ActsAsAsked
  <2> QED
    BY <2>1, <2>2, <2>3, <2>4 DEF MessagesInv, PhaseInv, ValidIsServed, NoWaitForTyped
<1> QED
  BY <1>1, <1>2, <1>3

(* The invariant holds throughout.                                         *)
THEOREM MessagesInvariant == Spec => []MessagesInv
<1>1. Init => MessagesInv
  <2> SUFFICES ASSUME Init PROVE MessagesInv
    OBVIOUS
  <2> QED
    BY DEF Init, MessagesInv, PhaseInv, ReadingInv, ActsAsAsked, ValidIsServed, NoWaitForTyped
<1>2. MessagesInv /\ [Next]_vars => MessagesInv'
  <2> SUFFICES ASSUME MessagesInv, [Next]_vars PROVE MessagesInv'
    OBVIOUS
  <2>1. CASE Ask
    BY <2>1, AskInv
  <2>2. CASE ReadChar
    BY <2>2, ReadCharInv
  <2>3. CASE ReadFails
    BY <2>3, ReadFailsInv
  <2>4. CASE ReadDatagram
    BY <2>4, ReadDatagramInv
  <2>5. CASE Reply \/ ReplyList \/ ListTurn \/ UNCHANGED vars
    BY <2>5, AnswerInv
  <2> QED
    BY <2>1, <2>2, <2>3, <2>4, <2>5 DEF Next
<1> QED
  BY <1>1, <1>2, PTL DEF Spec

(* The server acts on a request as the user meant it, or not at all,       *)
(* however many digits a number may have and wherever snprintf and the     *)
(* connection cut.                                                         *)
THEOREM ServerActsAsAsked == Spec => []ActsAsAsked
<1>1. MessagesInv => ActsAsAsked
  BY DEF MessagesInv
<1> QED
  BY <1>1, MessagesInvariant, PTL

(* A request within the limits of the protocol is not refused.             *)
THEOREM LimitsAreServed == Spec => []ValidIsServed
<1>1. MessagesInv => ValidIsServed
  BY DEF MessagesInv
<1> QED
  BY <1>1, MessagesInvariant, PTL

(* No request leaves the server waiting for characters that were never to  *)
(* come.                                                                   *)
THEOREM TypedIsNotWaitedFor == Spec => []NoWaitForTyped
<1>1. MessagesInv => NoWaitForTyped
  BY DEF MessagesInv
<1> QED
  BY <1>1, MessagesInvariant, PTL
-------------------------------------------------------------------------------
(* Listings.                                                               *)

Blank == " "
Newline == "\n"
ListChar == Digit \cup {Blank, Newline, "OK"}

(* How the list l is laid out in a text: after the first at[i] characters  *)
(* comes " ", its i-th AID, " " and its state.                             *)
Listed(text, l, at) ==
  /\ text \in Seq(ListChar)
  /\ at \in [1..(Len(l) + 1) -> Nat] /\ at[1] = 1
  /\ Len(text) = at[Len(l) + 1] + 1 /\ text[at[Len(l) + 1] + 1] = Newline
  /\ \A i \in 1..Len(l) :
       /\ at[i + 1] = at[i] + AidSize + 3 /\ at[i + 1] <= at[Len(l) + 1]
       /\ text[at[i] + 1] = Blank
       /\ \A j \in 1..AidSize : text[at[i] + 1 + j] = Decimal(l[i].aid, AidSize)[j]
       /\ text[at[i] + AidSize + 2] = Blank /\ text[at[i] + AidSize + 3] = l[i].state

(* What ends a token is in none.                                           *)
LEMMA NewlineLaw ==
  /\ Newline # Blank /\ Newline \notin Digit /\ Blank \notin Digit
  /\ "0" \in Digit /\ "1" \in Digit
BY Digits DEF Newline, Blank

(* As long as the AIDs have AidSize digits, both listings name directories *)
(* alike.                                                                  *)
LEMMA NameText ==
  ASSUME MaxAid < Power[AidSize], NEW a \in 1..MaxAid
  PROVE  /\ Name(a) = Decimal(a, AidSize) /\ Decimal(a, AidSize) \in Seq(Digit)
         /\ Len(Decimal(a, AidSize)) = AidSize
<1> DEFINE A == AidSize
           d == Decimal(a, A)
           l == Len(d)
<1>1. A \in Nat \ {0} /\ MaxAid \in Nat /\ Power[A] \in Nat
  BY MessagesAssumption, PowerLaw
<1>2. a \in Nat /\ a < Power[A]
  <2> HIDE DEF A
  <2> QED
    BY <1>1 DEF A
<1>3. /\ d \in Seq(Digit) /\ l >= A
      /\ \A s \in Nat \ {0} : a < Power[s] /\ A <= s => l <= s
  BY <1>1, <1>2, DecimalLaw
<1>4. l = A
  <2>1. l <= A /\ l \in Nat
    BY <1>1, <1>2, <1>3, LenProperties
  <2> HIDE DEF l, A
  <2>2. l >= A
    BY <1>3 DEF l, A
  <2> QED
    BY <1>1, <2>1, <2>2
<1> HIDE DEF d
<1>5. Fit(d, A) = d
  BY <1>1, <1>3, <1>4, WholeFits
<1>6. Name(a) = d
  BY <1>5 DEF Name, d
<1> QED
  BY <1>3, <1>4, <1>6 DEF d

(* What is said of one auction.                                            *)
LEMMA ItemText ==
  ASSUME NEW d \in Seq(ListChar), NEW s \in ListChar
  PROVE  \E u \in Seq(ListChar) :
           /\ u = <<Blank>> \o d \o <<Blank, s>>
           /\ Len(u) = Len(d) + 3
           /\ u[1] = Blank /\ (\A j \in 1..Len(d) : u[j + 1] = d[j])
           /\ u[Len(d) + 2] = Blank /\ u[Len(d) + 3] = s
<1> DEFINE S == ListChar
           l == Len(d)
           t == <<Blank, s>>
<1>0. l \in Nat
  BY LenProperties
<1>1. Blank \in S
  BY DEF ListChar
<1>2. t \in Seq(S) /\ Len(t) = 2 /\ t[1] = Blank /\ t[2] = s
  <2> HIDE DEF S
  <2> QED
    BY <1>1 DEF S
<1>3. PICK v \in Seq(S) : v = <<Blank>> \o d /\ IsCons(v, Blank, d)
  BY <1>1, ConsTwo
<1> HIDE DEF S, t
<1>4. PICK u \in Seq(S) : u = v \o t /\ IsJoin(u, v, t)
  BY <1>2, JoinTwo
<1>5. Len(v) = l + 1 /\ v[1] = Blank /\ \A j \in 1..l : v[j + 1] = d[j]
  BY <1>3 DEF IsCons
<1>6. /\ Len(u) = Len(v) + Len(t)
      /\ \A j \in 1..Len(v) : u[j] = v[j]
      /\ \A j \in 1..Len(t) : u[Len(v) + j] = t[j]
  BY <1>4 DEF IsJoin
<1> DEFINE lu == Len(u)
           lv == Len(v)
           lt == Len(t)
<1>7. lv = l + 1 /\ lt = 2 /\ lu = lv + lt
  BY <1>2, <1>5, <1>6
<1>8. /\ \A j \in 1..lv : u[j] = v[j]
      /\ \A j \in 1..lt : u[lv + j] = t[j]
  BY <1>6
<1> HIDE DEF lu, lv, lt, l
<1>9. lu = l + 3 /\ 1 \in 1..lv /\ (\A j \in 1..l : j + 1 \in 1..lv)
  BY <1>0, <1>7
<1>10. u[lv + 1] = t[1] /\ u[lv + 2] = t[2]
  BY <1>7, <1>8
<1>11. lv + 1 = l + 2 /\ lv + 2 = l + 3
  BY <1>0, <1>7
<1>12. u[1] = Blank /\ (\A j \in 1..l : u[j + 1] = d[j]) /\ u[l + 2] = Blank /\ u[l + 3] = s
  BY <1>2, <1>5, <1>8, <1>9, <1>10, <1>11
<1>13. u = <<Blank>> \o d \o <<Blank, s>>
  BY <1>3, <1>4 DEF t
<1> QED
  BY <1>9, <1>12, <1>13 DEF lu, l, S
(* The list as it is sent.                                                 *)
LEMMA ListingLaid ==
  ASSUME MaxAid < Power[AidSize], NEW l \in Lists
  PROVE  \E text, at :
           /\ text = <<"OK">>
                \o FlattenSeq([i \in 1..Len(l) |->
                     <<" ">> \o Name(l[i].aid) \o <<" ", l[i].state>>])
                \o <<"\n">>
           /\ Listed(text, l, at)
<1> DEFINE n == Len(l)
           A == AidSize
           S == ListChar
           D(i) == Decimal(l[i].aid, A)
           parts == [i \in 1..n |-> <<Blank>> \o Name(l[i].aid) \o <<Blank, l[i].state>>]
           head == <<"OK">>
           tail == <<Newline>>
<1>1. PICK m \in 1..MaxAid : l \in [1..m -> [aid : 1..MaxAid, state : {"0", "1"}]]
  BY DEF Lists
<1>2. /\ n \in Nat /\ A \in Nat \ {0}
      /\ \A i \in 1..n : l[i].aid \in 1..MaxAid /\ l[i].state \in {"0", "1"}
  <2>1. m \in Nat /\ A \in Nat \ {0}
    BY MessagesAssumption
  <2>2. l \in Seq([aid : 1..MaxAid, state : {"0", "1"}]) /\ n = m
    BY <1>1, <2>1, FunctionIsSeq
  <2> HIDE DEF A, n
  <2>3. \A i \in 1..n : l[i] \in [aid : 1..MaxAid, state : {"0", "1"}]
    BY <1>1, <2>2
  <2> QED
    BY <2>1, <2>2, <2>3
<1>3. ASSUME NEW i \in 1..n
      PROVE  /\ parts[i] \in Seq(S) /\ Len(parts[i]) = A + 3
             /\ parts[i][1] = Blank /\ (\A j \in 1..A : parts[i][j + 1] = D(i)[j])
             /\ parts[i][A + 2] = Blank /\ parts[i][A + 3] = l[i].state
  <2> DEFINE d == D(i)
             s == l[i].state
  <2>1. Name(l[i].aid) = d /\ d \in Seq(Digit) /\ Len(d) = A
    BY <1>2, NameText
  <2>2. d \in Seq(S)
    <3>1. d \in [1..Len(d) -> S]
      BY <2>1, LenProperties, ElementOfSeq DEF ListChar
    <3> HIDE DEF d, S
    <3>2. Len(d) \in Nat
      BY <1>2, <2>1
    <3> QED
      BY <3>1, <3>2, FunctionIsSeq
  <2>3. s \in S
    BY <1>2, NewlineLaw DEF ListChar
  <2> HIDE DEF d, s, S
  <2>4. PICK u \in Seq(S) :
          /\ u = <<Blank>> \o d \o <<Blank, s>>
          /\ Len(u) = Len(d) + 3
          /\ u[1] = Blank /\ (\A j \in 1..Len(d) : u[j + 1] = d[j])
          /\ u[Len(d) + 2] = Blank /\ u[Len(d) + 3] = s
    BY <2>2, <2>3, ItemText DEF S
  <2>5. parts[i] = u
    BY <2>1, <2>4 DEF s
  <2>6. /\ u \in Seq(S) /\ Len(u) = A + 3
        /\ u[1] = Blank /\ (\A j \in 1..A : u[j + 1] = d[j])
        /\ u[A + 2] = Blank /\ u[A + 3] = s
    BY <2>1, <2>4
  <2> HIDE DEF parts
  <2> QED
    BY <2>5, <2>6 DEF d, s
<1>4. parts \in Seq(Seq(S)) /\ Len(parts) = n
  <2>1. parts \in [1..n -> Seq(S)]
    BY <1>3
  <2> HIDE DEF parts, n, S
  <2> QED
    BY <1>2, <2>1, FunctionIsSeq
<1>5. /\ head \in Seq(S) /\ Len(head) = 1
      /\ tail \in Seq(S) /\ Len(tail) = 1 /\ tail[1] = Newline
  <2>1. "OK" \in S /\ Newline \in S
    BY DEF ListChar
  <2> HIDE DEF S
  <2> QED
    BY <2>1
<1> HIDE DEF head, tail, parts, S
<1>6. PICK text, at : text \in Seq(S) /\ Framed(at, head, parts, tail, text)
  BY <1>4, <1>5, FramedPlaces
<1>7. /\ at \in [1..(n + 1) -> Nat] /\ at[1] = 1
      /\ Len(text) = at[n + 1] + 1 /\ text[at[n + 1] + 1] = Newline
  <2>1. /\ at \in [1..(Len(parts) + 1) -> Nat] /\ at[1] = Len(head)
        /\ Len(text) = at[Len(parts) + 1] + Len(tail)
        /\ \A j \in 1..Len(tail) : text[at[Len(parts) + 1] + j] = tail[j]
    BY <1>6 DEF Framed
  <2>2. 1 \in 1..Len(tail)
    BY <1>5
  <2> HIDE DEF n
  <2> QED
    BY <1>4, <1>5, <2>1, <2>2
<1>8. ASSUME NEW i \in 1..n
      PROVE  /\ at[i + 1] = at[i] + A + 3 /\ at[i + 1] <= at[n + 1]
             /\ text[at[i] + 1] = Blank
             /\ \A j \in 1..A : text[at[i] + 1 + j] = D(i)[j]
             /\ text[at[i] + A + 2] = Blank /\ text[at[i] + A + 3] = l[i].state
  <2> DEFINE p == parts[i]
             a == at[i]
             s == l[i].state
             d == D(i)
             lp == Len(p)
  <2>1. /\ at[i + 1] = a + lp /\ at[i + 1] <= at[n + 1]
        /\ \A j \in 1..lp : text[a + j] = p[j]
    BY <1>4, <1>6 DEF Framed
  <2>2. /\ lp = A + 3 /\ p[1] = Blank /\ (\A j \in 1..A : p[j + 1] = d[j])
        /\ p[A + 2] = Blank /\ p[A + 3] = s
    BY <1>3
  <2>3. a \in Nat
    <3>1. i \in 1..(n + 1)
      <4> HIDE DEF n
      <4> QED
        BY <1>2
    <3> QED
      BY <1>7, <3>1
  <2>4. A \in Nat \ {0}
    BY <1>2
  <2> HIDE DEF p, a, s, d, lp, A
  <2>5. at[i + 1] = a + A + 3
    BY <2>1, <2>2, <2>3, <2>4
  <2>6. /\ 1 \in 1..lp /\ A + 2 \in 1..lp /\ A + 3 \in 1..lp
        /\ \A j \in 1..A : j + 1 \in 1..lp /\ a + (j + 1) = a + 1 + j
    BY <2>2, <2>3, <2>4
  <2>7. a + (A + 2) = a + A + 2 /\ a + (A + 3) = a + A + 3
    BY <2>3, <2>4
  <2>8. text[a + 1] = Blank /\ \A j \in 1..A : text[a + 1 + j] = d[j]
    BY <2>1, <2>2, <2>6
  <2>9. text[a + A + 2] = Blank /\ text[a + A + 3] = s
    BY <2>1, <2>2, <2>6, <2>7
  <2> QED
    BY <2>1, <2>5, <2>8, <2>9 DEF a, s, d, A
<1>9. Listed(text, l, at)
  BY <1>6, <1>7, <1>8 DEF Listed, S
<1>10. text = head \o FlattenSeq(parts) \o tail
  BY <1>6 DEF Framed
<1> QED
  BY <1>9, <1>10, Zenon DEF head, tail, parts, Blank, Newline

(* Where a token ends.                                                     *)
LEMMA TokenEndLaw ==
  ASSUME NEW n \in Nat, NEW e \in (n + 1)..Len(msg), Len(msg) \in Nat,
         msg[e] \in {Blank, Newline},
         \A j \in (n + 1)..(e - 1) : msg[j] \notin {Blank, Newline} /\ j # n + 1 + AidSize
  PROVE  TokenEnd(n) = e
<1> DEFINE Stops(j) == msg[j] \in {Blank, Newline} \/ j = n + 1 + AidSize
           m == Len(msg)
           S == {j \in (n + 1)..m : Stops(j)}
<1>1. e \in S
  OBVIOUS
<1>2. \A j \in (n + 1)..(e - 1) : ~Stops(j)
  OBVIOUS
<1>3. \A j \in S : e <= j
  <2> SUFFICES ASSUME NEW j \in S PROVE e <= j
    OBVIOUS
  <2>1. j \in (n + 1)..m /\ Stops(j)
    OBVIOUS
  <2>2. m \in Nat
    OBVIOUS
  <2> HIDE DEF Stops, S, m
  <2>3. j \notin (n + 1)..(e - 1)
    BY <1>2, <2>1
  <2>4. j \in Nat /\ e \in Nat
    BY <2>1, <2>2
  <2> QED
    BY <2>1, <2>2, <2>3, <2>4
<1>4. S \subseteq Int
  OBVIOUS
<1> HIDE DEF S
<1>5. \A x \in S : (\A y \in S : x <= y) => x = e
  BY <1>1, <1>3, <1>4
<1>6. Min(S) = e
  BY <1>1, <1>3, <1>5 DEF Min
<1>7. TokenEnd(n) = Min(S)
  BY Zenon DEF TokenEnd, S, Blank, Newline
<1> QED
  BY <1>6, <1>7
(* One turn of the client's loop takes one auction from the list, and      *)
(* stops after the last.                                                   *)
LEMMA TurnLaw ==
  ASSUME MaxAid < Power[AidSize], auctions \in Lists, NEW at, Listed(msg, auctions, at),
         NEW k \in 1..Len(auctions)
  PROVE  LET q == at[k] + 1
             m == UsedUp(q)
         IN  /\ TokenAt(q) = Decimal(auctions[k].aid, AidSize)
             /\ TokenAt(m) = <<auctions[k].state>>
             /\ AtNewline(m) <=> k = Len(auctions)
             /\ k # Len(auctions) => UsedUp(m) = at[k + 1] + 1
<1> DEFINE n == Len(auctions)
           A == AidSize
           a == at[k]
           q == a + 1
           e == a + A + 2
           f == a + A + 4
           z == at[n + 1]
           lm == Len(msg)
           d == Decimal(auctions[k].aid, A)
           s == auctions[k].state
<1>1. n \in Nat /\ auctions[k].aid \in 1..MaxAid /\ s \in {"0", "1"}
  <2>1. PICK m \in 1..MaxAid : auctions \in [1..m -> [aid : 1..MaxAid, state : {"0", "1"}]]
    BY DEF Lists
  <2>2. m \in Nat
    BY MessagesAssumption
  <2>3. n = m
    BY <2>1, <2>2, FunctionIsSeq
  <2> HIDE DEF n
  <2>4. auctions[k] \in [aid : 1..MaxAid, state : {"0", "1"}]
    BY <2>1, <2>3 DEF n
  <2> QED
    BY <2>2, <2>3, <2>4
<1>2. A \in Nat /\ A >= 2
  BY MessagesAssumption
<1>3. /\ msg \in Seq(ListChar) /\ at \in [1..(n + 1) -> Nat]
      /\ lm = z + 1 /\ msg[z + 1] = Newline
      /\ at[k + 1] = a + A + 3 /\ at[k + 1] <= z
      /\ \A j \in 1..A : msg[a + 1 + j] = d[j]
      /\ msg[a + A + 2] = Blank /\ msg[a + A + 3] = s
  BY DEF Listed
<1>4. a \in Nat /\ z \in Nat
  <2>1. k \in 1..n
    OBVIOUS
  <2> HIDE DEF n
  <2>2. k \in 1..(n + 1) /\ n + 1 \in 1..(n + 1)
    BY <1>1, <2>1
  <2> QED
    BY <1>3, <2>2
<1>5. k # n => msg[f] = Blank /\ k + 1 \in 1..n
  <2>1. ASSUME k # n PROVE k + 1 \in 1..n
    <3>1. k \in 1..n
      OBVIOUS
    <3> HIDE DEF n
    <3> QED
      BY <1>1, <2>1, <3>1
  <2>2. ASSUME k # n PROVE msg[at[k + 1] + 1] = Blank
    BY <2>1, <2>2 DEF Listed
  <2>3. at[k + 1] + 1 = f
    <3> HIDE DEF a, A
    <3> QED
      BY <1>2, <1>3, <1>4
  <2> QED
    BY <2>1, <2>2, <2>3
<1>6. k = n => msg[f] = Newline
  <2>1. k = n => at[k + 1] = z
    OBVIOUS
  <2> HIDE DEF n, a, A, z
  <2>2. at[k + 1] + 1 = f
    BY <1>2, <1>3, <1>4
  <2> QED
    BY <1>3, <2>1, <2>2
<1>7. d \in Seq(Digit) /\ Len(d) = A
  BY <1>1, NameText
<1> HIDE DEF n, A, a, z, d, s, lm
<1>8. \A j \in (q + 1)..(e - 1) : msg[j] \in Digit
  <2> SUFFICES ASSUME NEW j \in (q + 1)..(e - 1) PROVE msg[j] \in Digit
    OBVIOUS
  <2>1. j - a - 1 \in 1..A /\ a + 1 + (j - a - 1) = j
    BY <1>2, <1>4
  <2>2. d[j - a - 1] \in Digit
    BY <1>7, <2>1, ElementOfSeq
  <2> QED
    BY <1>3, <2>1, <2>2
<1>9. lm \in Nat /\ e \in (q + 1)..lm /\ f \in (e + 1)..lm /\ q \in Nat /\ e \in Nat /\ f \in Nat
  BY <1>2, <1>3, <1>4
<1>10. TokenEnd(q) = e
  <2>1. \A j \in (q + 1)..(e - 1) : j # q + 1 + A
    BY <1>2, <1>4
  <2>2. \A j \in (q + 1)..(e - 1) : msg[j] \notin {Blank, Newline}
    BY <1>8, NewlineLaw
  <2>3. msg[e] \in {Blank, Newline}
    BY <1>3
  <2> HIDE DEF q, e
  <2> QED
    BY <1>9, <2>1, <2>2, <2>3, TokenEndLaw DEF A, lm
<1>11. ~AtNewline(q) /\ UsedUp(q) = e
  <2>1. msg[e] # Newline
    BY <1>3, NewlineLaw
  <2> HIDE DEF e, q
  <2>2. ~AtNewline(q)
    BY <1>10, <2>1, Zenon DEF AtNewline, Newline
  <2> QED
    BY <1>10, <2>2 DEF UsedUp
<1>12. TokenAt(q) = d
  <2>1. d \in Seq(ListChar)
    <3>1. d \in [1..A -> ListChar]
      BY <1>2, <1>7, ElementOfSeq, LenProperties DEF ListChar
    <3> QED
      BY <1>2, <3>1, FunctionIsSeq
  <2>2. PICK from \in Nat \ {0} : from = q + 1
    BY <1>4
  <2>3. \A j \in 1..A : msg[from - 1 + j] = d[j]
    <3>1. \A j \in 1..A : from - 1 + j = a + 1 + j
      BY <1>4, <2>2
    <3> QED
      BY <1>3, <3>1
  <2>4. from + A <= lm + 1
    BY <1>2, <1>3, <1>4, <2>2
  <2>5. SubSeq(msg, from, from + A - 1) = d
    BY <1>2, <1>3, <1>7, <2>1, <2>3, <2>4, CutOut DEF lm
  <2>6. from + A - 1 = e - 1
    BY <1>2, <1>4, <2>2
  <2> HIDE DEF q, e
  <2> QED
    BY <1>10, <2>2, <2>5, <2>6 DEF TokenAt
<1>13. TokenEnd(e) = f
  <2>1. \A j \in (e + 1)..(f - 1) : j = a + A + 3 /\ j # e + 1 + A
    BY <1>2, <1>4
  <2>2. s \notin {Blank, Newline}
    BY <1>1, NewlineLaw
  <2>3. \A j \in (e + 1)..(f - 1) : msg[j] \notin {Blank, Newline} /\ j # e + 1 + A
    BY <1>3, <2>1, <2>2
  <2>4. msg[f] \in {Blank, Newline}
    BY <1>5, <1>6
  <2> HIDE DEF e, f
  <2> QED
    BY <1>9, <2>3, <2>4, TokenEndLaw DEF A, lm
<1>14. AtNewline(e) <=> k = n
  <2>1. f < e + 1 + A
    BY <1>2, <1>4
  <2>2. msg[f] = Newline <=> k = n
    BY <1>5, <1>6, NewlineLaw
  <2> HIDE DEF e, f
  <2> QED
    BY <1>13, <2>1, <2>2, Zenon DEF AtNewline, Newline, A
<1>15. k # n => UsedUp(e) = at[k + 1] + 1
  <2>1. at[k + 1] + 1 = f
    BY <1>2, <1>3, <1>4
  <2> HIDE DEF e, f
  <2> QED
    BY <1>13, <1>14, <2>1 DEF UsedUp
<1>16. TokenAt(e) = <<s>>
  <2>1. TokenAt(e) = SubSeq(msg, a + A + 3, f - 1)
    <3>1. e + 1 = a + A + 3
      BY <1>2, <1>4
    <3> HIDE DEF e, f
    <3> QED
      BY <1>13, <3>1 DEF TokenAt
  <2> DEFINE u == <<s>>
  <2>2. u \in Seq(ListChar) /\ Len(u) = 1 /\ u[1] = s
    <3>1. s \in ListChar
      BY <1>1, NewlineLaw DEF ListChar
    <3> QED
      BY <3>1
  <2> HIDE DEF u
  <2>3. PICK from \in Nat \ {0} : from = a + A + 3
    BY <1>2, <1>4
  <2>4. \A j \in 1..1 : msg[from - 1 + j] = u[j]
    <3>1. \A j \in 1..1 : j = 1 /\ from - 1 + j = from
      OBVIOUS
    <3>2. msg[from] = u[1]
      BY <1>3, <2>2, <2>3
    <3> QED
      BY <3>1, <3>2
  <2>5. from + 1 <= lm + 1
    BY <1>2, <1>3, <1>4, <2>3
  <2>6. SubSeq(msg, from, from + 1 - 1) = u
    <3>1. 1 \in Nat
      OBVIOUS
    <3> QED
      BY <1>3, <2>2, <2>4, <2>5, <3>1, CutOut DEF lm
  <2>7. from + 1 - 1 = f - 1
    BY <1>2, <1>4, <2>3
  <2> QED
    BY <2>1, <2>3, <2>6, <2>7 DEF u
<1> HIDE DEF q, e
<1> QED
  BY <1>11, <1>12, <1>14, <1>15, <1>16 DEF n, A, a, q, d, s
(* While the client reads a list, it is at the beginning of an item.       *)
ListInv ==
  /\ shown \in Seq(Seq(Seq(ListChar)))
  /\ ListShown
  /\ server # "acts" => shown = <<>> /\ auctions = <<>>
  /\ listing =>
       /\ auctions \in Lists /\ Len(shown) < Len(auctions)
       /\ \E at : Listed(msg, auctions, at) /\ pos = at[Len(shown) + 1] + 1

(* What has been shown, with one auction more.                             *)
LEMMA OneMoreShown ==
  ASSUME MaxAid < Power[AidSize], auctions \in Lists,
         NEW s \in Seq(Seq(Seq(ListChar))), Len(s) < Len(auctions),
         \A i \in 1..Len(s) : s[i] = <<Decimal(auctions[i].aid, AidSize), <<auctions[i].state>>>>,
         NEW x, x = <<Decimal(auctions[Len(s) + 1].aid, AidSize), <<auctions[Len(s) + 1].state>>>>
  PROVE  /\ Append(s, x) \in Seq(Seq(Seq(ListChar))) /\ Len(Append(s, x)) = Len(s) + 1
         /\ \A i \in 1..(Len(s) + 1) :
              Append(s, x)[i] = <<Decimal(auctions[i].aid, AidSize), <<auctions[i].state>>>>
<1> DEFINE n == Len(auctions)
           T == Seq(Seq(ListChar))
           k == Len(s) + 1
           d == Decimal(auctions[k].aid, AidSize)
           c == auctions[k].state
           Item(i) == <<Decimal(auctions[i].aid, AidSize), <<auctions[i].state>>>>
           u == Append(s, x)
<1>1. PICK m \in 1..MaxAid : auctions \in [1..m -> [aid : 1..MaxAid, state : {"0", "1"}]]
  BY DEF Lists
<1>2. Len(s) \in Nat /\ k \in 1..n /\ auctions[k].aid \in 1..MaxAid /\ c \in {"0", "1"}
  <2>1. m \in Nat /\ Len(s) \in Nat
    BY MessagesAssumption, LenProperties
  <2>2. n = m
    BY <1>1, <2>1, FunctionIsSeq
  <2>3. Len(s) < n
    OBVIOUS
  <2> HIDE DEF n
  <2>4. k \in 1..n
    BY <2>1, <2>2, <2>3
  <2>5. auctions[k] \in [aid : 1..MaxAid, state : {"0", "1"}]
    BY <1>1, <2>2, <2>4
  <2> QED
    BY <2>1, <2>4, <2>5
<1>3. d \in Seq(ListChar)
  <2>1. d \in Seq(Digit) /\ Len(d) = AidSize /\ AidSize \in Nat
    BY <1>2, NameText, MessagesAssumption
  <2>2. d \in [1..AidSize -> ListChar]
    BY <2>1, ElementOfSeq, LenProperties DEF ListChar
  <2> HIDE DEF d
  <2> QED
    BY <2>1, <2>2, FunctionIsSeq
<1>4. x \in T
  <2>1. c \in ListChar
    BY <1>2, NewlineLaw DEF ListChar
  <2>2. x = <<d, <<c>>>>
    OBVIOUS
  <2> HIDE DEF d, c
  <2>3. <<c>> \in Seq(ListChar)
    BY <2>1
  <2> DEFINE y == <<c>>
  <2>4. y \in Seq(ListChar) /\ x = <<d, y>>
    BY <2>2, <2>3
  <2> DEFINE C == Seq(ListChar)
  <2>5. d \in C /\ y \in C
    BY <1>3, <2>4
  <2> HIDE DEF y, C
  <2>6. <<d, y>> \in Seq(C)
    BY <2>5
  <2> QED
    BY <2>4, <2>6 DEF C
<1>5. x = Item(k) /\ \A i \in 1..Len(s) : s[i] = Item(i)
  OBVIOUS
<1> HIDE DEF T, Item
<1>6. u \in Seq(T) /\ Len(u) = k /\ (\A i \in 1..Len(s) : u[i] = s[i]) /\ u[k] = x
  BY <1>4, AppendProperties DEF T
<1>7. \A i \in 1..k : u[i] = Item(i)
  <2>1. \A i \in 1..k : i \in 1..Len(s) \/ i = k
    BY <1>2
  <2> HIDE DEF u, k
  <2> QED
    BY <1>5, <1>6, <2>1
<1> QED
  BY <1>6, <1>7 DEF T, Item

(* Steps that do not concern the list.                                     *)
LEMMA NoListInv ==
  ASSUME MessagesInv, ListInv, Ask \/ ReadChar \/ ReadFails \/ ReadDatagram \/ Reply
  PROVE  ListInv'
<1> DEFINE e == <<>>
<1>1. e \in Seq(Seq(Seq(ListChar))) /\ Len(e) = 0 /\ 1..Len(e) = {}
  OBVIOUS
<1>2. shown' = e /\ auctions' = e /\ ~listing'
  <2>1. CASE Ask \/ ReadChar \/ ReadFails \/ ReadDatagram
    <3>1. server \in {"idle", "read"} /\ UNCHANGED <<auctions, listing, shown>>
      <4>1. Ask => op = "none" /\ UNCHANGED <<auctions, listing, shown>>
        BY DEF Ask
      <4>2. ReadChar => server = "read" /\ UNCHANGED <<auctions, listing, shown>>
        BY DEF ReadChar
      <4>3. ReadFails => server = "read" /\ UNCHANGED <<auctions, listing, shown>>
        BY DEF ReadFails, NothingComes
      <4>4. ReadDatagram => server = "read" /\ UNCHANGED <<auctions, listing, shown>>
        BY DEF ReadDatagram
      <4> QED
        BY <2>1, <4>1, <4>2, <4>3, <4>4 DEF MessagesInv, PhaseInv
    <3> QED
      BY <3>1 DEF MessagesInv, PhaseInv, ListInv
  <2>2. CASE Reply
    BY <2>2 DEF Reply
  <2> QED
    BY <2>1, <2>2
<1> HIDE DEF e
<1>3. ~(shown' # e)
  BY <1>2
<1>4. ListShown'
  <2>1. Len(shown') <= Len(auctions')
    BY <1>1, <1>2
  <2>2. shown' = <<>>
    BY <1>2 DEF e
  <2> QED
    BY <1>1, <1>2, <2>1, <2>2 DEF ListShown
<1>5. shown' = <<>> /\ auctions' = <<>> /\ shown' \in Seq(Seq(Seq(ListChar)))
  BY <1>1, <1>2 DEF e
<1> QED
  BY <1>2, <1>4, <1>5 DEF ListInv

(* The server sends a list.                                                *)
LEMMA ReplyListInv ==
  ASSUME MaxAid < Power[AidSize], MessagesInv, ListInv, ReplyList
  PROVE  ListInv'
<1> DEFINE l == auctions'
           e == <<>>
<1>1. /\ server = "acts" /\ server' = server /\ shown = e /\ shown' = shown
      /\ l \in Lists /\ listing' = TRUE /\ pos' = 2
  BY DEF ReplyList, ListWanted
<1>2. PICK text, at :
        /\ text = <<"OK">>
             \o FlattenSeq([i \in 1..Len(l) |->
                  <<" ">> \o Name(l[i].aid) \o <<" ", l[i].state>>])
             \o <<"\n">>
        /\ Listed(text, l, at)
  BY <1>1, ListingLaid
<1>3. msg' = text
  BY <1>2, Zenon DEF ReplyList
<1>4. Listed(msg', auctions', at)
  BY <1>2, <1>3
<1>5. at[1] = 1
  BY <1>2 DEF Listed
<1>6. Len(l) \in Nat \ {0}
  <2>1. PICK m \in 1..MaxAid : l \in [1..m -> [aid : 1..MaxAid, state : {"0", "1"}]]
    BY <1>1 DEF Lists
  <2>2. m \in Nat \ {0}
    BY MessagesAssumption
  <2>3. Len(l) = m
    BY <2>1, <2>2, FunctionIsSeq
  <2> QED
    BY <2>2, <2>3
<1>7. Len(e) = 0 /\ 1..Len(e) = {} /\ e \in Seq(Seq(Seq(ListChar)))
  OBVIOUS
<1> HIDE DEF e, l
<1>8. /\ Len(shown') = 0 /\ 1..Len(shown') = {} /\ Len(shown') < Len(l) /\ Len(shown') <= Len(l)
      /\ shown' \in Seq(Seq(Seq(ListChar)))
  <2>1. shown' = e
    BY <1>1
  <2> DEFINE n == Len(l)
  <2>2. n \in Nat \ {0}
    BY <1>6
  <2> HIDE DEF n
  <2>3. 0 < n /\ 0 <= n
    BY <2>2
  <2> QED
    BY <1>7, <2>1, <2>3 DEF n
<1>9. ListShown'
  BY <1>1, <1>8 DEF ListShown, l
<1>10. pos' = at[Len(shown') + 1] + 1
  <2>1. Len(shown') + 1 = 1
    BY <1>8
  <2> QED
    BY <1>1, <1>5, <2>1
<1> QED
  BY <1>1, <1>4, <1>8, <1>9, <1>10 DEF ListInv, l

(* The client reads on.                                                    *)
LEMMA ListTurnInv ==
  ASSUME MaxAid < Power[AidSize], MessagesInv, ListInv, ListTurn
  PROVE  ListInv'
<1> DEFINE k == Len(shown) + 1
           n == Len(auctions)
           m == UsedUp(pos)
           x == <<TokenAt(pos), TokenAt(m)>>
<1>1. /\ listing /\ server' = server /\ msg' = msg /\ auctions' = auctions
      /\ shown' = Append(shown, x) /\ pos' = UsedUp(m) /\ listing' = ~AtNewline(m)
  BY DEF ListTurn
<1>2. server = "acts"
  BY <1>1 DEF MessagesInv, PhaseInv
<1>3. /\ shown \in Seq(Seq(Seq(ListChar))) /\ auctions \in Lists /\ Len(shown) < n
      /\ \A i \in 1..Len(shown) :
           shown[i] = <<Decimal(auctions[i].aid, AidSize), <<auctions[i].state>>>>
  BY <1>1 DEF ListInv, ListShown
<1>4. PICK at : Listed(msg, auctions, at) /\ pos = at[k] + 1
  BY <1>1 DEF ListInv
<1>5. n \in Nat /\ Len(shown) \in Nat
  <2>1. PICK c \in 1..MaxAid : auctions \in [1..c -> [aid : 1..MaxAid, state : {"0", "1"}]]
    BY <1>3 DEF Lists
  <2>2. c \in Nat /\ MaxAid \in Nat
    BY MessagesAssumption
  <2>3. n = c
    BY <2>1, <2>2, FunctionIsSeq
  <2> QED
    BY <1>3, <2>2, <2>3, LenProperties
<1>6. k \in 1..n
  <2> HIDE DEF n
  <2> QED
    BY <1>3, <1>5
<1>7. /\ TokenAt(pos) = Decimal(auctions[k].aid, AidSize)
      /\ TokenAt(m) = <<auctions[k].state>>
      /\ AtNewline(m) <=> k = n
      /\ k # n => UsedUp(m) = at[k + 1] + 1
  BY <1>3, <1>4, <1>6, TurnLaw
<1>8. x = <<Decimal(auctions[k].aid, AidSize), <<auctions[k].state>>>>
  BY <1>7
<1> HIDE DEF x
<1>9. /\ shown' \in Seq(Seq(Seq(ListChar))) /\ Len(shown') = k
      /\ \A i \in 1..k :
           shown'[i] = <<Decimal(auctions[i].aid, AidSize), <<auctions[i].state>>>>
  BY <1>1, <1>3, <1>8, OneMoreShown
<1> HIDE DEF m, n, k
<1>10. /\ k <= n /\ (k # n => k < n)
  BY <1>5, <1>6
<1>11. listing' <=> k # n
  BY <1>1, <1>7
<1>12. ListShown'
  BY <1>1, <1>9, <1>10, <1>11 DEF ListShown, n
<1>13. listing' => Len(shown') < n /\ pos' = at[k + 1] + 1
  BY <1>1, <1>7, <1>9, <1>10, <1>11
<1> QED
  BY <1>1, <1>2, <1>3, <1>4, <1>9, <1>12, <1>13 DEF ListInv, n

(* As long as an AID of AidSize digits is enough for every auction, the    *)
(* client prints the auctions that the server listed, each beside its own  *)
(* state, and ends where the list does.                                    *)
THEOREM ListIsShown ==
  ASSUME MaxAid < Power[AidSize]
  PROVE  Spec => []ListShown
<1>1. Init => MessagesInv /\ ListInv
  <2> SUFFICES ASSUME Init PROVE MessagesInv /\ ListInv
    OBVIOUS
  <2>1. MessagesInv
    BY DEF Init, MessagesInv, PhaseInv, ReadingInv, ActsAsAsked, ValidIsServed, NoWaitForTyped
  <2> DEFINE e == <<>>
  <2>2. e \in Seq(Seq(Seq(ListChar))) /\ Len(e) = 0 /\ 1..Len(e) = {}
    OBVIOUS
  <2> HIDE DEF e
  <2>3. shown = e /\ auctions = e /\ ~listing
    BY DEF Init, e
  <2>4. shown = <<>> /\ auctions = <<>>
    BY DEF Init
  <2>5. Len(shown) <= Len(auctions) /\ shown \in Seq(Seq(Seq(ListChar)))
    BY <2>2, <2>3
  <2>6. ListShown
    BY <2>2, <2>3, <2>4, <2>5 DEF ListShown
  <2> QED
    BY <2>1, <2>3, <2>4, <2>5, <2>6 DEF ListInv
<1>2. MessagesInv /\ ListInv /\ MessagesInv' /\ [Next]_vars => ListInv'
  <2> SUFFICES ASSUME MessagesInv, ListInv, [Next]_vars PROVE ListInv'
    OBVIOUS
  <2>1. CASE Ask \/ ReadChar \/ ReadFails \/ ReadDatagram \/ Reply
    BY <2>1, NoListInv
  <2>2. CASE ReplyList
    BY <2>2, ReplyListInv
  <2>3. CASE ListTurn
    BY <2>3, ListTurnInv
  <2>4. CASE UNCHANGED vars
    BY <2>4 DEF vars, ListInv, ListShown
  <2> QED
    BY <2>1, <2>2, <2>3, <2>4 DEF Next
<1>3. ListInv => ListShown
  BY DEF ListInv
<1> QED
  BY <1>1, <1>2, <1>3, MessagesInvariant, PTL DEF Spec

===============================================================================
