----------------------------- MODULE SequenceLemmas -----------------------------
(***************************************************************************)
(* What the proofs need of numbers and sequences, and the library does not *)
(* say: induction, sequences one after the other, FlattenSeq.              *)
(***************************************************************************)
EXTENDS Integers, SequencesExt, SequenceTheorems, WellFoundedInduction, TLAPS

(* Induction, for a set of numbers.                                        *)
LEMMA NatSetInduction ==
  ASSUME NEW T \in SUBSET Nat, 0 \in T, \A n \in T : n + 1 \in T
  PROVE  T = Nat
<1> DEFINE less == OpToRel(<, Nat)
<1> SUFFICES ASSUME Nat \ T # {} PROVE FALSE
  OBVIOUS
<1>1. IsWellFoundedOn(less, Nat)
  BY NatLessThanWellFounded
<1>2. \A m, n \in Nat : m < n => <<m, n>> \in less
  BY DEF OpToRel
<1> HIDE DEF less
<1>3. PICK n \in Nat \ T : \A m \in Nat \ T : <<m, n>> \notin less
  BY <1>1, WFMin
<1>4. n - 1 \in Nat /\ n - 1 \notin T /\ n - 1 < n
  BY <1>3
<1> QED
  BY <1>2, <1>3, <1>4

(* A function may be defined by recursion over the numbers.                *)
Starts(h, n, S, z, g) ==
  /\ h \in [0..n -> S]
  /\ h[0] = z
  /\ \A i \in 0..n : i < n => h[i + 1] = g[i][h[i]]

Recurs(f, S, z, g) ==
  f \in [Nat -> S] /\ f[0] = z /\ \A n \in Nat : f[n + 1] = g[n][f[n]]

(* There is such a function, whatever the first value and the steps.       *)
LEMMA NatRecursion ==
  ASSUME NEW S, NEW z \in S, NEW g \in [Nat -> [S -> S]]
  PROVE  \E f : Recurs(f, S, z, g)
<1> DEFINE T == {n \in Nat : \E h : Starts(h, n, S, z, g)}
<1>1. 0 \in T
  <2>1. Starts([i \in 0..0 |-> z], 0, S, z, g)
    BY DEF Starts
  <2> QED
    BY <2>1
<1>2. ASSUME NEW n \in Nat, NEW h, Starts(h, n, S, z, g)
      PROVE  \E k : Starts(k, n + 1, S, z, g)
  <2> DEFINE k == [i \in 0..(n + 1) |-> IF i = n + 1 THEN g[n][h[n]] ELSE h[i]]
  <2>1. h \in [0..n -> S] /\ h[0] = z /\ \A i \in 0..n : i < n => h[i + 1] = g[i][h[i]]
    BY <1>2 DEF Starts
  <2>2. k \in [0..(n + 1) -> S]
    BY <2>1
  <2>3. k[0] = z
    BY <2>1
  <2>4. \A i \in 0..(n + 1) : i < n + 1 => k[i + 1] = g[i][k[i]]
    BY <2>1
  <2> HIDE DEF k
  <2> QED
    BY <2>2, <2>3, <2>4 DEF Starts
<1>3. \A n \in Nat : \E h : Starts(h, n, S, z, g)
  <2>1. \A n \in T : n + 1 \in T
    BY <1>2 DEF T
  <2> HIDE DEF T
  <2>2. T = Nat
    BY <1>1, <2>1, NatSetInduction DEF T
  <2> QED
    BY <2>2 DEF T
<1>4. ASSUME NEW n \in Nat, NEW m \in Nat, n <= m,
             NEW h, Starts(h, n, S, z, g), NEW k, Starts(k, m, S, z, g)
      PROVE  h[n] = k[n]
  <2> DEFINE U == {i \in Nat : i <= n => h[i] = k[i]}
  <2>1. 0 \in U
    BY <1>4 DEF Starts
  <2>2. ASSUME NEW i \in U PROVE i + 1 \in U
    BY <1>4 DEF Starts
  <2> HIDE DEF U
  <2>3. U = Nat
    BY <2>1, <2>2, NatSetInduction DEF U
  <2> QED
    BY <2>3 DEF U
<1> DEFINE c == [n \in Nat |-> CHOOSE h : Starts(h, n, S, z, g)]
           f == [n \in Nat |-> c[n][n]]
<1>5. \A n \in Nat : Starts(c[n], n, S, z, g)
  BY <1>3
<1> HIDE DEF c
<1>6. f \in [Nat -> S]
  BY <1>5 DEF Starts
<1>7. f[0] = z
  BY <1>5 DEF Starts
<1>8. ASSUME NEW n \in Nat PROVE f[n + 1] = g[n][f[n]]
  <2>1. c[n + 1][n + 1] = g[n][c[n + 1][n]]
    BY <1>5 DEF Starts
  <2>2. c[n + 1][n] = c[n][n]
    <3>1. Starts(c[n], n, S, z, g) /\ Starts(c[n + 1], n + 1, S, z, g)
      BY <1>5
    <3> QED
      BY <1>4, <3>1
  <2> QED
    BY <2>1, <2>2
<1> HIDE DEF f
<1> QED
  BY <1>6, <1>7, <1>8 DEF Recurs

-------------------------------------------------------------------------------
(* Sequences.                                                              *)

(* A function on 1..n is a sequence of length n.                           *)
LEMMA FunctionIsSeq ==
  ASSUME NEW S, NEW n \in Nat, NEW t \in [1..n -> S]
  PROVE  t \in Seq(S) /\ Len(t) = n
<1>1. t \in Seq(S)
  BY SeqDef
<1>2. 1..Len(t) = 1..n /\ Len(t) \in Nat
  BY <1>1, LenProperties
<1> QED
  BY <1>1, <1>2

(* Two sequences, one after the other, under a name of their own: the      *)
(* provers lose their way in lengths of concatenations.                    *)
IsJoin(u, s, t) ==
  /\ u = s \o t
  /\ Len(u) = Len(s) + Len(t)
  /\ \A i \in 1..Len(s) : u[i] = s[i]
  /\ \A i \in 1..Len(t) : u[Len(s) + i] = t[i]

(* Two sequences joined are a sequence.                                    *)
LEMMA JoinTwo ==
  ASSUME NEW S, NEW s \in Seq(S), NEW t \in Seq(S)
  PROVE  s \o t \in Seq(S) /\ IsJoin(s \o t, s, t)
<1> DEFINE u == s \o t
<1>1. u \in Seq(S) /\ Len(u) = Len(s) + Len(t)
  OBVIOUS
<1>2. \A i \in 1..Len(s) : u[i] = s[i]
  OBVIOUS
<1>3. \A i \in 1..Len(t) : u[Len(s) + i] = t[i]
  OBVIOUS
<1>4. u = s \o t
  OBVIOUS
<1> HIDE DEF u
<1>5. u \in Seq(S) /\ IsJoin(u, s, t)
  BY <1>1, <1>2, <1>3, <1>4 DEF IsJoin
<1> QED
  BY <1>4, <1>5

(* One element before the others.                                          *)
IsCons(u, c, t) ==
  /\ Len(u) = Len(t) + 1
  /\ u[1] = c
  /\ \A j \in 1..Len(t) : u[j + 1] = t[j]

(* An element and a sequence are a sequence.                               *)
LEMMA ConsTwo ==
  ASSUME NEW S, NEW c \in S, NEW t \in Seq(S)
  PROVE  <<c>> \o t \in Seq(S) /\ IsCons(<<c>> \o t, c, t)
<1> DEFINE u == <<c>> \o t
<1>1. u \in Seq(S) /\ Len(u) = Len(t) + 1
  OBVIOUS
<1>2. u[1] = c
  OBVIOUS
<1>3. \A j \in 1..Len(t) : u[j + 1] = t[j]
  OBVIOUS
<1>4. u = <<c>> \o t
  OBVIOUS
<1> HIDE DEF u
<1>5. u \in Seq(S) /\ IsCons(u, c, t)
  BY <1>1, <1>2, <1>3 DEF IsCons
<1> QED
  BY <1>4, <1>5

-------------------------------------------------------------------------------
(* Sequences of sequences.                                                 *)

(* f[i] is the first i elements of s, one after the other.                 *)
Joins(f, s, n) == f = [i \in 1..n |-> IF i = 1 THEN s[i] ELSE f[i - 1] \o s[i]]

(* There is such a function.                                               *)
LEMMA JoinExists ==
  ASSUME NEW s
  PROVE  \A n \in Nat : \E f : Joins(f, s, n)
<1> DEFINE T == {n \in Nat : \E f : Joins(f, s, n)}
<1>1. 0 \in T
  <2>1. Joins([i \in 1..0 |-> s], s, 0)
    BY DEF Joins
  <2> QED
    BY <2>1
<1>2. ASSUME NEW n \in Nat, NEW f, Joins(f, s, n) PROVE \E g : Joins(g, s, n + 1)
  <2> DEFINE g == [i \in 1..(n + 1) |-> IF i = 1 THEN s[i] ELSE f[i - 1] \o s[i]]
  <2>1. \A i \in 1..n : f[i] = IF i = 1 THEN s[i] ELSE f[i - 1] \o s[i]
    BY <1>2 DEF Joins
  <2>2. \A i \in 1..(n + 1) : i - 1 \in 1..n => g[i - 1] = f[i - 1]
    BY <2>1
  <2>3. \A i \in 1..(n + 1) : i = 1 \/ i - 1 \in 1..n
    OBVIOUS
  <2>4. g = [i \in 1..(n + 1) |-> IF i = 1 THEN s[i] ELSE g[i - 1] \o s[i]]
    <3>1. \A i \in 1..(n + 1) : (IF i = 1 THEN s[i] ELSE g[i - 1] \o s[i])
                                  = IF i = 1 THEN s[i] ELSE f[i - 1] \o s[i]
      <4> HIDE DEF g
      <4> QED
        BY <2>2, <2>3
    <3> DEFINE h == [i \in 1..(n + 1) |-> IF i = 1 THEN s[i] ELSE g[i - 1] \o s[i]]
    <3>2. \A i \in 1..(n + 1) : h[i] = IF i = 1 THEN s[i] ELSE f[i - 1] \o s[i]
      BY <3>1
    <3>3. h = g
      <4>1. h = [i \in 1..(n + 1) |-> h[i]] /\ \A i \in 1..(n + 1) : h[i] = g[i]
        BY <3>2
      <4> QED
        BY <4>1
    <3> QED
      BY <3>3
  <2> HIDE DEF g
  <2> QED
    BY <2>4 DEF Joins
<1> HIDE DEF T
<1>3. T = Nat
  <2>1. \A n \in T : n + 1 \in T
    BY <1>2 DEF T
  <2> QED
    BY <1>1, <2>1, NatSetInduction DEF T
<1> QED
  BY <1>3 DEF T

Agree(f, g, n) == \A i \in 1..n : f[i] = g[i]

(* It is given by the elements.                                            *)
LEMMA JoinUnique ==
  ASSUME NEW s, NEW t, NEW m \in Nat, NEW n \in Nat, m <= n, Agree(s, t, m),
         NEW f, Joins(f, s, m), NEW g, Joins(g, t, n)
  PROVE  Agree(f, g, m)
<1> DEFINE T == {i \in Nat : i \in 1..m => f[i] = g[i]}
<1>1. 0 \in T
  OBVIOUS
<1>2. ASSUME NEW i \in T PROVE i + 1 \in T
  <2>1. \A j \in 1..m : f[j] = IF j = 1 THEN s[j] ELSE f[j - 1] \o s[j]
    BY DEF Joins
  <2>2. \A j \in 1..n : g[j] = IF j = 1 THEN t[j] ELSE g[j - 1] \o t[j]
    BY DEF Joins
  <2> SUFFICES ASSUME i + 1 \in 1..m PROVE f[i + 1] = g[i + 1]
    OBVIOUS
  <2>3. i + 1 # 1 => (i + 1) - 1 = i /\ f[i] = g[i]
    OBVIOUS
  <2> QED
    BY <2>1, <2>2, <2>3 DEF Agree
<1> HIDE DEF T
<1>3. T = Nat
  BY <1>1, <1>2, NatSetInduction DEF T
<1> QED
  BY <1>3 DEF T, Agree

(* FlattenSeq is its last element.                                         *)
LEMMA FlattenJoins ==
  ASSUME NEW s, Len(s) \in Nat \ {0}
  PROVE  \E f : Joins(f, s, Len(s)) /\ FlattenSeq(s) = f[Len(s)]
<1> DEFINE f == CHOOSE g : Joins(g, s, Len(s))
<1>1. Joins(f, s, Len(s))
  BY JoinExists
<1>2. FlattenSeq(s) = f[Len(s)]
  BY DEF FlattenSeq, Joins
<1> QED
  BY <1>1, <1>2

(* FlattenSeq of one more sequence.                                        *)
LEMMA FlattenAppend ==
  ASSUME NEW S, NEW s \in Seq(Seq(S)), NEW x \in Seq(S)
  PROVE  FlattenSeq(Append(s, x)) = IF s = <<>> THEN x ELSE FlattenSeq(s) \o x
<1> DEFINE t == Append(s, x)
           n == Len(s)
<1>1. /\ n \in Nat /\ Len(t) = n + 1
      /\ \A i \in 1..n : s[i] = t[i]
      /\ t[n + 1] = x
      /\ s # <<>> => n # 0
  BY AppendProperties, LenProperties, EmptySeq
<1>2. PICK g : Joins(g, t, n + 1) /\ FlattenSeq(t) = g[n + 1]
  <2> HIDE DEF t
  <2>1. Len(t) \in Nat \ {0} /\ Len(t) = n + 1
    BY <1>1
  <2> HIDE DEF n
  <2> QED
    BY <2>1, FlattenJoins
<1>3. g[n + 1] = IF n + 1 = 1 THEN t[n + 1] ELSE g[n] \o t[n + 1]
  <2>1. \A i \in 1..(n + 1) : g[i] = IF i = 1 THEN t[i] ELSE g[i - 1] \o t[i]
    BY <1>2 DEF Joins
  <2> HIDE DEF t, n
  <2>2. (n + 1) - 1 = n
    BY <1>1
  <2> QED
    BY <1>1, <2>1, <2>2
<1>4. CASE s = <<>>
  BY <1>1, <1>2, <1>3, <1>4, EmptySeq
<1>5. CASE s # <<>>
  <2>1. PICK f : Joins(f, s, n) /\ FlattenSeq(s) = f[n]
    BY <1>1, <1>5, FlattenJoins
  <2>2. Agree(f, g, n)
    <3>1. n \in Nat /\ n + 1 \in Nat /\ n <= n + 1
      BY <1>1
    <3>2. Joins(f, s, n) /\ Joins(g, t, n + 1) /\ Agree(s, t, n)
      BY <1>1, <1>2, <2>1 DEF Agree
    <3> HIDE DEF t, n
    <3> QED
      BY <3>1, <3>2, JoinUnique
  <2>3. f[n] = g[n] /\ n + 1 # 1
    BY <1>1, <1>5, <2>2 DEF Agree
  <2> QED
    BY <1>1, <1>2, <1>3, <1>5, <2>1, <2>3
<1> QED
  BY <1>4, <1>5

(* The elements stay what they are.                                        *)
LEMMA FlattenType ==
  ASSUME NEW S
  PROVE  \A s \in Seq(Seq(S)) : FlattenSeq(s) \in Seq(S)
<1> DEFINE T == {n \in Nat : \A s \in Seq(Seq(S)) : Len(s) = n => FlattenSeq(s) \in Seq(S)}
<1>1. 0 \in T
  BY EmptySeq DEF FlattenSeq
<1>2. ASSUME NEW n \in T PROVE n + 1 \in T
  <2> SUFFICES ASSUME NEW t \in Seq(Seq(S)), Len(t) = n + 1 PROVE FlattenSeq(t) \in Seq(S)
    OBVIOUS
  <2>1. t # <<>>
    BY EmptySeq
  <2>2. PICK s \in Seq(Seq(S)), x \in Seq(S) : t = Append(s, x)
    BY <2>1, SequenceEmptyOrAppend
  <2>3. Len(s) = n
    BY <2>2, AppendProperties, LenProperties
  <2>4. FlattenSeq(s) \in Seq(S)
    BY <1>2, <2>3
  <2> HIDE DEF T
  <2> QED
    BY <2>2, <2>4, FlattenAppend, ConcatProperties
<1> HIDE DEF T
<1>3. T = Nat
  BY <1>1, <1>2, NatSetInduction DEF T
<1> QED
  BY <1>3, LenProperties DEF T

(* Where each sequence begins in them all, one after the other.            *)
Places(at, parts, text) ==
  /\ at \in [1..(Len(parts) + 1) -> Nat]
  /\ at[1] = 0
  /\ \A i \in 1..Len(parts) :
       /\ at[i + 1] = at[i] + Len(parts[i]) /\ at[i + 1] <= Len(text)
       /\ \A j \in 1..Len(parts[i]) : text[at[i] + j] = parts[i][j]
  /\ Len(text) = at[Len(parts) + 1]

(* Each of them has its place in FlattenSeq.                               *)
LEMMA FlattenPlaces ==
  ASSUME NEW S
  PROVE  \A s \in Seq(Seq(S)) : \E at : Places(at, s, FlattenSeq(s))
<1> DEFINE T == {n \in Nat : \A s \in Seq(Seq(S)) : Len(s) = n =>
                               \E at : Places(at, s, FlattenSeq(s))}
<1>1. 0 \in T
  <2> SUFFICES ASSUME NEW s \in Seq(Seq(S)), Len(s) = 0
               PROVE  \E at : Places(at, s, FlattenSeq(s))
    OBVIOUS
  <2>1. FlattenSeq(s) = s
    BY DEF FlattenSeq
  <2>2. Places([i \in 1..1 |-> 0], s, s)
    BY DEF Places
  <2> QED
    BY <2>1, <2>2
<1>2. ASSUME NEW n \in T PROVE n + 1 \in T
  <2> SUFFICES ASSUME NEW t \in Seq(Seq(S)), Len(t) = n + 1
               PROVE  \E at : Places(at, t, FlattenSeq(t))
    OBVIOUS
  <2>0. t # <<>>
    BY EmptySeq
  <2>1. PICK s \in Seq(Seq(S)), x \in Seq(S) : t = Append(s, x)
    BY <2>0, SequenceEmptyOrAppend
  <2>2. /\ Len(s) = n
        /\ \A i \in 1..n : t[i] = s[i]
        /\ t[n + 1] = x
    BY <2>1, AppendProperties, LenProperties
  <2>3. PICK at : Places(at, s, FlattenSeq(s))
    BY <2>2
  <2>4. FlattenSeq(s) \in Seq(S)
    BY FlattenType
  <2>5. PICK u : u = FlattenSeq(t) /\ IsJoin(u, FlattenSeq(s), x)
    <3>1. CASE s = <<>>
      <4>1. FlattenSeq(t) = x /\ FlattenSeq(s) = <<>>
        <5>1. FlattenSeq(<<>>) = <<>>
          BY EmptySeq DEF FlattenSeq
        <5> QED
          BY <2>1, <3>1, <5>1, FlattenAppend
      <4>2. <<>> \o x = x
        OBVIOUS
      <4>3. IsJoin(<<>> \o x, <<>>, x)
        <5>1. <<>> \in Seq(S)
          OBVIOUS
        <5> QED
          BY <5>1, JoinTwo
      <4> QED
        BY <4>1, <4>2, <4>3
    <3>2. CASE s # <<>>
      <4>1. FlattenSeq(t) = FlattenSeq(s) \o x
        BY <2>1, <3>2, FlattenAppend
      <4> QED
        BY <2>4, <4>1, JoinTwo
    <3> QED
      BY <3>1, <3>2
  <2> DEFINE v == FlattenSeq(s)
             new == [i \in 1..(n + 2) |-> IF i = n + 2 THEN at[n + 1] + Len(x) ELSE at[i]]
  <2>6. /\ at \in [1..(n + 1) -> Nat] /\ at[1] = 0 /\ Len(v) = at[n + 1]
        /\ \A i \in 1..n :
             /\ at[i + 1] = at[i] + Len(t[i]) /\ at[i + 1] <= Len(v)
             /\ \A j \in 1..Len(t[i]) : v[at[i] + j] = t[i][j]
    <3>1. \A i \in 1..n : s[i] = t[i]
      BY <2>2
    <3> HIDE DEF v
    <3>2. Places(at, s, v)
      BY <2>3 DEF v
    <3>3. /\ at \in [1..(Len(s) + 1) -> Nat] /\ at[1] = 0 /\ Len(v) = at[Len(s) + 1]
          /\ \A i \in 1..Len(s) :
               /\ at[i + 1] = at[i] + Len(s[i]) /\ at[i + 1] <= Len(v)
               /\ \A j \in 1..Len(s[i]) : v[at[i] + j] = s[i][j]
      BY <3>2 DEF Places
    <3>4. Len(s) = n
      BY <2>2
    <3> QED
      BY <3>1, <3>3, <3>4
  <2>7. /\ Len(u) = at[n + 1] + Len(x)
        /\ \A i \in 1..at[n + 1] : u[i] = v[i]
        /\ \A i \in 1..Len(x) : u[at[n + 1] + i] = x[i]
    BY <2>5, <2>6 DEF IsJoin
  <2> HIDE DEF v
  <2>8. Len(x) \in Nat /\ \A i \in 1..n : Len(t[i]) \in Nat
    BY ElementOfSeq, LenProperties
  <2>9. new \in [1..(n + 2) -> Nat] /\ new[1] = 0 /\ Len(u) = new[n + 2]
    BY <2>6, <2>7, <2>8
  <2>10. ASSUME NEW i \in 1..(n + 1)
         PROVE  /\ new[i + 1] = new[i] + Len(t[i]) /\ new[i + 1] <= Len(u)
                /\ \A j \in 1..Len(t[i]) : u[new[i] + j] = t[i][j]
    <3>1. CASE i = n + 1
      <4>1. new[i] = at[n + 1] /\ new[i + 1] = at[n + 1] + Len(x) /\ t[i] = x
        BY <2>2, <3>1
      <4>2. new[i + 1] = Len(u) /\ Len(u) \in Nat
        BY <2>6, <2>7, <2>8, <4>1
      <4> HIDE DEF new
      <4> QED
        BY <2>7, <4>1, <4>2
    <3>2. CASE i \in 1..n
      <4>1. new[i] = at[i] /\ new[i + 1] = at[i + 1]
        BY <2>6, <3>2
      <4>2. at[i] \in Nat /\ at[i + 1] \in Nat /\ at[n + 1] \in Nat /\ Len(t[i]) \in Nat
        BY <2>6, <2>8, <3>2
      <4>3. at[i + 1] = at[i] + Len(t[i]) /\ at[i + 1] <= at[n + 1]
        BY <2>6, <3>2
      <4> HIDE DEF new
      <4>4. new[i + 1] = new[i] + Len(t[i]) /\ new[i + 1] <= Len(u)
        BY <2>7, <2>8, <4>1, <4>2, <4>3
      <4>5. ASSUME NEW j \in 1..Len(t[i]) PROVE u[new[i] + j] = t[i][j]
        <5>1. at[i] + j \in 1..at[n + 1]
          BY <4>2, <4>3
        <5>2. v[at[i] + j] = t[i][j]
          BY <2>6, <3>2
        <5> QED
          BY <2>7, <4>1, <5>1, <5>2
      <4> QED
        BY <4>4, <4>5
    <3>3. i = n + 1 \/ i \in 1..n
      OBVIOUS
    <3> HIDE DEF new
    <3> QED
      BY <3>1, <3>2, <3>3
  <2> HIDE DEF new
  <2>11. Places(new, t, u)
    BY <2>9, <2>10 DEF Places
  <2> QED
    BY <2>5, <2>11
<1> HIDE DEF T
<1>3. T = Nat
  BY <1>1, <1>2, NatSetInduction DEF T
<1> QED
  BY <1>3, LenProperties DEF T

(* The same between a head and a tail.                                     *)
Framed(at, head, parts, tail, text) ==
  /\ text = head \o FlattenSeq(parts) \o tail
  /\ at \in [1..(Len(parts) + 1) -> Nat]
  /\ at[1] = Len(head)
  /\ \A j \in 1..Len(head) : text[j] = head[j]
  /\ \A i \in 1..Len(parts) :
       /\ at[i + 1] = at[i] + Len(parts[i]) /\ at[i + 1] <= at[Len(parts) + 1]
       /\ \A j \in 1..Len(parts[i]) : text[at[i] + j] = parts[i][j]
  /\ Len(text) = at[Len(parts) + 1] + Len(tail)
  /\ \A j \in 1..Len(tail) : text[at[Len(parts) + 1] + j] = tail[j]

(* Each has its place between a head and a tail, too.                      *)
LEMMA FramedPlaces ==
  ASSUME NEW S, NEW head \in Seq(S), NEW parts \in Seq(Seq(S)), NEW tail \in Seq(S)
  PROVE  \E text, at : text \in Seq(S) /\ Framed(at, head, parts, tail, text)
<1> DEFINE mid == FlattenSeq(parts)
           n == Len(parts)
<1>1. mid \in Seq(S)
  BY FlattenType
<1>2. PICK p : Places(p, parts, mid)
  BY FlattenPlaces
<1> HIDE DEF mid
<1>3. PICK u \in Seq(S) : u = head \o mid /\ IsJoin(u, head, mid)
  BY <1>1, JoinTwo
<1>4. PICK t \in Seq(S) : t = u \o tail /\ IsJoin(t, u, tail)
  BY JoinTwo
<1>5. /\ n \in Nat /\ Len(head) \in Nat /\ Len(mid) \in Nat /\ Len(tail) \in Nat
      /\ \A i \in 1..n : Len(parts[i]) \in Nat
  <2>1. \A i \in 1..n : parts[i] \in Seq(S)
    BY ElementOfSeq
  <2> QED
    BY <1>1, <2>1, LenProperties
<1>6. /\ p \in [1..(n + 1) -> Nat] /\ p[1] = 0 /\ Len(mid) = p[n + 1]
      /\ \A i \in 1..n : /\ p[i + 1] = p[i] + Len(parts[i]) /\ p[i + 1] <= Len(mid)
                         /\ \A j \in 1..Len(parts[i]) : mid[p[i] + j] = parts[i][j]
  BY <1>2 DEF Places
<1>7. /\ Len(u) = Len(head) + Len(mid)
      /\ \A i \in 1..Len(head) : u[i] = head[i]
      /\ \A i \in 1..Len(mid) : u[Len(head) + i] = mid[i]
  BY <1>3 DEF IsJoin
<1>8. /\ Len(t) = Len(u) + Len(tail)
      /\ \A i \in 1..Len(u) : t[i] = u[i]
      /\ \A i \in 1..Len(tail) : t[Len(u) + i] = tail[i]
  BY <1>4 DEF IsJoin
<1> DEFINE at == [i \in 1..(n + 1) |-> Len(head) + p[i]]
<1>9. \A i \in 1..(n + 1) : at[i] = Len(head) + p[i] /\ p[i] \in Nat
  BY <1>6
<1>10. at \in [1..(n + 1) -> Nat]
  BY <1>5, <1>6
<1> HIDE DEF n, at
<1>11. at[1] = Len(head) /\ at[n + 1] = Len(u)
  BY <1>5, <1>6, <1>7, <1>9
<1>12. \A j \in 1..Len(head) : t[j] = head[j]
  BY <1>5, <1>7, <1>8
<1>13. ASSUME NEW i \in 1..n
       PROVE  /\ at[i + 1] = at[i] + Len(parts[i]) /\ at[i + 1] <= at[n + 1]
              /\ \A j \in 1..Len(parts[i]) : t[at[i] + j] = parts[i][j]
  <2>1. i \in 1..(n + 1) /\ i + 1 \in 1..(n + 1) /\ n + 1 \in 1..(n + 1)
    BY <1>5
  <2>2. p[i + 1] = p[i] + Len(parts[i]) /\ p[i + 1] <= Len(mid)
    BY <1>6
  <2>3. at[i] = Len(head) + p[i] /\ at[i + 1] = Len(head) + p[i + 1] /\ p[i] \in Nat
    BY <1>9, <2>1
  <2>4. Len(parts[i]) \in Nat
    BY <1>5
  <2> DEFINE h == Len(head)
             m == Len(mid)
             l == Len(parts[i])
  <2>0. h \in Nat /\ m \in Nat /\ l \in Nat /\ Len(u) = h + m
    BY <1>5, <1>7
  <2>5. at[i + 1] = at[i] + l /\ at[i + 1] <= at[n + 1]
    <3>1. at[n + 1] = h + m
      BY <1>11, <2>0
    <3>2. /\ p[i] \in Nat /\ p[i + 1] = p[i] + l /\ p[i + 1] <= m
          /\ at[i] = h + p[i] /\ at[i + 1] = h + p[i + 1]
      BY <2>2, <2>3
    <3> HIDE DEF h, m, l
    <3> QED
      BY <2>0, <3>1, <3>2
  <2>6. ASSUME NEW j \in 1..Len(parts[i]) PROVE t[at[i] + j] = parts[i][j]
    <3>1. p[i] + j \in 1..Len(mid)
      <4>1. p[i] \in Nat /\ p[i + 1] = p[i] + l /\ p[i + 1] <= m /\ j \in 1..l
        BY <2>2, <2>3
      <4>2. p[i] + j \in 1..m
        <5>1. \A x, y, k \in Nat : x + y <= m /\ k \in 1..y => x + k \in 1..m
          BY <2>0
        <5> DEFINE x == p[i]
        <5>2. x \in Nat /\ x + l <= m /\ j \in 1..l
          BY <4>1
        <5> HIDE DEF x, l, m
        <5>3. x + j \in 1..m
          BY <2>0, <5>1, <5>2
        <5> QED
          BY <5>3 DEF x
      <4> QED
        BY <4>2
    <3>2. at[i] + j = Len(head) + (p[i] + j) /\ at[i] + j \in 1..Len(u)
      <4>1. at[i] = h + p[i] /\ p[i] \in Nat /\ p[i] + j \in 1..m /\ j \in Nat
        BY <2>3, <2>4, <3>1
      <4>2. at[i] + j = h + (p[i] + j) /\ at[i] + j \in 1..(h + m)
        <5>1. \A x, k \in Nat : x + k \in 1..m =>
                (h + x) + k = h + (x + k) /\ (h + x) + k \in 1..(h + m)
          BY <2>0
        <5> QED
          BY <4>1, <5>1
      <4> QED
        BY <2>0, <4>2
    <3>3. mid[p[i] + j] = parts[i][j]
      BY <1>6
    <3>4. u[Len(head) + (p[i] + j)] = mid[p[i] + j]
      BY <1>7, <3>1
    <3> QED
      BY <1>8, <3>2, <3>3, <3>4
  <2> QED
    BY <2>5, <2>6
<1>14. t = head \o mid \o tail
  BY <1>3, <1>4
<1>15. Framed(at, head, parts, tail, t)
  <2>1. /\ Len(t) = at[n + 1] + Len(tail)
        /\ \A j \in 1..Len(tail) : t[at[n + 1] + j] = tail[j]
    BY <1>8, <1>11
  <2> QED
    BY <1>10, <1>11, <1>12, <1>13, <1>14, <2>1 DEF Framed, mid, n
<1> QED
  BY <1>15

===============================================================================
