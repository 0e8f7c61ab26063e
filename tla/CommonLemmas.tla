---------------------------- MODULE CommonLemmas ---------------------------
(***************************************************************************)
(* Lemmas that several proofs need.  Sequences used as queues: what a push *)
(* at the end and a pop at the front do to the elements and to their being *)
(* all different.  Induction on the natural numbers, over a set instead of *)
(* a predicate, and the functions it defines.  Division.                   *)
(***************************************************************************)
EXTENDS Integers, Sequences, WellFoundedInduction, TLAPS

Elements(s) == {s[i] : i \in DOMAIN s}
Distinct(s) == \A i, j \in DOMAIN s : s[i] = s[j] => i = j

LEMMA AppendFacts ==
  ASSUME NEW S, NEW s \in Seq(S), NEW e \in S
  PROVE  /\ Append(s, e) \in Seq(S)
         /\ Append(s, e) # <<>>
         /\ Len(Append(s, e)) = Len(s) + 1
         /\ Elements(Append(s, e)) = Elements(s) \cup {e}
         /\ Distinct(s) /\ e \notin Elements(s) => Distinct(Append(s, e))
<1> DEFINE t == Append(s, e)
<1>1. /\ t \in Seq(S)
      /\ Len(t) = Len(s) + 1
      /\ t # <<>>
      /\ \A i \in 1 .. Len(s) : t[i] = s[i]
      /\ t[Len(s) + 1] = e
  OBVIOUS
<1>2. /\ DOMAIN s = 1 .. Len(s)
      /\ DOMAIN t = 1 .. (Len(s) + 1)
      /\ Len(s) \in Nat
  BY <1>1
<1> HIDE DEF t
<1>3. DOMAIN t = DOMAIN s \cup {Len(s) + 1}
  BY <1>2
<1>4. Elements(t) = Elements(s) \cup {e}
  <2>1. \A i \in DOMAIN s : t[i] = s[i] /\ i \in DOMAIN t
    BY <1>1, <1>2, <1>3
  <2>2. \A i \in DOMAIN t : i \in DOMAIN s \/ t[i] = e
    BY <1>1, <1>3
  <2>3. \E i \in DOMAIN t : t[i] = e
    BY <1>1, <1>3
  <2>4. ASSUME NEW x \in Elements(t) PROVE x \in Elements(s) \cup {e}
    BY <2>1, <2>2 DEF Elements
  <2>5. ASSUME NEW x \in Elements(s) \cup {e} PROVE x \in Elements(t)
    BY <2>1, <2>3 DEF Elements
  <2> QED
    BY <2>4, <2>5
<1>5. Distinct(s) /\ e \notin Elements(s) => Distinct(t)
  <2> SUFFICES ASSUME Distinct(s), e \notin Elements(s),
                      NEW i \in DOMAIN t, NEW j \in DOMAIN t, t[i] = t[j]
               PROVE  i = j
    BY DEF Distinct
  <2>1. \A k \in DOMAIN s : s[k] # e
    BY DEF Elements
  <2> QED
    BY <1>1, <1>2, <1>3, <2>1 DEF Distinct
<1> QED
  BY <1>1, <1>4, <1>5 DEF t

LEMMA TailFacts ==
  ASSUME NEW S, NEW s \in Seq(S), s # <<>>
  PROVE  /\ Tail(s) \in Seq(S)
         /\ Head(s) \in S
         /\ Len(Tail(s)) = Len(s) - 1
         /\ Head(s) \in Elements(s)
         /\ Elements(s) = Elements(Tail(s)) \cup {Head(s)}
         /\ Distinct(s) => Distinct(Tail(s)) /\ Head(s) \notin Elements(Tail(s))
<1> DEFINE t == Tail(s)
<1>1. /\ t \in Seq(S)
      /\ Len(t) = Len(s) - 1
      /\ Head(s) = s[1]
      /\ Head(s) \in S
      /\ \A i \in 1 .. Len(t) : t[i] = s[i + 1]
      /\ Len(s) \in Nat \ {0}
      /\ Len(t) \in Nat
  OBVIOUS
<1>2. /\ DOMAIN s = 1 .. Len(s)
      /\ DOMAIN t = 1 .. Len(t)
  BY <1>1
<1> HIDE DEF t
<1>3. 1 \in DOMAIN s /\ \A i \in DOMAIN t : i + 1 \in DOMAIN s /\ i + 1 # 1
  BY <1>1, <1>2
<1>4. \A k \in DOMAIN s : k = 1 \/ \E i \in DOMAIN t : k = i + 1
  <2> SUFFICES ASSUME NEW k \in DOMAIN s, k # 1
               PROVE  \E i \in DOMAIN t : k = i + 1
    OBVIOUS
  <2>1. k - 1 \in DOMAIN t /\ k = (k - 1) + 1
    BY <1>1, <1>2
  <2> QED
    BY <2>1
<1>5. Head(s) \in Elements(s)
  BY <1>1, <1>3 DEF Elements
<1>6. \A i \in DOMAIN t : t[i] = s[i + 1]
  BY <1>1, <1>2
<1>7. Elements(s) = Elements(t) \cup {Head(s)}
  <2>1. ASSUME NEW x \in Elements(s) PROVE x \in Elements(t) \cup {Head(s)}
    BY <1>1, <1>4, <1>6 DEF Elements
  <2>2. ASSUME NEW x \in Elements(t) PROVE x \in Elements(s)
    BY <1>3, <1>6 DEF Elements
  <2> QED
    BY <1>5, <2>1, <2>2
<1>8. ASSUME Distinct(s) PROVE Distinct(t) /\ Head(s) \notin Elements(t)
  <2>1. Head(s) \notin Elements(t)
    BY <1>1, <1>2, <1>3, <1>8 DEF Elements, Distinct
  <2>2. ASSUME NEW i \in DOMAIN t, NEW j \in DOMAIN t, t[i] = t[j] PROVE i = j
    <3>1. s[i + 1] = s[j + 1] /\ i \in Nat /\ j \in Nat
      BY <1>1, <1>2, <2>2
    <3>2. i + 1 = j + 1
      BY <1>3, <1>8, <3>1 DEF Distinct
    <3> QED
      BY <3>1, <3>2
  <2> QED
    BY <2>1, <2>2 DEF Distinct
<1> QED
  BY <1>1, <1>5, <1>7, <1>8 DEF t

-----------------------------------------------------------------------------
(* The induction principle for a set of natural numbers.                   *)
LEMMA NatSetInduction ==
  ASSUME NEW S, 0 \in S, \A n \in Nat : n \in S => n + 1 \in S
  PROVE  Nat \subseteq S
<1> DEFINE T == Nat \ S
           R == OpToRel(<, Nat)
<1>1. SUFFICES ASSUME T # {} PROVE FALSE
  OBVIOUS
<1>2. IsWellFoundedOn(R, Nat)
  BY NatLessThanWellFounded, Zenon
<1>3. T \subseteq Nat
  OBVIOUS
<1>4. PICK x \in T : \A y \in T : ~ (<<y, x>> \in R)
  <2> HIDE DEF T, R
  <2> QED BY <1>1, <1>2, <1>3, WFMin
<1>5. \A y \in T : ~ (y < x)
  BY <1>3, <1>4 DEF OpToRel
<1>6. x \in Nat /\ x # 0
  OBVIOUS
<1>7. x - 1 \in Nat /\ x - 1 < x /\ (x - 1) + 1 = x
  BY <1>6
<1>8. x - 1 \in S
  BY <1>5, <1>7
<1> QED
  BY <1>7, <1>8

(* A first value and a step define a function on the natural numbers: the  *)
(* definitions by recursion of the modules satisfy their equations.        *)
LEMMA NatRecursion ==
  ASSUME NEW V, NEW first \in V, NEW F \in [Nat -> [V -> V]]
  PROVE  \E f \in [Nat -> V] :
           f[0] = first /\ \A n \in Nat : f[n + 1] = F[n][f[n]]
<1> DEFINE Starts(n, g) == /\ g \in [0 .. n -> V]
                           /\ g[0] = first
                           /\ \A i \in 0 .. n - 1 : g[i + 1] = F[i][g[i]]
           Approximated == {n \in Nat : \E g : Starts(n, g)}
           Best == [n \in Nat |-> CHOOSE g : Starts(n, g)]
           f == [n \in Nat |-> Best[n][n]]
<1>1. \A n \in Nat : \E g : Starts(n, g)
  <2>1. 0 \in Approximated
    <3>1. Starts(0, [i \in 0 .. 0 |-> first])
      OBVIOUS
    <3> QED
      BY <3>1
  <2>2. ASSUME NEW n \in Nat, n \in Approximated PROVE n + 1 \in Approximated
    <3>1. PICK g : Starts(n, g)
      BY <2>2
    <3> DEFINE h == [i \in 0 .. n + 1 |-> IF i = n + 1 THEN F[n][g[n]] ELSE g[i]]
    <3>2. g[n] \in V /\ F[n][g[n]] \in V
      BY <3>1
    <3>3. h \in [0 .. n + 1 -> V] /\ h[0] = first
      BY <3>1, <3>2
    <3>4. ASSUME NEW i \in 0 .. (n + 1) - 1 PROVE h[i + 1] = F[i][h[i]]
      <4>1. i \in 0 .. n /\ h[i] = g[i]
        OBVIOUS
      <4>2. CASE i = n
        BY <4>1, <4>2
      <4>3. CASE i # n
        <5>1. i \in 0 .. n - 1 /\ h[i + 1] = g[i + 1]
          BY <4>1, <4>3
        <5> QED
          BY <3>1, <4>1, <5>1
      <4> QED
        BY <4>2, <4>3
    <3>5. Starts(n + 1, h)
      <4> HIDE DEF h
      <4> QED BY <3>3, <3>4
    <3> HIDE DEF h, Starts
    <3> QED
      BY <3>5
  <2> HIDE DEF Starts
  <2>3. Nat \subseteq Approximated
    <3> HIDE DEF Approximated
    <3> QED BY <2>1, <2>2, NatSetInduction
  <2> QED
    BY <2>3
<1>2. \A n \in Nat : Starts(n, Best[n])
  <2> HIDE DEF Starts
  <2> QED BY <1>1
<1>3. ASSUME NEW n \in Nat, NEW g, NEW h, Starts(n, g), Starts(n + 1, h)
      PROVE  g[n] = h[n]
  <2> DEFINE Agree == {i \in Nat : i <= n => g[i] = h[i]}
  <2>1. 0 \in Agree
    BY <1>3
  <2>2. ASSUME NEW i \in Nat, i \in Agree PROVE i + 1 \in Agree
    <3>1. SUFFICES ASSUME i + 1 <= n PROVE g[i + 1] = h[i + 1]
      OBVIOUS
    <3>2. i \in 0 .. n - 1 /\ i \in 0 .. (n + 1) - 1 /\ g[i] = h[i]
      BY <2>2, <3>1
    <3> QED
      BY <1>3, <3>2
  <2>3. Nat \subseteq Agree
    <3> HIDE DEF Agree
    <3> QED BY <2>1, <2>2, NatSetInduction
  <2> QED
    BY <2>3
<1>4. \A n \in Nat : Best[n][n] \in V
  <2> HIDE DEF Best
  <2> QED BY <1>2
<1>5. Best[0][0] = first
  <2> HIDE DEF Best
  <2> QED BY <1>2
<1>6. ASSUME NEW n \in Nat PROVE Best[n + 1][n + 1] = F[n][Best[n][n]]
  <2> HIDE DEF Best
  <2>1. Best[n][n] = Best[n + 1][n]
    <3>1. Starts(n, Best[n]) /\ Starts(n + 1, Best[n + 1])
      <4> HIDE DEF Starts
      <4>1. n + 1 \in Nat
        OBVIOUS
      <4> QED BY <1>2, <4>1
    <3> HIDE DEF Starts
    <3> QED BY <1>3, <3>1
  <2>2. n \in 0 .. (n + 1) - 1
    OBVIOUS
  <2> QED
    BY <1>2, <2>1, <2>2
<1>7. f \in [Nat -> V] /\ f[0] = first /\ \A n \in Nat : f[n + 1] = F[n][f[n]]
  <2> HIDE DEF Best
  <2> QED BY <1>4, <1>5, <1>6
<1> QED
  BY <1>7

-----------------------------------------------------------------------------
(* Division rounds down: a part of a whole is at most the whole.           *)
LEMMA DivisionBound ==
  ASSUME NEW m \in Nat, m > 0, NEW k \in Nat, NEW y \in Nat, y <= m * k
  PROVE  y \div m \in 0 .. k
<1> DEFINE q == y \div m
<1>1. q \in Int /\ m * q <= y /\ y < m * (q + 1)
  OBVIOUS
<1> HIDE DEF q
<1>2. q \in Int
  BY <1>1
<1>3. q <= k
  <2>1. ASSUME q >= k + 1 PROVE FALSE
    <3>1. m * q >= m * (k + 1)
      BY <2>1, <1>2
    <3>2. m * (k + 1) = m * k + m
      OBVIOUS
    <3> QED
      BY <3>1, <3>2, <1>1, <1>2
  <2> QED
    BY <2>1, <1>2
<1>4. q >= 0
  <2>1. ASSUME q <= -1 PROVE FALSE
    <3>1. m * (q + 1) <= 0
      BY <2>1, <1>2
    <3> QED
      BY <3>1, <1>1, <1>2
  <2> QED
    BY <2>1, <1>2
<1>5. q \in 0 .. k
  BY <1>2, <1>3, <1>4
<1> QED
  BY <1>5 DEF q

LEMMA SmallMod ==
  ASSUME NEW m \in Nat, NEW x \in 0 .. m - 1
  PROVE  x % m = x
OBVIOUS

LEMMA DivisionRoundsDown ==
  ASSUME NEW m \in Nat, m > 0, NEW x \in Nat
  PROVE  x \div m \in Nat /\ (x \div m) * m <= x
<1>1. x \div m \in Nat /\ m * (x \div m) <= x
  OBVIOUS
<1>2. m * (x \div m) = (x \div m) * m
  BY <1>1
<1> QED
  BY <1>1, <1>2

LEMMA PartOfWhole ==
  ASSUME NEW m \in Nat, m > 0, NEW x \in 0 .. m, NEW k \in Nat
  PROVE  (k * x) \div m \in 0 .. k
<1>1. k * x \in Nat /\ k * x <= m * k
  OBVIOUS
<1> DEFINE y == k * x
<1> HIDE DEF y
<1>2. y \in Nat /\ y <= m * k
  BY <1>1 DEF y
<1>3. y \div m \in 0 .. k
  BY <1>2, DivisionBound
<1> QED
  BY <1>3 DEF y
=============================================================================
