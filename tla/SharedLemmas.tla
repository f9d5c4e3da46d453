----------------------------- MODULE SharedLemmas -----------------------------
(***************************************************************************)
(* What the proofs share: induction over the natural numbers and over      *)
(* finite sets in terms of sets, which the provers can instantiate, what   *)
(* it shows of the helpers of the models that are defined by recursion,    *)
(* and the arithmetic of division with a divisor that is any number.       *)
(***************************************************************************)
EXTENDS Selection, Integers, FiniteSetTheorems, WellFoundedInduction, TLAPS

(* A set of natural numbers has a least element: of the intervals from 0   *)
(* to its elements one is contained in no other.                           *)
LEMMA LeastNat ==
    ASSUME NEW S, S \subseteq Nat, S # {}
    PROVE  \E m \in S : \A n \in S : m <= n
<1> DEFINE T == {0..n : n \in S}
           R == StrictSubsetOrdering(Nat)
<1>1. T \subseteq FiniteSubsetsOf(Nat) /\ T # {}
  <2>1. \A n \in S : IsFiniteSet(0..n) /\ 0..n \in SUBSET Nat
    BY FS_Interval
  <2> QED BY <2>1 DEF FiniteSubsetsOf
<1>2. PICK x \in T : \A y \in T : ~(<<y, x>> \in R)
  BY <1>1, FS_StrictSubsetOrderingWellFounded, WFMin
<1>3. PICK m \in S : x = 0..m
  OBVIOUS
<1>4. ASSUME NEW n \in S, n < m PROVE FALSE
  <2>1. 0..n \subseteq x /\ 0..n # x /\ 0..n \subseteq Nat /\ x \subseteq Nat
    BY <1>3, <1>4
  <2>2. <<0..n, x>> \in R
    BY <2>1 DEF StrictSubsetOrdering
  <2> QED BY <2>2, <1>2
<1> QED BY <1>4

(* A set that has 0, and with each number the next, has them all.          *)
LEMMA SetInduction ==
    ASSUME NEW S, 0 \in S, \A n \in Nat : n \in S => n + 1 \in S
    PROVE  \A n \in Nat : n \in S
<1> SUFFICES ASSUME Nat \ S # {} PROVE FALSE
  OBVIOUS
<1>1. PICK m \in Nat \ S : \A n \in Nat \ S : m <= n
  BY LeastNat
<1>2. m - 1 \in Nat /\ (m - 1) + 1 = m
  OBVIOUS
<1>3. m - 1 \in S
  BY <1>1, <1>2
<1> QED BY <1>2, <1>3

Selects(f, seq, set, len) ==
    f = [i \in 0..len |->
            IF i = 0 THEN <<>>
            ELSE IF seq[i] \in set THEN Append(f[i - 1], seq[i]) ELSE f[i - 1]]

Elements(s) == {s[i] : i \in DOMAIN s}

(* The function that Selected is defined by exists.                        *)
LEMMA SelectionExists ==
    ASSUME NEW seq, NEW set, NEW len \in Nat
    PROVE  \E f : Selects(f, seq, set, len)
<1> USE DEF Selects
<1> DEFINE Next(f, i) == IF seq[i] \in set THEN Append(f[i - 1], seq[i]) ELSE f[i - 1]
           Is(f, n) == f = [i \in 0..n |-> IF i = 0 THEN <<>> ELSE Next(f, i)]
           S == {n \in Nat : \E f : Is(f, n)}
<1>1. 0 \in S
  <2>1. Is([i \in 0..0 |-> <<>>], 0)
    OBVIOUS
  <2> QED BY <2>1
<1>2. ASSUME NEW n \in Nat, n \in S PROVE n + 1 \in S
  <2>1. PICK f : Is(f, n)
    BY <1>2
  <2> DEFINE last == IF seq[n + 1] \in set THEN Append(f[n], seq[n + 1]) ELSE f[n]
             g == [i \in 0..(n + 1) |-> IF i = n + 1 THEN last ELSE f[i]]
  <2>2. \A i \in 0..(n + 1) : g[i] = IF i = 0 THEN <<>> ELSE Next(g, i)
    <3> SUFFICES ASSUME NEW i \in 0..(n + 1) PROVE g[i] = IF i = 0 THEN <<>> ELSE Next(g, i)
      OBVIOUS
    <3>1. CASE i = n + 1
      <4>1. i # 0 /\ i - 1 = n /\ i - 1 \in 0..(n + 1) /\ i - 1 # n + 1
        BY <3>1
      <4>2. g[i - 1] = f[n]
        BY <4>1
      <4> QED BY <3>1, <4>1, <4>2
    <3>2. CASE i # n + 1 /\ i # 0
      <4>1. i \in 0..n /\ i - 1 \in 0..(n + 1) /\ i - 1 # n + 1
        BY <3>2
      <4>2. g[i] = f[i] /\ g[i - 1] = f[i - 1] /\ f[i] = Next(f, i)
        BY <2>1, <3>2, <4>1
      <4> QED BY <3>2, <4>2
    <3>3. CASE i = 0
      <4>1. 0 \in 0..n /\ 0 # n + 1
        OBVIOUS
      <4>2. f[0] = <<>>
        BY <2>1, <4>1
      <4> QED BY <3>3, <4>1, <4>2
    <3> QED BY <3>1, <3>2, <3>3
  <2>3. Is(g, n + 1)
    <3> HIDE DEF Next
    <3> DEFINE h == [i \in 0..(n + 1) |-> IF i = 0 THEN <<>> ELSE Next(g, i)]
    <3>1. DOMAIN g = DOMAIN h /\ \A i \in DOMAIN g : g[i] = h[i]
      BY <2>2
    <3>2. g = h
      BY <3>1
    <3> QED BY <3>2
  <2> HIDE DEF Is, g
  <2>4. \E h : Is(h, n + 1)
    BY <2>3
  <2> QED BY <2>4
<1> HIDE DEF S
<1>3. len \in S
  BY <1>1, <1>2, SetInduction
<1> QED BY <1>3 DEF S

(* An element that is appended joins the others.                           *)
LEMMA AppendedElements ==
    ASSUME NEW X, NEW s \in Seq(X), NEW x \in X
    PROVE  Elements(Append(s, x)) = Elements(s) \union {x}
<1> USE DEF Elements
<1> DEFINE t == Append(s, x)
<1>1. /\ t \in Seq(X) /\ Len(s) \in Nat /\ Len(t) = Len(s) + 1
      /\ \A i \in 1..Len(s) : t[i] = s[i]
      /\ t[Len(s) + 1] = x
  OBVIOUS
<1>2. DOMAIN s = 1..Len(s) /\ DOMAIN t = 1..(Len(s) + 1)
  BY <1>1
<1> HIDE DEF t
<1>3. \A i : i \in 1..(Len(s) + 1) <=> i \in 1..Len(s) \/ i = Len(s) + 1
  BY <1>1
<1>4. {t[i] : i \in DOMAIN t} = {s[i] : i \in DOMAIN s} \union {x}
  BY <1>1, <1>2, <1>3
<1> QED BY <1>4 DEF t

(* What a filter leaves: the elements that are in the set, and only those. *)
LEMMA SelectedIs ==
    ASSUME NEW X, NEW seq \in Seq(X), NEW set
    PROVE  /\ Selected(seq, set) \in Seq(X)
           /\ Elements(Selected(seq, set)) = Elements(seq) \intersect set
<1> DEFINE len == Len(seq)
           f == CHOOSE g : Selects(g, seq, set, len)
<1>1. len \in Nat /\ DOMAIN seq = 1..len /\ \A i \in 1..len : seq[i] \in X
  OBVIOUS
<1>2. Selected(seq, set) = f[len]
  BY DEF Selected, Selects
<1>3. Selects(f, seq, set, len)
  BY <1>1, SelectionExists
<1> HIDE DEF f, len
<1> DEFINE S == {n \in Nat : n <= len =>
                    f[n] \in Seq(X) /\ Elements(f[n]) = {seq[i] : i \in 1..n} \intersect set}
<1>4. 0 \in S
  <2>1. 0 \in 0..len
    BY <1>1
  <2>2. f[0] = <<>>
    BY <1>3, <2>1 DEF Selects
  <2>3. Elements(<<>>) = {} /\ {seq[i] : i \in 1..0} = {} /\ <<>> \in Seq(X)
    BY DEF Elements
  <2> QED BY <2>2, <2>3
<1>5. ASSUME NEW n \in Nat, n \in S PROVE n + 1 \in S
  <2> SUFFICES ASSUME n + 1 <= len
               PROVE  /\ f[n + 1] \in Seq(X)
                      /\ Elements(f[n + 1]) = {seq[i] : i \in 1..(n + 1)} \intersect set
    <3> QED OBVIOUS
  <2>1. n <= len /\ n + 1 \in 1..len /\ n + 1 \in 0..len /\ n + 1 # 0 /\ (n + 1) - 1 = n
    BY <1>1
  <2>2. f[n] \in Seq(X) /\ Elements(f[n]) = {seq[i] : i \in 1..n} \intersect set
    BY <1>5, <2>1
  <2>3. f[n + 1] = IF seq[n + 1] \in set THEN Append(f[n], seq[n + 1]) ELSE f[n]
    BY <1>3, <2>1 DEF Selects
  <2>4. seq[n + 1] \in X
    BY <1>1, <2>1
  <2>5. {seq[i] : i \in 1..(n + 1)} = {seq[i] : i \in 1..n} \union {seq[n + 1]}
    <3>1. \A i : i \in 1..(n + 1) <=> i \in 1..n \/ i = n + 1
      OBVIOUS
    <3> QED BY <3>1
  <2>6. CASE seq[n + 1] \in set
    <3>1. f[n + 1] = Append(f[n], seq[n + 1])
      BY <2>3, <2>6
    <3>2. Append(f[n], seq[n + 1]) \in Seq(X)
      BY <2>2, <2>4
    <3>3. Elements(Append(f[n], seq[n + 1])) = Elements(f[n]) \union {seq[n + 1]}
      <4> HIDE DEF S
      <4> QED BY <2>2, <2>4, AppendedElements
    <3> QED BY <2>2, <2>5, <2>6, <3>1, <3>2, <3>3
  <2>7. CASE seq[n + 1] \notin set
    <3> QED BY <2>2, <2>3, <2>5, <2>7
  <2> QED BY <2>6, <2>7
<1> HIDE DEF S
<1>6. len \in S
  BY <1>1, <1>4, <1>5, SetInduction
<1>7. len <= len
  BY <1>1
<1>8. {seq[i] : i \in 1..len} = Elements(seq)
  BY <1>1 DEF Elements
<1>9. f[len] \in Seq(X) /\ Elements(f[len]) = {seq[i] : i \in 1..len} \intersect set
  <2> QED BY <1>6, <1>7 DEF S
<1> QED BY <1>2, <1>8, <1>9

-----------------------------------------------------------------------------
(* Division.                                                               *)

(* Multiplication keeps the order.                                         *)
LEMMA ProductGrows ==
    ASSUME NEW a \in Int, NEW b \in Int, NEW c \in Nat, a <= b
    PROVE  a * c <= b * c
OBVIOUS

(* The next product, and the one before.                                   *)
LEMMA NextProduct ==
    ASSUME NEW a \in Int, NEW c \in Int
    PROVE  a * c \in Int /\ (a + 1) * c = a * c + c /\ (a - 1) * c = a * c - c
OBVIOUS

(* A number that is a multiple of the divisor and a rest below it says     *)
(* what quotient and rest are.                                             *)
LEMMA DivUnique ==
    ASSUME NEW a \in Int, NEW b \in Nat \ {0}, NEW q \in Int, NEW r \in 0..(b - 1),
           a = q * b + r
    PROVE  a \div b = q /\ a % b = r
OBVIOUS

(* Quotient and rest of a natural number: there is such a multiple, by     *)
(* induction.                                                              *)
LEMMA DivMod ==
    ASSUME NEW a \in Nat, NEW b \in Nat \ {0}
    PROVE  /\ a \div b \in Nat /\ a % b \in 0..(b - 1)
           /\ a = (a \div b) * b + (a % b)
<1> DEFINE q == a \div b
<1>1. q \in Nat /\ q * b <= a /\ a < q * b + b
  OBVIOUS
<1> HIDE DEF q
<1>2. q * b \in Int
  BY <1>1
<1> DEFINE r == a - q * b
<1>3. r \in 0..(b - 1) /\ a = q * b + r
  BY <1>1, <1>2
<1> HIDE DEF r
<1>4. a % b = r
  BY <1>1, <1>3, DivUnique
<1>5. a % b \in 0..(b - 1) /\ a = q * b + (a % b)
  BY <1>3, <1>4, Zenon
<1> QED BY <1>1, <1>5 DEF q

(* The next number has the same quotient, or the next one and no rest.     *)
LEMMA DivNext ==
    ASSUME NEW a \in Nat, NEW b \in Nat \ {0}
    PROVE  \/ (a + 1) \div b = a \div b
           \/ (a + 1) \div b = a \div b + 1 /\ (a + 1) % b = 0 /\ a + 1 = (a \div b + 1) * b
<1> DEFINE q == a \div b
           r == a % b
<1>1. q \in Nat /\ r \in 0..(b - 1) /\ a = q * b + r
  BY DivMod
<1>2. (q + 1) * b = q * b + b /\ q * b \in Int
  BY <1>1, NextProduct
<1> HIDE DEF q, r
<1>3. CASE r < b - 1
  <2>1. r + 1 \in 0..(b - 1) /\ a + 1 = q * b + (r + 1)
    BY <1>1, <1>2, <1>3
  <2>2. (a + 1) \div b = q
    BY <1>1, <2>1, DivUnique
  <2> QED BY <2>2 DEF q
<1>4. CASE r = b - 1
  <2>1. 0 \in 0..(b - 1) /\ a + 1 = (q + 1) * b + 0 /\ q + 1 \in Int
    BY <1>1, <1>2, <1>4
  <2>2. (a + 1) \div b = q + 1 /\ (a + 1) % b = 0
    BY <2>1, DivUnique
  <2> QED BY <2>1, <2>2 DEF q
<1> QED BY <1>1, <1>3, <1>4

(* Whole multiples come out of a quotient.                                 *)
LEMMA DivShift ==
    ASSUME NEW a \in Nat, NEW b \in Nat \ {0}, NEW c \in Int
    PROVE  (a - c * b) \div b = a \div b - c
<1> DEFINE q == a \div b
           r == a % b
<1>1. q \in Nat /\ r \in 0..(b - 1) /\ a = q * b + r
  BY DivMod
<1> HIDE DEF q, r
<1>2. (q - c) * b = q * b - c * b /\ q - c \in Int /\ c * b \in Int
  BY <1>1
<1>3. a - c * b = (q - c) * b + r /\ a - c * b \in Int
  BY <1>1, <1>2
<1>4. (a - c * b) \div b = q - c
  BY <1>1, <1>2, <1>3, DivUnique
<1> QED BY <1>4 DEF q

(* The first day of the week of a moment, counted in days.                 *)
LEMMA FirstDay ==
    ASSUME NEW n \in Nat, NEW dt \in Nat \ {0}, NEW dw \in Nat \ {0}
    PROVE  (n - ((n \div dt) % dw) * dt) \div dt = n \div dt - ((n \div dt) % dw)
<1> DEFINE c == (n \div dt) % dw
<1>1. c \in Int
  <2>1. n \div dt \in Nat
    BY DivMod
  <2> QED BY <2>1, DivMod
<1> HIDE DEF c
<1>2. (n - c * dt) \div dt = n \div dt - c
  BY <1>1, DivShift
<1> QED BY <1>2 DEF c

(* The first day of a week, computed the way the code does for a host      *)
(* whose clock is UTC.                                                     *)
LEMMA WeekMoves ==
    ASSUME NEW n \in Nat, NEW dt \in Nat \ {0}, NEW dw \in Nat \ {0}
    PROVE  LET first(m) == (m - ((m \div dt) % dw) * dt) \div dt
           IN  /\ first(n) \in Int /\ first(n) <= first(n + 1)
               /\ first(n + 1) # first(n) => (n + 1) % (dt * dw) = 0
<1> DEFINE first(m) == (m - ((m \div dt) % dw) * dt) \div dt
           d == n \div dt
           e == (n + 1) \div dt
<1>1. d \in Nat /\ e \in Nat
  BY DivMod
<1>2. d % dw \in 0..(dw - 1) /\ e % dw \in 0..(dw - 1) /\ d \div dw \in Nat
      /\ d = (d \div dw) * dw + (d % dw) /\ e = (e \div dw) * dw + (e % dw)
  BY <1>1, DivMod
<1>3. first(n) = d - (d % dw) /\ first(n + 1) = e - (e % dw)
  <2>1. n + 1 \in Nat
    OBVIOUS
  <2>2. first(n) = d - (d % dw)
    BY FirstDay, Zenon
  <2>3. first(n + 1) = e - (e % dw)
    BY <2>1, FirstDay, Zenon
  <2> QED BY <2>2, <2>3
<1>4. e = d \/ (e = d + 1 /\ n + 1 = (d + 1) * dt)
  <2>1. \/ e = d
        \/ e = d + 1 /\ n + 1 = (d + 1) * dt
    BY DivNext
  <2> QED BY <2>1, Zenon
<1> HIDE DEF first, d, e
<1>5. CASE e = d
  BY <1>1, <1>2, <1>3, <1>5 DEF first
<1>6. CASE e = d + 1 /\ n + 1 = (d + 1) * dt
  <2>1. \/ e \div dw = d \div dw
        \/ e \div dw = d \div dw + 1 /\ e % dw = 0 /\ e = (d \div dw + 1) * dw
    BY <1>1, <1>6, DivNext
  <2>2. CASE e \div dw = d \div dw
    <3>1. e - (e % dw) = d - (d % dw)
      BY <1>1, <1>2, <2>2
    <3> QED BY <1>1, <1>2, <1>3, <3>1 DEF first
  <2>3. CASE e \div dw = d \div dw + 1 /\ e % dw = 0 /\ e = (d \div dw + 1) * dw
    <3> DEFINE q == d \div dw + 1
    <3>1. q \in Nat /\ e = q * dw
      <4>1. d \div dw \in Nat
        BY <1>2
      <4> HIDE DEF d
      <4> QED BY <4>1, <2>3
    <3> HIDE DEF q
    <3>2. n + 1 = q * (dt * dw) + 0 /\ dt * dw \in Nat \ {0} /\ n + 1 \in Int
      <4>1. d + 1 = q * dw
        BY <1>6, <3>1
      <4>2. n + 1 = (q * dw) * dt
        BY <1>6, <4>1, Zenon
      <4> QED BY <3>1, <4>2
    <3>3. 0 \in 0..(dt * dw - 1)
      BY <3>2
    <3>4. (n + 1) % (dt * dw) = 0
      BY <3>1, <3>2, <3>3, DivUnique, SMTT(30)
    <3>5. d - (d % dw) <= e - (e % dw)
      BY <1>1, <1>2, <1>6, <2>3
    <3> QED BY <1>1, <1>2, <1>3, <3>4, <3>5 DEF first
  <2> QED BY <2>1, <2>2, <2>3
<1> QED BY <1>4, <1>5, <1>6 DEF first

(* The quotient of any integer.                                            *)
LEMMA DivBetween ==
    ASSUME NEW a \in Int, NEW b \in Nat \ {0}
    PROVE  a \div b \in Int /\ (a \div b) * b <= a /\ a < (a \div b) * b + b
OBVIOUS

(* The rest of any integer.                                                *)
LEMMA ModBetween ==
    ASSUME NEW a \in Int, NEW b \in Nat \ {0}
    PROVE  a % b \in 0..(b - 1) /\ a = (a \div b) * b + (a % b)
OBVIOUS

(* The quotient is where the number lies between two multiples.            *)
LEMMA DivIs ==
    ASSUME NEW a \in Int, NEW b \in Nat \ {0}, NEW q \in Int, q * b <= a, a < q * b + b
    PROVE  a \div b = q
<1>1. a - q * b \in 0..(b - 1) /\ a = q * b + (a - q * b)
  BY NextProduct
<1> QED
  BY <1>1, DivUnique

(* The factors of three in another order.                                  *)
LEMMA Swapped ==
    ASSUME NEW a \in Int, NEW b \in Int, NEW c \in Int
    PROVE  /\ (a * b) * c \in Int
           /\ ((a + 1) * b) * c \in Int
           /\ ((a + 1) * c) * b = ((a + 1) * b) * c
OBVIOUS

(* Division keeps the order.                                               *)
LEMMA DivGrows ==
    ASSUME NEW a \in Int, NEW b \in Nat \ {0}, NEW c \in Int, a <= c
    PROVE  a \div b <= c \div b
OBVIOUS
=============================================================================
