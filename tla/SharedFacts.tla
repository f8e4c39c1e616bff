----------------------------- MODULE SharedFacts -----------------------------
(***************************************************************************)
(* Facts that the proofs of the project share: division with remainder     *)
(* (offsets in rings and pools), layouts of equal rows, least and largest  *)
(* elements of sets of naturals, induction in the form of a set closed     *)
(* under successor, and what FlattenSeq computes.                          *)
(***************************************************************************)
EXTENDS Integers, SequencesExt, WellFoundedInduction, TLAPS

(* Division with remainder.                                                *)
LEMMA DivMod ==
  ASSUME NEW R \in Nat \ {0}, NEW y \in Nat
  PROVE  /\ y % R \in 0 .. R - 1
         /\ y \div R \in Nat
         /\ y = R * (y \div R) + (y % R)
  OBVIOUS

(* Quotient and remainder are unique.                                      *)
LEMMA DivModUnique ==
  ASSUME NEW R \in Nat \ {0}, NEW y \in Nat, NEW q \in Nat, NEW o \in 0 .. R - 1,
         y = R * q + o
  PROVE  y % R = o /\ y \div R = q
<1> DEFINE p == y \div R
           u == y % R
<1>1. y = R * p + u /\ p \in Nat /\ u \in 0 .. R - 1
  BY DivMod
<1> HIDE DEF p, u
<1>2. R * (p - q) = o - u /\ p - q \in Int
  BY <1>1
<1>3. CASE p - q >= 1
  <2>1. R * (p - q) >= R
    BY <1>2, <1>3
  <2> QED BY <2>1, <1>1, <1>2
<1>4. CASE p - q <= -1
  <2>1. R * (p - q) <= -R
    BY <1>2, <1>4
  <2> QED BY <2>1, <1>1, <1>2
<1>5. CASE p - q = 0
  <2>1. R * (p - q) = 0
    BY <1>5
  <2> QED BY <2>1, <1>5, <1>1, <1>2 DEF p, u
<1> QED BY <1>2, <1>3, <1>4, <1>5

(* A number without remainder is a multiple.                               *)
LEMMA Multiple ==
  ASSUME NEW R \in Nat \ {0}, NEW y \in Nat, y % R = 0
  PROVE  \E q \in Nat : y = R * q
<1>1. y \div R \in Nat /\ y = R * (y \div R) + (y % R)
  BY DivMod
<1>2. R * (y \div R) \in Nat
  BY <1>1
<1>3. y = R * (y \div R)
  BY <1>1, <1>2
<1> QED BY <1>1, <1>3

(* Position y of rows of length L laid end to end, as row and place.       *)
LEMMA FlatPlace ==
  ASSUME NEW L \in Nat \ {0}, NEW m \in Nat, NEW k \in 1 .. m * L
  PROVE  (k - 1) \div L \in 0 .. m - 1 /\ (k - 1) % L \in 0 .. L - 1
<1> DEFINE q == (k - 1) \div L
           o == (k - 1) % L
<1>1. m * L \in Nat /\ k - 1 \in Nat /\ k - 1 < m * L
  OBVIOUS
<1>2. o \in 0 .. L - 1 /\ q \in Nat /\ k - 1 = L * q + o
  BY <1>1, DivMod
<1> HIDE DEF q, o
<1>3. L * q < m * L
  <2>1. L * q \in Nat
    BY <1>2
  <2> QED BY <1>1, <1>2, <2>1
<1>4. ASSUME q >= m PROVE FALSE
  <2>1. PICK d \in Nat : q = m + d
    <3>1. q - m \in Nat /\ q = m + (q - m)
      BY <1>2, <1>4
    <3> QED BY <3>1
  <2>2. L * q = m * L + L * d /\ L * d \in Nat
    BY <2>1
  <2> QED BY <1>1, <1>3, <2>2
<1> QED BY <1>2, <1>4 DEF q, o

(* Two numbers less than R apart have different remainders: distinct       *)
(* positions that lie within one turn of a ring use distinct slots.        *)
LEMMA DistinctSlots ==
  ASSUME NEW R \in Nat \ {0}, NEW y \in Nat, NEW z \in Nat, y < z, z < y + R
  PROVE  y % R # z % R
<1> DEFINE q == y \div R
           p == z \div R
<1>1. y = R * q + (y % R) /\ z = R * p + (z % R) /\ q \in Nat /\ p \in Nat
  BY DivMod
<1> SUFFICES ASSUME y % R = z % R PROVE FALSE
  OBVIOUS
<1> HIDE DEF q, p
<1>2. z - y = R * (p - q) /\ p - q \in Int
  BY <1>1
<1>3. CASE p - q <= 0
  <2>1. R * (p - q) <= 0
    BY <1>2, <1>3
  <2> QED BY <2>1, <1>2
<1>4. CASE p - q >= 1
  <2>1. R * (p - q) >= R
    BY <1>2, <1>4
  <2> QED BY <2>1, <1>2
<1> QED BY <1>2, <1>3, <1>4

(* Every nonempty set of naturals has a least element.                     *)
LEMMA LeastNatural ==
  ASSUME NEW T, T \subseteq Nat, T # {}
  PROVE  \E x \in T : \A y \in T : x <= y
<1> DEFINE R == {p \in Nat \X Nat : p[1] < p[2]}
<1>1. IsWellFoundedOn(R, Nat)
  BY NatLessThanWellFounded DEF OpToRel
<1>2. PICK x \in T : \A y \in T : <<y, x>> \notin R
  BY <1>1, WFMin
<1>3. ASSUME NEW y \in T
      PROVE  x <= y
  <2>1. <<y, x>> \in Nat \X Nat /\ <<y, x>> \notin R
    BY <1>2
  <2>2. ~(y < x)
    BY <2>1
  <2> QED BY <2>2, <2>1
<1> QED BY <1>3

(* A bounded set of naturals has a largest element.                        *)
LEMMA LargestNatural ==
  ASSUME NEW n \in Nat, NEW T, T \subseteq 0 .. n, T # {}
  PROVE  \E x \in T : \A y \in T : x >= y
<1> DEFINE U == {n - y : y \in T}
<1>1. U \subseteq Nat /\ U # {}
  <2>1. \A y \in T : y \in 0 .. n /\ n - y \in Nat
    OBVIOUS
  <2> QED BY <2>1
<1> HIDE DEF U
<1>2. PICK u \in U : \A v \in U : u <= v
  BY <1>1, LeastNatural
<1> USE DEF U
<1>3. n - u \in T /\ \A y \in T : n - u >= y
  BY <1>2
<1> QED BY <1>3

(* Induction: a set with 0 and the successors of its members has every     *)
(* natural number.                                                         *)
LEMMA SetInduction ==
  ASSUME NEW S, 0 \in S, \A n \in Nat : n \in S => n + 1 \in S
  PROVE  Nat \subseteq S
<1> DEFINE T == Nat \ S
<1> SUFFICES ASSUME T # {} PROVE FALSE
  OBVIOUS
<1>1. PICK x \in T : \A y \in T : x <= y
  BY LeastNatural, T \subseteq Nat
<1>2. x - 1 \in Nat /\ x - 1 \notin T
  BY <1>1
<1> QED BY <1>2, <1>1

(* FlattenSeq appends one sequence after another.                          *)
LEMMA FlattenSteps ==
  ASSUME NEW n \in Nat \ {0}, NEW seqs, Len(seqs) = n
  PROVE  \E f : /\ f[n] = FlattenSeq(seqs)
                /\ \A i \in 1 .. n : f[i] = IF i = 1 THEN seqs[i] ELSE f[i - 1] \o seqs[i]
<1> DEFINE Eq(f, k) == f = [i \in 1 .. k |-> IF i = 1 THEN seqs[i] ELSE f[i - 1] \o seqs[i]]
           S == {k \in Nat : k <= n => \E f : Eq(f, k)}
<1>1. 0 \in S
  <2> DEFINE f == [i \in 1 .. 0 |-> 0]
  <2>1. Eq(f, 0)
    OBVIOUS
  <2> HIDE DEF Eq, f
  <2> QED BY <2>1
<1>2. ASSUME NEW k \in Nat, k \in S PROVE k + 1 \in S
  <2> HIDE DEF Eq
  <2> SUFFICES ASSUME k + 1 <= n PROVE \E f : Eq(f, k + 1)
    OBVIOUS
  <2>1. PICK f : Eq(f, k)
    BY <1>2
  <2> DEFINE new == IF k = 0 THEN seqs[k + 1] ELSE f[k] \o seqs[k + 1]
             g == [i \in 1 .. k + 1 |-> IF i = k + 1 THEN new ELSE f[i]]
  <2>2. DOMAIN f = 1 .. k /\ \A i \in 1 .. k : f[i] = IF i = 1 THEN seqs[i] ELSE f[i - 1] \o seqs[i]
    BY <2>1 DEF Eq
  <2>3. ASSUME NEW i \in 1 .. k + 1 PROVE g[i] = IF i = 1 THEN seqs[i] ELSE g[i - 1] \o seqs[i]
    <3> HIDE DEF new
    <3>1. CASE i = k + 1
      <4>1. g[i] = new /\ (k # 0 => g[i - 1] = f[k])
        BY <3>1
      <4>2. k = 0 <=> i = 1
        BY <3>1
      <4> HIDE DEF g
      <4> QED BY <3>1, <4>1, <4>2, Zenon DEF new
    <3>2. CASE i \in 1 .. k
      <4>1. f[i] = IF i = 1 THEN seqs[i] ELSE f[i - 1] \o seqs[i]
        BY <2>2, <3>2
      <4>2. g[i] = f[i] /\ (i # 1 => g[i - 1] = f[i - 1])
        BY <3>2
      <4> HIDE DEF g
      <4> QED BY <4>1, <4>2, Zenon
    <3> QED BY <3>1, <3>2
  <2>4. DOMAIN g = 1 .. k + 1
    OBVIOUS
  <2>5. g = [i \in 1 .. k + 1 |-> g[i]]
    OBVIOUS
  <2> HIDE DEF g
  <2>6. Eq(g, k + 1)
    BY <2>3, <2>5 DEF Eq
  <2> QED BY <2>6
<1> HIDE DEF S
<1>3. Nat \subseteq S
  BY <1>1, <1>2, SetInduction
<1> HIDE DEF Eq
<1>4. PICK f : Eq(f, n)
  BY <1>3 DEF S
<1> USE DEF Eq
<1> DEFINE c == CHOOSE g : Eq(g, n)
<1>5. FlattenSeq(seqs) = c[n]
  BY Zenon DEF FlattenSeq
<1>6. Eq(c, n)
  BY <1>4
<1> HIDE DEF c
<1>7. \A i \in 1 .. n : c[i] = IF i = 1 THEN seqs[i] ELSE c[i - 1] \o seqs[i]
  BY <1>6
<1> QED BY <1>5, <1>7, Zenon
=============================================================================
