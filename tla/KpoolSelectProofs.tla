-------------------------- MODULE KpoolSelectProofs --------------------------
(***************************************************************************)
(* Proofs about KpoolSelect, for any pool size, top-k, block size, order   *)
(* of the pools and any batch: any numbers of decode and prefill requests, *)
(* of any lengths.                                                         *)
(***************************************************************************)
EXTENDS KpoolSelect, SharedFacts, FiniteSetTheorems, SequenceTheorems

-----------------------------------------------------------------------------
(* The flat layout: requests end to end.                                   *)

(* The recursive sum exists, by extending one for a prefix.                *)
LEMMA CumSumFacts ==
  ASSUME NEW n \in Nat, NEW lens \in [1 .. n -> Nat]
  PROVE  /\ CumSum(lens) \in [0 .. n -> Nat]
         /\ CumSum(lens)[0] = 0
         /\ \A r \in 1 .. n : CumSum(lens)[r] = CumSum(lens)[r - 1] + lens[r]
<1> DEFINE Eq(f, k) == f = [r \in 0 .. k |-> IF r = 0 THEN 0 ELSE f[r - 1] + lens[r]]
           S == {k \in Nat : k <= n => \E f \in [0 .. k -> Nat] : Eq(f, k)}
<1>1. 0 \in S
  <2> DEFINE f == [r \in 0 .. 0 |-> 0]
  <2>1. f \in [0 .. 0 -> Nat] /\ f = [r \in 0 .. 0 |-> IF r = 0 THEN 0 ELSE f[r - 1] + lens[r]]
    OBVIOUS
  <2> QED BY <2>1
<1>2. ASSUME NEW k \in Nat, k \in S PROVE k + 1 \in S
  <2> HIDE DEF Eq
  <2> SUFFICES ASSUME k + 1 <= n PROVE \E f \in [0 .. k + 1 -> Nat] : Eq(f, k + 1)
    OBVIOUS
  <2>1. PICK f \in [0 .. k -> Nat] : Eq(f, k)
    BY <1>2
  <2> USE DEF Eq
  <2> DEFINE g == [r \in 0 .. k + 1 |-> IF r = k + 1 THEN f[k] + lens[k + 1] ELSE f[r]]
  <2>2. f[k] \in Nat /\ lens[k + 1] \in Nat
    OBVIOUS
  <2>3. g \in [0 .. k + 1 -> Nat]
    BY <2>2
  <2>4. ASSUME NEW r \in 0 .. k + 1 PROVE g[r] = IF r = 0 THEN 0 ELSE g[r - 1] + lens[r]
    <3>1. CASE r = k + 1
      BY <3>1
    <3>2. CASE r \in 0 .. k
      <4>1. f[r] = IF r = 0 THEN 0 ELSE f[r - 1] + lens[r]
        BY <2>1, <3>2
      <4>2. g[r] = f[r] /\ (r # 0 => g[r - 1] = f[r - 1])
        BY <3>2
      <4> QED BY <4>1, <4>2, Zenon
    <3> QED BY <3>1, <3>2
  <2> HIDE DEF g
  <2>5. Eq(g, k + 1)
    BY <2>3, <2>4
  <2> QED BY <2>3, <2>5
<1> HIDE DEF S
<1>3. Nat \subseteq S
  BY <1>1, <1>2, SetInduction
<1> HIDE DEF Eq
<1>4. PICK f \in [0 .. n -> Nat] : Eq(f, n)
  BY <1>3 DEF S
<1> USE DEF Eq
<1> DEFINE c == CHOOSE g : Eq(g, n)
<1>5. CumSum(lens) = c
  <2>1. Len(lens) = n
    OBVIOUS
  <2> QED BY <2>1, Zenon DEF CumSum
<1>6. Eq(c, n)
  BY <1>4
<1> HIDE DEF c
<1>7. c[0] = 0 /\ DOMAIN c = 0 .. n /\ \A r \in 1 .. n : c[r] = c[r - 1] + lens[r]
  BY <1>6
<1> DEFINE N == {k \in Nat : k <= n => c[k] \in Nat}
<1>8. 0 \in N
  BY <1>7
<1>9. ASSUME NEW k \in Nat, k \in N PROVE k + 1 \in N
  <2> SUFFICES ASSUME k + 1 <= n PROVE c[k + 1] \in Nat
    OBVIOUS
  <2>1. c[k + 1] = c[k] + lens[k + 1] /\ c[k] \in Nat /\ lens[k + 1] \in Nat
    BY <1>7, <1>9
  <2> QED BY <2>1
<1> HIDE DEF N
<1>10. Nat \subseteq N
  BY <1>8, <1>9, SetInduction
<1>11. c \in [0 .. n -> Nat]
  <2>1. \A k \in 0 .. n : c[k] \in Nat
    BY <1>10 DEF N
  <2> QED BY <1>6, <2>1
<1> QED BY <1>5, <1>7, <1>11

LEMMA CumSumMonotone ==
  ASSUME NEW n \in Nat, NEW lens \in [1 .. n -> Nat], NEW q \in 0 .. n, NEW r \in 0 .. q
  PROVE  CumSum(lens)[r] <= CumSum(lens)[q]
<1> DEFINE c == CumSum(lens)
           S == {k \in Nat : k <= n => \A x \in 0 .. k : c[x] <= c[k]}
<1>1. c \in [0 .. n -> Nat] /\ \A x \in 1 .. n : c[x] = c[x - 1] + lens[x]
  BY CumSumFacts
<1> HIDE DEF c
<1>2. 0 \in S
  <2>1. c[0] \in Nat /\ \A x \in 0 .. 0 : x = 0
    BY <1>1
  <2> QED BY <2>1
<1>3. ASSUME NEW k \in Nat, k \in S PROVE k + 1 \in S
  <2> SUFFICES ASSUME k + 1 <= n, NEW x \in 0 .. k + 1 PROVE c[x] <= c[k + 1]
    OBVIOUS
  <2>1. c[k + 1] = c[k] + lens[k + 1] /\ c[k] \in Nat /\ lens[k + 1] \in Nat /\ c[x] \in Nat
    BY <1>1
  <2>2. x # k + 1 => c[x] <= c[k]
    BY <1>3
  <2> QED BY <2>1, <2>2
<1> HIDE DEF S
<1>4. Nat \subseteq S
  BY <1>2, <1>3, SetInduction
<1>5. q \in S
  BY <1>4
<1> QED BY <1>5 DEF S, c

(* Entry i of the flat batch is token t of request r.                      *)
IsPlace(lens, i, r, t) ==
  r \in DOMAIN lens /\ t \in 1 .. lens[r] /\ i = ReqStart(lens, r) + t

LEMMA StartOf ==
  ASSUME NEW n \in Nat, NEW lens \in [1 .. n -> Nat], NEW r \in 1 .. n
  PROVE  /\ ReqStart(lens, r) \in Nat
         /\ ReqStart(lens, r) + lens[r] = CumSum(lens)[r]
         /\ CumSum(lens)[r] <= Total(lens)
         /\ Total(lens) \in Nat
<1>1. /\ CumSum(lens) \in [0 .. n -> Nat]
      /\ CumSum(lens)[r] = CumSum(lens)[r - 1] + lens[r]
  BY CumSumFacts
<1>2. Len(lens) = n
  OBVIOUS
<1>3. n \in 0 .. n /\ r \in 0 .. n /\ r - 1 \in 0 .. n
  OBVIOUS
<1>4. CumSum(lens)[r] <= CumSum(lens)[n]
  BY <1>3, CumSumMonotone
<1> QED BY <1>1, <1>2, <1>3, <1>4 DEF ReqStart, Total

LEMMA PlaceInRange ==
  ASSUME NEW n \in Nat, NEW lens \in [1 .. n -> Nat], NEW i, NEW r, NEW t, IsPlace(lens, i, r, t)
  PROVE  i \in 1 .. Total(lens)
<1>1. r \in 1 .. n /\ t \in 1 .. lens[r] /\ lens[r] \in Nat
  BY DEF IsPlace
<1> QED BY <1>1, StartOf DEF IsPlace

LEMMA PlaceExists ==
  ASSUME NEW n \in Nat, NEW lens \in [1 .. n -> Nat], NEW i \in 1 .. Total(lens)
  PROVE  \E r \in 1 .. n, t \in Nat : IsPlace(lens, i, r, t)
<1> DEFINE c == CumSum(lens)
           T == {r \in 0 .. n : i <= c[r]}
<1>1. c \in [0 .. n -> Nat] /\ c[0] = 0 /\ \A x \in 1 .. n : c[x] = c[x - 1] + lens[x]
  BY CumSumFacts
<1>2. Len(lens) = n
  OBVIOUS
<1>3. i \in Nat \ {0} /\ i <= c[n]
  BY <1>1, <1>2 DEF Total
<1> HIDE DEF c
<1>4. T \subseteq Nat /\ n \in T
  BY <1>3
<1> HIDE DEF T
<1>5. PICK r \in T : \A y \in T : r <= y
  BY <1>4, LeastNatural
<1>6. r \in 0 .. n /\ i <= c[r]
  BY DEF T
<1>7. r \in 1 .. n
  BY <1>1, <1>3, <1>6
<1>8. c[r - 1] < i /\ r - 1 \in 0 .. n
  <2>1. r - 1 \notin T /\ r - 1 \in 0 .. n
    BY <1>5, <1>7
  <2> QED BY <1>1, <1>3, <2>1 DEF T
<1>9. c[r] = c[r - 1] + lens[r] /\ c[r - 1] \in Nat /\ lens[r] \in Nat
  BY <1>1, <1>7, <1>8
<1>10. i - c[r - 1] \in 1 .. lens[r] /\ i = c[r - 1] + (i - c[r - 1])
  BY <1>3, <1>6, <1>8, <1>9
<1>11. IsPlace(lens, i, r, i - c[r - 1])
  BY <1>7, <1>10 DEF IsPlace, ReqStart, c
<1> QED BY <1>7, <1>10, <1>11

LEMMA PlaceUnique ==
  ASSUME NEW n \in Nat, NEW lens \in [1 .. n -> Nat], NEW i, NEW r, NEW t, NEW q, NEW u,
         IsPlace(lens, i, r, t), IsPlace(lens, i, q, u)
  PROVE  r = q /\ t = u
<1>1. /\ r \in 1 .. n /\ t \in 1 .. lens[r] /\ lens[r] \in Nat /\ i = ReqStart(lens, r) + t
      /\ q \in 1 .. n /\ u \in 1 .. lens[q] /\ lens[q] \in Nat /\ i = ReqStart(lens, q) + u
  BY DEF IsPlace
<1>2. \A x, y \in 1 .. n : x < y => ReqStart(lens, x) + lens[x] <= ReqStart(lens, y)
  <2> SUFFICES ASSUME NEW x \in 1 .. n, NEW y \in 1 .. n, x < y
               PROVE  ReqStart(lens, x) + lens[x] <= ReqStart(lens, y)
    OBVIOUS
  <2>1. y - 1 \in 0 .. n /\ x \in 0 .. y - 1
    OBVIOUS
  <2>2. CumSum(lens)[x] <= CumSum(lens)[y - 1]
    BY <2>1, CumSumMonotone
  <2> QED BY <2>2, StartOf DEF ReqStart
<1>3. ReqStart(lens, r) \in Nat /\ ReqStart(lens, q) \in Nat
  BY <1>1, StartOf
<1>4. ~(r < q) /\ ~(q < r)
  BY <1>1, <1>2, <1>3
<1>5. r = q
  BY <1>1, <1>4
<1> QED BY <1>1, <1>3, <1>5

LEMMA ScatterPlace ==
  ASSUME NEW n \in Nat, NEW lens \in [1 .. n -> Nat], NEW i, NEW r, NEW t, IsPlace(lens, i, r, t)
  PROVE  /\ DOMAIN ScatterIndices(lens) = 1 .. Total(lens)
         /\ ScatterIndices(lens)[i] = <<r, t>>
<1> DEFINE P(q) == ReqStart(lens, q) < i /\ i <= ReqStart(lens, q) + lens[q]
           owner == CHOOSE q \in DOMAIN lens : P(q)
<1>1. i \in 1 .. Total(lens)
  BY PlaceInRange
<1>2. r \in 1 .. n /\ t \in 1 .. lens[r] /\ lens[r] \in Nat /\ i = ReqStart(lens, r) + t
  BY DEF IsPlace
<1>3. \A q \in 1 .. n : ReqStart(lens, q) \in Nat
  BY StartOf
<1>4. r \in DOMAIN lens /\ P(r)
  BY <1>2, <1>3
<1>5. ASSUME NEW q \in DOMAIN lens, P(q) PROVE q = r
  <2>1. q \in 1 .. n /\ lens[q] \in Nat
    OBVIOUS
  <2>2. i - ReqStart(lens, q) \in 1 .. lens[q] /\ i = ReqStart(lens, q) + (i - ReqStart(lens, q))
    BY <1>1, <1>3, <1>5, <2>1
  <2>3. IsPlace(lens, i, q, i - ReqStart(lens, q))
    BY <2>2 DEF IsPlace
  <2> QED BY <2>3, PlaceUnique
<1>6. owner = r
  BY <1>4, <1>5
<1> HIDE DEF P
<1>7. ScatterIndices(lens)[i] = <<owner, i - ReqStart(lens, owner)>>
  BY <1>1 DEF ScatterIndices, P
<1>8. DOMAIN ScatterIndices(lens) = 1 .. Total(lens)
  BY DEF ScatterIndices
<1>9. i - ReqStart(lens, r) = t
  BY <1>2, <1>3
<1> QED BY <1>6, <1>7, <1>8, <1>9

Rows == [pos : Nat, len : Nat \ {0}]

(* Each token's flat position is the one it has in its request.            *)
LEMMA PositionsPlace ==
  ASSUME NEW n \in Nat, NEW rows \in [1 .. n -> Rows]
  PROVE  /\ Positions(rows) \in Seq(Nat)
         /\ Len(Positions(rows)) = Total(Lens(rows))
         /\ \A i, r, t : IsPlace(Lens(rows), i, r, t) => Positions(rows)[i] = rows[r].pos + t - 1
<1> DEFINE seqs == [r \in DOMAIN rows |-> [t \in 1 .. rows[r].len |-> rows[r].pos + t - 1]]
           lens == Lens(rows)
           c == CumSum(lens)
<1>1. lens \in [1 .. n -> Nat] /\ \A r \in 1 .. n : lens[r] = rows[r].len
  BY DEF Lens, Rows
<1>2. c \in [0 .. n -> Nat] /\ c[0] = 0 /\ \A r \in 1 .. n : c[r] = c[r - 1] + lens[r]
  BY <1>1, CumSumFacts
<1>3. Total(lens) = c[n]
  <2>1. Len(lens) = n
    BY <1>1
  <2> QED BY <2>1 DEF Total
<1>4. Positions(rows) = FlattenSeq(seqs)
  BY DEF Positions
<1>5. Len(seqs) = n
  OBVIOUS
<1>6. ASSUME NEW r \in 1 .. n
      PROVE  /\ seqs[r] \in Seq(Nat) /\ Len(seqs[r]) = lens[r]
             /\ \A t \in 1 .. lens[r] : seqs[r][t] = rows[r].pos + t - 1
  <2>1. rows[r].pos \in Nat /\ rows[r].len \in Nat /\ lens[r] = rows[r].len
    BY <1>1 DEF Rows
  <2>2. seqs[r] = [t \in 1 .. lens[r] |-> rows[r].pos + t - 1]
    BY <2>1
  <2> HIDE DEF seqs
  <2>3. seqs[r] \in [1 .. lens[r] -> Nat]
    BY <2>1, <2>2
  <2> QED BY <2>1, <2>2, <2>3
<1> DEFINE Right(s, k) == /\ s \in Seq(Nat) /\ Len(s) = c[k]
                          /\ \A r \in 1 .. k : \A t \in 1 .. lens[r] : s[c[r - 1] + t] = rows[r].pos + t - 1
<1>7. CASE n = 0
  <2>1. FlattenSeq(seqs) = seqs
    BY <1>5, <1>7 DEF FlattenSeq
  <2>2. seqs = <<>>
    BY <1>5, <1>7
  <2>3. Positions(rows) \in Seq(Nat) /\ Len(Positions(rows)) = 0
    <3> HIDE DEF seqs
    <3>1. Positions(rows) = <<>>
      BY <1>4, <2>1, <2>2
    <3> QED BY <3>1
  <2> QED BY <1>1, <1>2, <1>3, <1>7, <2>3 DEF IsPlace
<1>8. CASE n # 0
  <2> HIDE DEF seqs, lens, c
  <2>1. PICK f : /\ f[n] = FlattenSeq(seqs)
                 /\ \A i \in 1 .. n : f[i] = IF i = 1 THEN seqs[i] ELSE f[i - 1] \o seqs[i]
    BY <1>5, <1>8, FlattenSteps
  <2> DEFINE S == {k \in Nat : k \in 1 .. n => Right(f[k], k)}
  <2>2. 0 \in S
    OBVIOUS
  <2>3. ASSUME NEW j \in Nat, j \in S PROVE j + 1 \in S
    <3> SUFFICES ASSUME j + 1 \in 1 .. n PROVE Right(f[j + 1], j + 1)
      OBVIOUS
    <3>1. PICK k \in 1 .. n : k = j + 1 /\ k - 1 = j
      OBVIOUS
    <3>2. c[k] = c[k - 1] + lens[k] /\ c[k - 1] \in Nat /\ lens[k] \in Nat
      BY <1>1, <1>2, <3>1
    <3>3. CASE k = 1
      <4>1. f[k] = seqs[k]
        BY <2>1, <3>3, Zenon
      <4>2. c[k - 1] = 0 /\ c[k] = lens[k]
        BY <1>2, <3>2, <3>3
      <4>3. Right(f[k], k)
        BY <1>6, <3>2, <3>3, <4>1, <4>2
      <4> QED BY <3>1, <4>3
    <3>4. CASE k # 1
      <4>1. f[k] = f[k - 1] \o seqs[k]
        BY <2>1, <3>4, Zenon
      <4>2. Right(f[k - 1], k - 1)
        BY <2>3, <3>1, <3>4
      <4> DEFINE s == f[k - 1]
                 u == seqs[k]
      <4>3. s \in Seq(Nat) /\ Len(s) = c[k - 1] /\ u \in Seq(Nat) /\ Len(u) = lens[k]
        BY <1>6, <4>2
      <4> HIDE DEF s, u
      <4>4. /\ s \o u \in Seq(Nat) /\ Len(s \o u) = c[k]
            /\ \A x \in 1 .. c[k] : (s \o u)[x] = IF x <= c[k - 1] THEN s[x] ELSE u[x - c[k - 1]]
        <5>1. /\ s \o u \in Seq(Nat) /\ Len(s \o u) = Len(s) + Len(u)
              /\ \A x \in 1 .. Len(s) + Len(u) :
                   (s \o u)[x] = IF x <= Len(s) THEN s[x] ELSE u[x - Len(s)]
          BY <4>3, ConcatProperties
        <5>2. Len(s) = c[k - 1] /\ Len(s) + Len(u) = c[k]
          BY <3>2, <4>3
        <5> QED BY <5>1, <5>2
      <4>5. ASSUME NEW r \in 1 .. k, NEW t \in 1 .. lens[r]
            PROVE  (s \o u)[c[r - 1] + t] = rows[r].pos + t - 1
        <5>1. r \in 1 .. n /\ lens[r] \in Nat /\ c[r - 1] \in Nat /\ c[r] = c[r - 1] + lens[r]
          BY <1>1, <1>2
        <5>2. PICK x \in Nat : x = c[r - 1] + t
          BY <5>1
        <5>3. CASE r = k
          <6>1. x \in 1 .. c[k] /\ x > c[k - 1] /\ x - c[k - 1] = t
            BY <3>2, <5>1, <5>2, <5>3
          <6>2. u[t] = rows[r].pos + t - 1
            BY <1>6, <5>3 DEF u
          <6>3. (s \o u)[x] = u[t]
            <7>1. (s \o u)[x] = u[x - c[k - 1]]
              BY <3>2, <4>4, <6>1
            <7> QED BY <6>1, <7>1
          <6> QED BY <5>2, <6>2, <6>3, Zenon
        <5>4. CASE r \in 1 .. k - 1
          <6>1. c[r] <= c[k - 1]
            <7>1. k - 1 \in 0 .. n /\ r \in 0 .. k - 1
              BY <5>4
            <7> QED BY <1>1, <7>1, CumSumMonotone DEF c
          <6>2. x \in 1 .. c[k] /\ x <= c[k - 1]
            BY <3>2, <5>1, <5>2, <6>1
          <6>3. s[x] = rows[r].pos + t - 1
            BY <4>2, <5>2, <5>4 DEF s
          <6>4. (s \o u)[x] = s[x]
            BY <4>4, <6>2
          <6> QED BY <5>2, <6>3, <6>4, Zenon
        <5>5. r = k \/ r \in 1 .. k - 1
          OBVIOUS
        <5> QED BY <5>3, <5>4, <5>5, Zenon
      <4>6. Right(s \o u, k)
        BY <4>4, <4>5
      <4>7. f[k] = s \o u
        BY <4>1 DEF s, u
      <4> QED BY <3>1, <4>6, <4>7
    <3> QED BY <3>3, <3>4
  <2> HIDE DEF S
  <2>4. Nat \subseteq S
    BY <2>2, <2>3, SetInduction
  <2>5. Right(f[n], n)
    BY <1>8, <2>4 DEF S
  <2>6. Positions(rows) = f[n]
    BY <1>4, <2>1
  <2>7. ASSUME NEW i, NEW r, NEW t, IsPlace(lens, i, r, t) PROVE f[n][i] = rows[r].pos + t - 1
    <3>1. r \in 1 .. n /\ t \in 1 .. lens[r] /\ i = c[r - 1] + t
      BY <1>1, <2>7 DEF IsPlace, ReqStart, c
    <3> QED BY <2>5, <3>1
  <2>8. f[n] \in Seq(Nat) /\ Len(f[n]) = c[n]
    BY <2>5
  <2> HIDE DEF Right
  <2> QED BY <1>3, <2>6, <2>7, <2>8 DEF lens
<1> QED BY <1>7, <1>8

-----------------------------------------------------------------------------
(* The rows of a batch.                                                    *)

Batch(n, m) == dec \in [1 .. n -> Rows] /\ pre \in [1 .. m -> Rows]

LEMMA LensOf ==
  ASSUME NEW n \in Nat, NEW rows \in [1 .. n -> Rows]
  PROVE  /\ Lens(rows) \in [1 .. n -> Nat]
         /\ DOMAIN Lens(rows) = 1 .. n
         /\ \A r \in 1 .. n : Lens(rows)[r] = rows[r].len /\ rows[r].len \in Nat \ {0}
BY DEF Lens, Rows

LEMMA TotalOf ==
  ASSUME NEW n \in Nat, NEW lens \in [1 .. n -> Nat]
  PROVE  Total(lens) \in Nat
<1>1. CumSum(lens) \in [0 .. n -> Nat] /\ Len(lens) = n /\ n \in 0 .. n
  BY CumSumFacts
<1> QED BY <1>1 DEF Total

(* positions, decode requests first.                                       *)
LEMMA FlatPositions ==
  ASSUME NEW n \in Nat, NEW m \in Nat, Batch(n, m)
  PROVE  /\ NumDecodeTokens \in Nat /\ Total(Lens(pre)) \in Nat
         /\ NumTokens = NumDecodeTokens + Total(Lens(pre))
         /\ \A i, r, t : IsPlace(Lens(dec), i, r, t) => positions[i] = dec[r].pos + t - 1
         /\ \A i, r, t : IsPlace(Lens(pre), i, r, t) =>
                           positions[NumDecodeTokens + i] = pre[r].pos + t - 1
         /\ \A i \in 1 .. NumTokens : positions[i] \in Nat
         /\ Len(positions) = NumTokens
<1> DEFINE p == Positions(dec)
           q == Positions(pre)
<1>1. dec \in [1 .. n -> Rows] /\ pre \in [1 .. m -> Rows]
  BY DEF Batch
<1>2. Lens(dec) \in [1 .. n -> Nat] /\ Lens(pre) \in [1 .. m -> Nat]
  BY <1>1, LensOf
<1>3. NumDecodeTokens \in Nat /\ Total(Lens(pre)) \in Nat /\ NumTokens = NumDecodeTokens + Total(Lens(pre))
  BY <1>2, TotalOf DEF NumDecodeTokens, NumTokens
<1>4. p \in Seq(Nat) /\ Len(p) = NumDecodeTokens /\ q \in Seq(Nat) /\ Len(q) = Total(Lens(pre))
  BY <1>1, PositionsPlace DEF NumDecodeTokens
<1>5. /\ \A i, r, t : IsPlace(Lens(dec), i, r, t) => p[i] = dec[r].pos + t - 1
      /\ \A i, r, t : IsPlace(Lens(pre), i, r, t) => q[i] = pre[r].pos + t - 1
  BY <1>1, PositionsPlace
<1>6. positions = p \o q
  BY DEF positions
<1> HIDE DEF p, q
<1>7. /\ p \o q \in Seq(Nat) /\ Len(p \o q) = NumTokens
      /\ \A i \in 1 .. NumTokens : (p \o q)[i] = IF i <= NumDecodeTokens THEN p[i] ELSE q[i - NumDecodeTokens]
  <2>1. /\ p \o q \in Seq(Nat) /\ Len(p \o q) = Len(p) + Len(q)
        /\ \A i \in 1 .. Len(p) + Len(q) :
             (p \o q)[i] = IF i <= Len(p) THEN p[i] ELSE q[i - Len(p)]
    BY <1>4, ConcatProperties
  <2>2. Len(p) = NumDecodeTokens /\ Len(p) + Len(q) = NumTokens
    BY <1>3, <1>4
  <2> QED BY <2>1, <2>2
<1>8. ASSUME NEW i, NEW r, NEW t, IsPlace(Lens(dec), i, r, t) PROVE positions[i] = dec[r].pos + t - 1
  <2>1. i \in 1 .. NumDecodeTokens
    BY <1>2, <1>8, PlaceInRange DEF NumDecodeTokens
  <2>2. positions[i] = p[i]
    BY <1>3, <1>6, <1>7, <2>1
  <2> QED BY <1>5, <1>8, <2>2
<1>9. ASSUME NEW i, NEW r, NEW t, IsPlace(Lens(pre), i, r, t)
      PROVE  positions[NumDecodeTokens + i] = pre[r].pos + t - 1
  <2>1. i \in 1 .. Total(Lens(pre))
    BY <1>2, <1>9, PlaceInRange
  <2>2. PICK y \in 1 .. NumTokens : y = NumDecodeTokens + i /\ y > NumDecodeTokens /\ y - NumDecodeTokens = i
    BY <1>3, <2>1
  <2>3. positions[y] = q[i]
    BY <1>3, <1>6, <1>7, <2>2
  <2>4. q[i] = pre[r].pos + t - 1
    BY <1>5, <1>9
  <2> QED BY <2>2, <2>3, <2>4
<1>10. \A i \in 1 .. NumTokens : positions[i] \in Nat
  BY <1>6, <1>7
<1>11. Len(positions) = NumTokens
  BY <1>6, <1>7
<1> QED BY <1>3, <1>8, <1>9, <1>10, <1>11

(* Lengths have a largest: their sum is a bound.                           *)
LEMMA LargestEntry ==
  ASSUME NEW n \in Nat \ {0}, NEW lens \in [1 .. n -> Nat], NEW T, T = {lens[r] : r \in 1 .. n}
  PROVE  Max(T) \in T /\ \A y \in T : y <= Max(T)
<1>1. Total(lens) \in Nat
  BY TotalOf
<1>2. \A r \in 1 .. n : lens[r] \in 0 .. Total(lens)
  <2> SUFFICES ASSUME NEW r \in 1 .. n PROVE lens[r] \in 0 .. Total(lens)
    OBVIOUS
  <2>1. /\ ReqStart(lens, r) \in Nat /\ ReqStart(lens, r) + lens[r] = CumSum(lens)[r]
        /\ CumSum(lens)[r] <= Total(lens)
    BY StartOf
  <2>2. lens[r] \in Nat
    OBVIOUS
  <2> QED BY <1>1, <2>1, <2>2
<1>3. T \subseteq 0 .. Total(lens) /\ T # {}
  <2>1. 1 \in 1 .. n
    OBVIOUS
  <2> QED BY <1>2, <2>1
<1>4. PICK x \in T : \A y \in T : x >= y
  BY <1>1, <1>3, LargestNatural
<1>5. Max(T) \in T /\ \A y \in T : Max(T) >= y
  BY <1>4 DEF Max
<1> QED BY <1>1, <1>3, <1>5

(* The widest decode request.                                              *)
LEMMA Widest ==
  ASSUME NEW n \in Nat \ {0}, dec \in [1 .. n -> Rows]
  PROVE  /\ NextN \in Nat \ {0}
         /\ \A r \in 1 .. n : dec[r].len <= NextN
         /\ BatchSize = n
<1> DEFINE T == {dec[r].len : r \in DOMAIN dec}
<1>1. Lens(dec) \in [1 .. n -> Nat] /\ \A r \in 1 .. n : Lens(dec)[r] = dec[r].len /\ dec[r].len \in Nat \ {0}
  BY LensOf
<1>2. DOMAIN dec = 1 .. n /\ Len(dec) = n
  OBVIOUS
<1>3. T = {Lens(dec)[r] : r \in 1 .. n}
  BY <1>1, <1>2
<1> HIDE DEF T
<1>4. Max(T) \in T /\ \A y \in T : y <= Max(T)
  BY <1>1, <1>3, LargestEntry
<1>5. NextN = Max(T)
  BY DEF NextN, T
<1> QED BY <1>1, <1>2, <1>3, <1>4, <1>5 DEF BatchSize

(* Row b, token t of the grid.                                             *)
LEMMA GridPlace ==
  ASSUME NextN \in Nat \ {0}, NEW b \in Nat \ {0}, NEW t \in 1 .. NextN, NEW i,
         i = (b - 1) * NextN + t
  PROVE  i \in Nat \ {0} /\ RowReq(i) = b /\ RowTok(i) = t
<1>1. PICK p \in Nat : p = NextN * (b - 1) /\ (b - 1) * NextN = p
  <2>1. NextN * (b - 1) \in Nat /\ (b - 1) * NextN = NextN * (b - 1)
    OBVIOUS
  <2> QED BY <2>1
<1>2. i \in Nat \ {0} /\ i - 1 \in Nat /\ t - 1 \in 0 .. NextN - 1 /\ i - 1 = NextN * (b - 1) + (t - 1)
  BY <1>1
<1>3. b - 1 \in Nat
  OBVIOUS
<1>4. (i - 1) % NextN = t - 1 /\ (i - 1) \div NextN = b - 1
  BY <1>2, <1>3, DivModUnique
<1> QED BY <1>2, <1>4 DEF RowReq, RowTok

LEMMA GridPlaceIn ==
  ASSUME NextN \in Nat \ {0}, NEW n \in Nat, BatchSize = n, NEW b \in 1 .. n, NEW t \in 1 .. NextN
  PROVE  (b - 1) * NextN + t \in GridRows
<1>1. PICK d \in Nat : n = b + d
  <2>1. n - b \in Nat /\ n = b + (n - b)
    OBVIOUS
  <2> QED BY <2>1
<1>2. n * NextN = (b - 1) * NextN + NextN + d * NextN /\ d * NextN \in Nat /\ (b - 1) * NextN \in Nat
  <2>1. b - 1 \in Nat /\ n = (b - 1) + 1 + d
    BY <1>1
  <2> QED BY <2>1
<1> QED BY <1>2 DEF GridRows

(* Every decode request has the same number of tokens: the grid is the     *)
(* flat batch.                                                             *)
LEMMA EvenStarts ==
  ASSUME NEW n \in Nat \ {0}, dec \in [1 .. n -> Rows], ~RequiresPadding
  PROVE  \A k \in 0 .. n : CumSum(Lens(dec))[k] = k * NextN
<1> DEFINE c == CumSum(Lens(dec))
           S == {k \in Nat : k <= n => c[k] = k * NextN}
<1>1. NextN \in Nat
  BY Widest
<1>2. Lens(dec) \in [1 .. n -> Nat] /\ \A r \in 1 .. n : Lens(dec)[r] = NextN
  BY LensOf DEF RequiresPadding
<1>3. c[0] = 0 /\ \A r \in 1 .. n : c[r] = c[r - 1] + NextN
  BY <1>2, CumSumFacts
<1> HIDE DEF c
<1>4. 0 \in S
  BY <1>1, <1>3
<1>5. ASSUME NEW k \in Nat, k \in S PROVE k + 1 \in S
  <2> SUFFICES ASSUME k + 1 <= n PROVE c[k + 1] = (k + 1) * NextN
    OBVIOUS
  <2>1. c[k + 1] = c[k] + NextN /\ c[k] = k * NextN
    BY <1>3, <1>5
  <2>2. (k + 1) * NextN = k * NextN + NextN
    BY <1>1
  <2> QED BY <2>1, <2>2
<1> HIDE DEF S
<1>6. Nat \subseteq S
  BY <1>4, <1>5, SetInduction
<1> QED BY <1>6 DEF S, c

LEMMA EvenPlace ==
  ASSUME NEW n \in Nat \ {0}, dec \in [1 .. n -> Rows], ~RequiresPadding
  PROVE  /\ NumDecodeTokens = n * NextN
         /\ \A i \in GridRows : IsPlace(Lens(dec), i, RowReq(i), RowTok(i))
<1>1. NextN \in Nat \ {0} /\ BatchSize = n
  BY Widest
<1>2. Lens(dec) \in [1 .. n -> Nat] /\ DOMAIN Lens(dec) = 1 .. n /\ Len(Lens(dec)) = n
      /\ \A r \in 1 .. n : Lens(dec)[r] = NextN
  BY LensOf DEF RequiresPadding
<1>3. NumDecodeTokens = n * NextN
  BY <1>2, EvenStarts DEF NumDecodeTokens, Total
<1>4. ASSUME NEW i \in GridRows PROVE IsPlace(Lens(dec), i, RowReq(i), RowTok(i))
  <2>1. i \in 1 .. n * NextN
    BY <1>1 DEF GridRows
  <2>2. n * NextN \in Nat
    BY <1>1
  <2>3. (i - 1) \div NextN \in 0 .. n - 1 /\ (i - 1) % NextN \in 0 .. NextN - 1
    BY <1>1, <2>1, FlatPlace
  <2>4. PICK q \in 0 .. n - 1, o \in 0 .. NextN - 1 :
          q = (i - 1) \div NextN /\ o = (i - 1) % NextN /\ i - 1 = NextN * q + o
    <3>1. i - 1 \in Nat
      BY <2>1, <2>2
    <3>2. i - 1 = NextN * ((i - 1) \div NextN) + ((i - 1) % NextN)
      BY <1>1, <3>1, DivMod
    <3> QED BY <2>3, <3>2
  <2>5. RowReq(i) = q + 1 /\ RowTok(i) = o + 1 /\ q + 1 \in 1 .. n /\ o + 1 \in 1 .. NextN
    <3>1. RowReq(i) = q + 1 /\ RowTok(i) = o + 1
      BY <2>4, Zenon DEF RowReq, RowTok
    <3>2. q + 1 \in 1 .. n /\ o + 1 \in 1 .. NextN
      BY <1>1
    <3> QED BY <3>1, <3>2
  <2>6. ReqStart(Lens(dec), q + 1) = NextN * q
    <3>1. q \in 0 .. n /\ (q + 1) - 1 = q /\ q * NextN = NextN * q
      BY <1>1
    <3> QED BY <3>1, EvenStarts DEF ReqStart
  <2>7. i = NextN * q + (o + 1)
    <3>1. NextN * q \in Nat /\ i \in Nat
      BY <1>1, <2>1, <2>2
    <3> QED BY <2>4, <3>1
  <2> QED BY <1>2, <2>5, <2>6, <2>7 DEF IsPlace
<1> QED BY <1>3, <1>4

(* What a token of sequence length len attends to.                         *)
AttendRow(len) == ExpandAndTail(Listed(len \div KPool), len)

(* The grid has the token's own length where the token is.                 *)
LEMMA PaddedSeqLens ==
  ASSUME NEW n \in Nat \ {0}, dec \in [1 .. n -> Rows], RequiresPadding,
         NEW i, NEW b, NEW t, IsPlace(Lens(dec), i, b, t)
  PROVE  DecodeTopkSeqLens[(b - 1) * NextN + t] = positions[i] + 1
<1>1. NextN \in Nat \ {0} /\ BatchSize = n /\ \A r \in 1 .. n : dec[r].len <= NextN
  BY Widest
<1>2. Lens(dec) \in [1 .. n -> Nat] /\ DOMAIN Lens(dec) = 1 .. n
      /\ \A r \in 1 .. n : Lens(dec)[r] = dec[r].len
  BY LensOf
<1>3. b \in 1 .. n /\ t \in 1 .. Lens(dec)[b]
  BY <1>2 DEF IsPlace
<1>4. t \in 1 .. NextN
  BY <1>1, <1>2, <1>3
<1>5. (b - 1) * NextN + t \in GridRows /\ RowReq((b - 1) * NextN + t) = b /\ RowTok((b - 1) * NextN + t) = t
  <2>1. PICK k : k = (b - 1) * NextN + t
    OBVIOUS
  <2>2. b \in Nat \ {0}
    BY <1>3
  <2>3. k \in GridRows
    BY <1>1, <1>3, <1>4, <2>1, GridPlaceIn
  <2>4. RowReq(k) = b /\ RowTok(k) = t
    BY <1>1, <1>4, <2>1, <2>2, GridPlace
  <2> QED BY <2>1, <2>3, <2>4
<1>6. i \in 1 .. Total(Lens(dec))
  BY <1>2, PlaceInRange
<1>7. DOMAIN ScatterIndices(Lens(dec)) = 1 .. Total(Lens(dec)) /\ ScatterIndices(Lens(dec))[i] = <<b, t>>
  BY <1>2, ScatterPlace
<1>8. ASSUME NEW j \in 1 .. Total(Lens(dec)), ScatterIndices(Lens(dec))[j] = <<b, t>> PROVE j = i
  <2>1. PICK r \in 1 .. n, u \in Nat : IsPlace(Lens(dec), j, r, u)
    BY <1>2, PlaceExists
  <2>2. ScatterIndices(Lens(dec))[j] = <<r, u>>
    BY <1>2, <2>1, ScatterPlace
  <2>3. r = b /\ u = t
    BY <1>8, <2>2
  <2> QED BY <2>1, <2>3 DEF IsPlace
<1> DEFINE idx == ScatterIndices(Lens(dec))
           grid == Scatter(positions, -1, BatchSize, NextN, idx)
           at == CHOOSE j \in DOMAIN idx : idx[j] = <<b, t>>
<1>9. i \in DOMAIN idx /\ idx[i] = <<b, t>> /\ at = i
  BY <1>6, <1>7, <1>8
<1> HIDE DEF idx
<1>10. grid[b][t] = positions[i]
  <2>1. grid[b][t] = IF \E j \in DOMAIN idx : idx[j] = <<b, t>> THEN positions[at] ELSE -1
    BY <1>1, <1>3, <1>4 DEF Scatter
  <2> QED BY <1>9, <2>1
<1> HIDE DEF grid
<1>11. DecodeTopkSeqLens = [k \in GridRows |-> grid[RowReq(k)][RowTok(k)] + 1]
  BY DEF DecodeTopkSeqLens, grid, idx
<1>12. DecodeTopkSeqLens[(b - 1) * NextN + t] = grid[b][t] + 1
  BY <1>5, <1>11
<1> QED BY <1>10, <1>12

(* A decode token attends by its own length in every layout.               *)
LEMMA DecodeOutIs ==
  ASSUME NEW n \in Nat \ {0}, NEW m \in Nat, Batch(n, m)
  PROVE  DecodeOut = [i \in 1 .. NumDecodeTokens |-> AttendRow(positions[i] + 1)]
<1>1. dec \in [1 .. n -> Rows]
  BY DEF Batch
<1>2. NextN \in Nat \ {0} /\ BatchSize = n /\ \A r \in 1 .. n : dec[r].len <= NextN
  BY <1>1, Widest
<1>3. Lens(dec) \in [1 .. n -> Nat] /\ DOMAIN Lens(dec) = 1 .. n /\ \A r \in 1 .. n : Lens(dec)[r] = dec[r].len
  BY <1>1, LensOf
<1>4. /\ NumDecodeTokens \in Nat
      /\ \A i, r, t : IsPlace(Lens(dec), i, r, t) => positions[i] = dec[r].pos + t - 1
  BY FlatPositions
<1>5. ASSUME NEW i, NEW r, NEW t, IsPlace(Lens(dec), i, r, t)
      PROVE  dec[r].pos + t = positions[i] + 1
  <2>1. r \in 1 .. n /\ t \in 1 .. dec[r].len /\ dec[r].pos \in Nat /\ dec[r].len \in Nat
    BY <1>1, <1>3, <1>5 DEF IsPlace, Rows
  <2>2. positions[i] = dec[r].pos + t - 1
    BY <1>4, <1>5
  <2> QED BY <2>1, <2>2
<1>6. CASE ~RequiresPadding
  <2>1. NumDecodeTokens = n * NextN /\ \A i \in GridRows : IsPlace(Lens(dec), i, RowReq(i), RowTok(i))
    BY <1>1, <1>6, EvenPlace
  <2>2. GridRows = 1 .. NumDecodeTokens
    BY <1>2, <2>1 DEF GridRows
  <2>3. ASSUME NEW i \in GridRows PROVE DecodeRow(i) = AttendRow(positions[i] + 1)
    <3>1. DecodeTopkSeqLens[i] = positions[i] + 1
      BY <1>6, Zenon DEF DecodeTopkSeqLens
    <3>2. RowPools(i) = (positions[i] + 1) \div KPool
      <4>1. dec[RowReq(i)].pos + RowTok(i) = positions[i] + 1
        BY <1>5, <2>1
      <4> QED BY <4>1 DEF RowPools
    <3> QED BY <3>1, <3>2, Zenon DEF DecodeRow, AttendRow
  <2>4. DecodeOut = [i \in GridRows |-> DecodeRow(i)]
    BY <1>6, Zenon DEF DecodeOut
  <2> QED BY <2>2, <2>3, <2>4, Zenon
<1>7. CASE RequiresPadding
  <2> DEFINE grid == [b \in 1 .. BatchSize |-> [t \in 1 .. NextN |-> DecodeRow((b - 1) * NextN + t)]]
             idx == ScatterIndices(Lens(dec))
  <2>1. DecodeOut = [i \in DOMAIN idx |-> grid[idx[i][1]][idx[i][2]]]
    BY <1>7 DEF DecodeOut, Unpack
  <2>2. DOMAIN idx = 1 .. NumDecodeTokens
    BY DEF ScatterIndices, NumDecodeTokens
  <2>3. ASSUME NEW i \in 1 .. NumDecodeTokens
        PROVE  grid[idx[i][1]][idx[i][2]] = AttendRow(positions[i] + 1)
    <3>1. PICK b \in 1 .. n, t \in Nat : IsPlace(Lens(dec), i, b, t)
      BY <1>3, PlaceExists DEF NumDecodeTokens
    <3>2. idx[i] = <<b, t>>
      BY <1>3, <3>1, ScatterPlace
    <3>3. t \in 1 .. NextN
      <4>1. t \in 1 .. dec[b].len /\ dec[b].len \in Nat /\ dec[b].len <= NextN
        BY <1>1, <1>2, <1>3, <3>1 DEF IsPlace, Rows
      <4> QED BY <1>2, <4>1
    <3> DEFINE k == (b - 1) * NextN + t
    <3>4. grid[b][t] = DecodeRow(k)
      BY <1>2, <3>3
    <3>5. RowReq(k) = b /\ RowTok(k) = t
      <4>1. PICK y : y = (b - 1) * NextN + t
        OBVIOUS
      <4>2. b \in Nat \ {0}
        OBVIOUS
      <4>3. NextN \in Nat \ {0}
        BY <1>2
      <4> HIDE DEF k, grid, idx
      <4>4. RowReq(y) = b /\ RowTok(y) = t
        BY <3>3, <4>1, <4>2, <4>3, GridPlace, Zenon
      <4> QED BY <4>1, <4>4 DEF k
    <3>6. DecodeTopkSeqLens[k] = positions[i] + 1
      BY <1>1, <1>7, <3>1, PaddedSeqLens
    <3> HIDE DEF k
    <3>7. RowPools(k) = (positions[i] + 1) \div KPool
      <4>1. dec[b].pos + t = positions[i] + 1
        BY <1>5, <3>1
      <4> QED BY <3>5, <4>1 DEF RowPools
    <3>8. DecodeRow(k) = AttendRow(positions[i] + 1)
      BY <3>6, <3>7, Zenon DEF DecodeRow, AttendRow
    <3> HIDE DEF grid, idx
    <3>9. idx[i][1] = b /\ idx[i][2] = t
      BY <3>2
    <3> QED BY <3>4, <3>8, <3>9
  <2> HIDE DEF grid, idx
  <2> QED BY <2>1, <2>2, <2>3, Zenon
<1> QED BY <1>6, <1>7

-----------------------------------------------------------------------------
(* What a row holds.                                                       *)

LEMMA PoolOfLength ==
  ASSUME NEW len \in Nat
  PROVE  /\ len \div KPool \in Nat /\ len % KPool \in 0 .. KPool - 1
         /\ (len \div KPool) * KPool \in Nat
         /\ len = (len \div KPool) * KPool + (len % KPool)
<1>1. KPool \in Nat \ {0}
  BY SelectAssumption
<1>2. PICK q \in Nat, o \in 0 .. KPool - 1 : q = len \div KPool /\ o = len % KPool /\ len = KPool * q + o
  BY <1>1, DivMod
<1>3. KPool * q = q * KPool /\ q * KPool \in Nat
  BY <1>1
<1>4. len = q * KPool + o /\ q \in Nat /\ q * KPool \in Nat
  BY <1>2, <1>3
<1>5. q = len \div KPool /\ o = len % KPool /\ o \in 0 .. KPool - 1
  BY <1>2
<1> QED BY <1>4, <1>5, Zenon

LEMMA ListedWithin ==
  ASSUME NEW m \in Nat
  PROVE  Listed(m) \subseteq TopPools(m) /\ TopPools(m) \subseteq 0 .. m - 1
BY DEF Listed, TopPools

(* A pool that is complete lies before the tail.                           *)
LEMMA PoolBeforeTail ==
  ASSUME NEW m \in Nat, NEW p \in 0 .. m - 1, NEW c \in p * KPool .. p * KPool + KPool - 1
  PROVE  c \in 0 .. m * KPool - 1
<1>1. KPool \in Nat /\ p \in Nat
  BY SelectAssumption
<1>2. PICK d \in Nat : m = p + 1 + d
  <2>1. m - 1 - p \in Nat /\ m = p + 1 + (m - 1 - p)
    OBVIOUS
  <2> QED BY <2>1
<1>3. PICK x \in Nat, y \in Nat : x = p * KPool /\ y = d * KPool
  <2>1. p * KPool \in Nat /\ d * KPool \in Nat
    BY <1>1
  <2> QED BY <2>1
<1>4. m * KPool = x + KPool + y
  <2>1. (p + 1 + d) * KPool = p * KPool + KPool + d * KPool
    BY <1>1
  <2> QED BY <1>2, <1>3, <2>1
<1>5. c \in x .. x + KPool - 1
  BY <1>3
<1> QED BY <1>1, <1>3, <1>4, <1>5

Pooled(pools) == UNION {p * KPool .. p * KPool + KPool - 1 : p \in pools}

LEMMA RowParts ==
  ASSUME NEW len \in Nat
  PROVE  /\ AttendRow(len) = Pooled(Listed(len \div KPool)) \cup (len \div KPool) * KPool .. len - 1
         /\ Pooled(Listed(len \div KPool)) \subseteq 0 .. (len \div KPool) * KPool - 1
<1>1. AttendRow(len) = Pooled(Listed(len \div KPool)) \cup (len \div KPool) * KPool .. len - 1
  BY DEF AttendRow, ExpandAndTail, Pooled
<1>2. PICK m \in Nat : m = len \div KPool
  BY PoolOfLength
<1>3. ASSUME NEW c \in Pooled(Listed(m)) PROVE c \in 0 .. m * KPool - 1
  <2>1. PICK p \in Listed(m) : c \in p * KPool .. p * KPool + KPool - 1
    BY DEF Pooled
  <2>2. p \in 0 .. m - 1
    BY ListedWithin
  <2> QED BY <2>1, <2>2, PoolBeforeTail
<1> QED BY <1>1, <1>2, <1>3

(* A row stays within the sequence and has its tail.                       *)
LEMMA RowWithin ==
  ASSUME NEW len \in Nat
  PROVE  /\ AttendRow(len) \subseteq 0 .. len - 1
         /\ (len \div KPool) * KPool .. len - 1 \subseteq AttendRow(len)
<1>1. PICK x \in Nat : x = (len \div KPool) * KPool /\ x <= len
  <2>1. (len \div KPool) * KPool \in Nat /\ len % KPool \in 0 .. KPool - 1
        /\ len = (len \div KPool) * KPool + (len % KPool) /\ KPool \in Nat
    BY PoolOfLength, SelectAssumption
  <2> QED BY <2>1
<1>2. AttendRow(len) = Pooled(Listed(len \div KPool)) \cup x .. len - 1
      /\ Pooled(Listed(len \div KPool)) \subseteq 0 .. x - 1
  BY <1>1, RowParts
<1> QED BY <1>1, <1>2

(* The row of the buffer holds TopK tokens, and the tail if nothing of the *)
(* list is cut for it.                                                     *)
LEMMA Width ==
  /\ BufferWidth \in Nat /\ BufferWidth >= TopK
  /\ trim = "none" => BufferWidth >= TopK + KPool - 1
<1> DEFINE extra == IF trim = "none" THEN KPool - 1 ELSE 0
           y == TopK + extra + BlockN - 1
<1>1. KPool \in Nat \ {0} /\ TopK \in Nat /\ BlockN \in Nat \ {0}
  BY SelectAssumption
<1>2. extra \in Nat /\ y \in Nat
  BY <1>1
<1>3. PICK q \in Nat, o \in 0 .. BlockN - 1 : q = y \div BlockN /\ y = BlockN * q + o
  BY <1>1, <1>2, DivMod
<1>4. PICK w \in Nat : w = BlockN * q /\ q * BlockN = w
  BY <1>1
<1>5. BufferWidth = w
  BY <1>3, <1>4 DEF BufferWidth
<1>6. w >= TopK + extra
  <2> HIDE DEF extra
  <2> QED BY <1>1, <1>2, <1>3, <1>4
<1> QED BY <1>1, <1>5, <1>6

-----------------------------------------------------------------------------
(* How much a row holds.                                                   *)

(* The kernels order the first m pools.                                    *)
Ordered(m) == \A p, q \in 0 .. m - 1 : score[p] \in Int /\ (score[p] = score[q] => p = q)

Better(m, p) == {q \in 0 .. m - 1 : score[q] > score[p]}

(* Ranks are different and start at 0: each rank below m is some pool's.   *)
LEMMA Ranks ==
  ASSUME NEW m \in Nat, Ordered(m)
  PROVE  /\ [p \in 0 .. m - 1 |-> Cardinality(Better(m, p))] \in Bijection(0 .. m - 1, 0 .. m - 1)
         /\ \A p, q \in 0 .. m - 1 :
              score[p] > score[q] => Cardinality(Better(m, p)) < Cardinality(Better(m, q))
<1> DEFINE S == 0 .. m - 1
           rank == [p \in S |-> Cardinality(Better(m, p))]
<1>1. IsFiniteSet(S) /\ Cardinality(S) = m
  BY FS_Interval
<1>2. ASSUME NEW p \in S
      PROVE  Better(m, p) \subseteq S \ {p} /\ IsFiniteSet(Better(m, p)) /\ Cardinality(Better(m, p)) \in S
  <2>1. Better(m, p) \subseteq S \ {p}
    BY DEF Ordered, Better
  <2>2. IsFiniteSet(S \ {p}) /\ Cardinality(S \ {p}) = m - 1
    BY <1>1, FS_RemoveElement
  <2>3. IsFiniteSet(Better(m, p)) /\ Cardinality(Better(m, p)) <= m - 1
    BY <2>1, <2>2, FS_Subset
  <2>4. Cardinality(Better(m, p)) \in Nat
    BY <2>3, FS_CardinalityType
  <2> QED BY <2>1, <2>3, <2>4
<1>3. ASSUME NEW p \in S, NEW q \in S, score[p] > score[q]
      PROVE  Cardinality(Better(m, p)) < Cardinality(Better(m, q))
  <2>1. Better(m, p) \subseteq Better(m, q) /\ p \in Better(m, q) /\ p \notin Better(m, p)
    BY <1>3 DEF Ordered, Better
  <2>2. Cardinality(Better(m, p)) <= Cardinality(Better(m, q))
        /\ (Cardinality(Better(m, q)) = Cardinality(Better(m, p)) => Better(m, q) = Better(m, p))
    BY <1>2, <2>1, FS_Subset
  <2>3. Cardinality(Better(m, p)) \in Nat /\ Cardinality(Better(m, q)) \in Nat
    BY <1>2
  <2> QED BY <2>1, <2>2, <2>3
<1>4. rank \in [S -> S]
  BY <1>2
<1>5. ASSUME NEW p \in S, NEW q \in S, rank[p] = rank[q] PROVE p = q
  <2>1. score[p] \in Int /\ score[q] \in Int /\ (score[p] = score[q] => p = q)
    BY DEF Ordered
  <2>2. rank[p] = Cardinality(Better(m, p)) /\ rank[q] = Cardinality(Better(m, q))
        /\ rank[p] \in Nat /\ rank[q] \in Nat
    BY <1>2
  <2>3. ~(score[p] > score[q]) /\ ~(score[q] > score[p])
    <3>1. Cardinality(Better(m, p)) = Cardinality(Better(m, q)) /\ Cardinality(Better(m, p)) \in Nat
      BY <1>5, <2>2
    <3>2. score[p] > score[q] => Cardinality(Better(m, p)) < Cardinality(Better(m, q))
      BY <1>3
    <3>3. score[q] > score[p] => Cardinality(Better(m, q)) < Cardinality(Better(m, p))
      BY <1>3
    <3> QED BY <3>1, <3>2, <3>3
  <2> QED BY <2>1, <2>3
<1> HIDE DEF rank
<1>6. rank \in Injection(S, S)
  BY <1>4, <1>5 DEF Injection, IsInjective
<1>7. rank \in Surjection(S, S)
  <2> HIDE DEF S
  <2> QED BY <1>1, <1>6, FS_Injection
<1> QED BY <1>3, <1>6, <1>7 DEF Bijection, rank

LEMMA TopPoolsCount ==
  ASSUME NEW m \in Nat, Ordered(m)
  PROVE  /\ IsFiniteSet(TopPools(m))
         /\ Cardinality(TopPools(m)) = IF m <= select_k THEN m ELSE select_k
<1> DEFINE S == 0 .. m - 1
           rank == [p \in S |-> Cardinality(Better(m, p))]
           k == select_k
           R == {x \in S : x < k}
           top == [p \in TopPools(m) |-> rank[p]]
<1>1. k \in Nat
  BY SelectAssumption, DivMod DEF select_k
<1>2. rank \in [S -> S] /\ (\A p, q \in S : rank[p] = rank[q] => p = q) /\ \A x \in S : \E p \in S : rank[p] = x
  <2>1. rank \in Bijection(S, S)
    BY Ranks
  <2> HIDE DEF rank
  <2> QED BY <2>1 DEF Bijection, Injection, Surjection, IsInjective
<1>3. TopPools(m) = {p \in S : rank[p] < k}
  BY DEF TopPools, Better
<1> HIDE DEF rank, k
<1>4. top \in [TopPools(m) -> R]
  BY <1>2, <1>3
<1>5. \A p, q \in TopPools(m) : top[p] = top[q] => p = q
  BY <1>2, <1>3
<1>6. \A x \in R : \E p \in TopPools(m) : top[p] = x
  <2> SUFFICES ASSUME NEW x \in R PROVE \E p \in TopPools(m) : top[p] = x
    OBVIOUS
  <2>1. PICK p \in S : rank[p] = x
    BY <1>2
  <2>2. p \in TopPools(m)
    BY <1>3, <2>1
  <2> QED BY <2>1, <2>2
<1>7. top \in Bijection(TopPools(m), R)
  <2> HIDE DEF top, R
  <2> QED BY <1>4, <1>5, <1>6 DEF Bijection, Injection, Surjection, IsInjective
<1>8. R = 0 .. (IF m <= k THEN m ELSE k) - 1
  BY <1>1
<1>9. IsFiniteSet(R) /\ Cardinality(R) = IF m <= k THEN m ELSE k
  <2> DEFINE j == IF m <= k THEN m ELSE k
  <2>1. j \in Nat
    BY <1>1
  <2> HIDE DEF j
  <2>2. IsFiniteSet(0 .. j - 1) /\ Cardinality(0 .. j - 1) = j
    BY <2>1, FS_Interval
  <2> QED BY <1>8, <2>2 DEF j
<1> HIDE DEF R
<1>10. IsFiniteSet(TopPools(m)) /\ Cardinality(TopPools(m)) = Cardinality(R)
  <2> HIDE DEF top
  <2>1. top \in Injection(TopPools(m), R) /\ top \in Surjection(TopPools(m), R)
    BY <1>7 DEF Bijection
  <2> QED BY <1>9, <2>1, FS_Injection
<1> QED BY <1>9, <1>10 DEF k

(* The pool that comes last in the kernels' list.                          *)
ComesLast(m, p) ==
  \A q \in TopPools(m) : IF trim = "best" THEN score[p] >= score[q] ELSE score[p] <= score[q]

LEMMA SomeLast ==
  ASSUME NEW m \in Nat, Ordered(m), TopPools(m) # {}
  PROVE  \E p \in TopPools(m) : ComesLast(m, p)
<1> DEFINE P == TopPools(m)
           S == 0 .. m - 1
<1>0. P \subseteq S /\ P # {}
  BY ListedWithin
<1> DEFINE rank(p) == Cardinality(Better(m, p))
           T == {rank(p) : p \in P}
<1>1. \A p \in P : p \in S /\ rank(p) \in 0 .. m
  <2>1. [p \in S |-> rank(p)] \in [S -> S]
    BY Ranks DEF Bijection, Injection
  <2> HIDE DEF rank
  <2>2. \A p \in S : rank(p) \in S
    BY <2>1
  <2> QED BY <1>0, <2>2
<1>2. \A p, q \in P : score[p] \in Int /\ score[q] \in Int /\ (score[p] > score[q] => rank(p) < rank(q))
  BY <1>0, Ranks DEF Ordered
<1> HIDE DEF rank, P
<1>3. T \subseteq 0 .. m /\ T # {}
  BY <1>0, <1>1
<1>4. CASE trim = "best"
  <2>1. PICK x \in T : \A y \in T : x <= y
    <3>1. T \subseteq Nat
      BY <1>3
    <3> HIDE DEF T
    <3> QED BY <1>3, <3>1, LeastNatural
  <2>2. PICK p \in P : rank(p) = x
    BY <2>1
  <2>3. \A q \in P : score[p] >= score[q]
    <3> SUFFICES ASSUME NEW q \in P PROVE score[p] >= score[q]
      OBVIOUS
    <3>1. rank(p) <= rank(q) /\ rank(p) \in Nat /\ rank(q) \in Nat
      BY <1>1, <2>1, <2>2
    <3> QED BY <1>2, <3>1
  <2> QED BY <1>4, <2>3 DEF ComesLast, P
<1>5. CASE trim # "best"
  <2>1. PICK x \in T : \A y \in T : x >= y
    BY <1>3, LargestNatural
  <2>2. PICK p \in P : rank(p) = x
    BY <2>1
  <2>3. \A q \in P : score[p] <= score[q]
    <3> SUFFICES ASSUME NEW q \in P PROVE score[p] <= score[q]
      OBVIOUS
    <3>1. rank(q) <= rank(p) /\ rank(p) \in Nat /\ rank(q) \in Nat
      BY <1>1, <2>1, <2>2
    <3> QED BY <1>2, <3>1
  <2> QED BY <1>5, <2>3 DEF ComesLast, P
<1> QED BY <1>4, <1>5

(* The list the row is expanded from: all pools while there are few, the   *)
(* best select_k of them, or one less.                                     *)
LEMMA ListedCount ==
  ASSUME NEW m \in Nat, Ordered(m)
  PROVE  /\ IsFiniteSet(Listed(m))
         /\ m < select_k \/ (m = select_k /\ trim = "none") => Listed(m) = 0 .. m - 1
         /\ m >= select_k =>
              Cardinality(Listed(m)) = IF trim = "none" THEN select_k ELSE select_k - 1
<1> DEFINE P == TopPools(m)
           k == select_k
           S == 0 .. m - 1
           up(p) == \A q \in P : IF trim = "best" THEN score[p] >= score[q] ELSE score[p] <= score[q]
           last == CHOOSE p \in P : up(p)
<1>1. k \in Nat \ {0}
  <2>1. PICK q \in Nat : TopK = KPool * q
    BY SelectAssumption, Multiple
  <2>2. TopK \div KPool = q
    <3>1. 0 \in 0 .. KPool - 1 /\ TopK = KPool * q + 0
      BY <2>1, SelectAssumption
    <3> QED BY <2>1, <3>1, SelectAssumption, DivModUnique
  <2>3. q # 0
    BY <2>1, SelectAssumption
  <2> QED BY <2>1, <2>2, <2>3 DEF select_k
<1>2. /\ P \subseteq S /\ IsFiniteSet(S) /\ Cardinality(S) = m
      /\ IsFiniteSet(P) /\ Cardinality(P) = IF m <= k THEN m ELSE k
  BY ListedWithin, FS_Interval, TopPoolsCount
<1>3. m <= k => P = S
  <2> HIDE DEF P, k, S
  <2> QED BY <1>2, FS_Subset
<1>4. Listed(m) = IF trim = "none" \/ Cardinality(P) < k THEN P ELSE P \ {last}
  BY DEF Listed
<1>5. P # {} => \E p \in P : up(p)
  BY SomeLast DEF ComesLast
<1> HIDE DEF P, k, S, up
<1>6. P # {} => last \in P
  BY <1>5
<1>7. m >= k => P # {}
  BY <1>1, <1>2, FS_EmptySet
<1> HIDE DEF last
<1>8. last \in P => IsFiniteSet(P \ {last}) /\ Cardinality(P \ {last}) = Cardinality(P) - 1
  BY <1>2, FS_RemoveElement
<1>9. IsFiniteSet(P \ {last})
  BY <1>2, FS_RemoveElement
<1>10. IsFiniteSet(Listed(m))
  BY <1>2, <1>4, <1>9
<1>11. m < k \/ (m = k /\ trim = "none") => Listed(m) = P /\ P = S
  BY <1>1, <1>2, <1>3, <1>4
<1>12. m >= k => Cardinality(P) = k
  BY <1>1, <1>2
<1>13. m >= k => Cardinality(Listed(m)) = IF trim = "none" THEN k ELSE k - 1
  BY <1>1, <1>4, <1>6, <1>7, <1>8, <1>12
<1> QED BY <1>10, <1>11, <1>13 DEF k, S

LEMMA SelectK ==
  select_k \in Nat \ {0} /\ TopK = KPool * select_k /\ KPool \in Nat \ {0} /\ TopK \in Nat \ {0}
<1>1. KPool \in Nat \ {0} /\ TopK \in Nat \ {0} /\ TopK % KPool = 0
  BY SelectAssumption
<1>2. PICK q \in Nat : TopK = KPool * q
  BY <1>1, Multiple
<1>3. 0 \in 0 .. KPool - 1 /\ TopK = KPool * q + 0
  BY <1>1, <1>2
<1>4. TopK \div KPool = q
  BY <1>1, <1>2, <1>3, DivModUnique
<1>5. q # 0
  BY <1>1, <1>2
<1> QED BY <1>1, <1>2, <1>4, <1>5 DEF select_k

(* A list cut at its lowest-ranked pool has the best pools.                *)
LEMMA ListedBest ==
  ASSUME NEW m \in Nat, Ordered(m), trim # "best",
         NEW p \in Listed(m), NEW q \in 0 .. m - 1, q \notin Listed(m)
  PROVE  score[p] > score[q]
<1> DEFINE P == TopPools(m)
           last == CHOOSE a \in P : \A b \in P : IF trim = "best" THEN score[a] >= score[b]
                                                                  ELSE score[a] <= score[b]
<1>1. p \in P /\ P \subseteq 0 .. m - 1
  BY ListedWithin
<1>2. score[p] \in Int /\ score[q] \in Int /\ (score[p] = score[q] => p = q) /\ p # q
  BY <1>1 DEF Ordered
<1>3. CASE q \notin P
  <2> SUFFICES ASSUME score[q] > score[p] PROVE FALSE
    BY <1>2
  <2>1. [a \in 0 .. m - 1 |-> Cardinality(Better(m, a))] \in [0 .. m - 1 -> 0 .. m - 1]
    BY Ranks DEF Bijection, Injection
  <2>2. PICK x \in Nat, y \in Nat : x = Cardinality(Better(m, q)) /\ y = Cardinality(Better(m, p))
    <3>1. \A a \in 0 .. m - 1 : Cardinality(Better(m, a)) \in 0 .. m - 1
      BY <2>1
    <3> QED BY <1>1, <3>1
  <2>3. x < y
    BY <1>1, <2>2, Ranks
  <2>4. y < select_k /\ ~(x < select_k)
    BY <1>1, <1>3, <2>2 DEF TopPools, Better
  <2>5. select_k \in Nat
    BY SelectK
  <2> QED BY <2>2, <2>3, <2>4, <2>5
<1>4. CASE q \in P
  <2>1. Listed(m) = P \/ Listed(m) = P \ {last}
    BY DEF Listed
  <2>2. q = last
    BY <1>4, <2>1
  <2>3. \A b \in P : score[q] <= score[b]
    <3>1. \E a \in P : \A b \in P : IF trim = "best" THEN score[a] >= score[b] ELSE score[a] <= score[b]
      BY <1>4, SomeLast DEF ComesLast
    <3>2. \A b \in P : IF trim = "best" THEN score[last] >= score[b] ELSE score[last] <= score[b]
      BY <3>1
    <3> QED BY <2>2, <3>2
  <2>4. score[q] <= score[p]
    BY <1>1, <2>3
  <2> QED BY <1>2, <2>4
<1> QED BY <1>3, <1>4

(* Pools do not overlap.                                                   *)
LEMMA PooledCount ==
  ASSUME NEW P, P \subseteq Nat, IsFiniteSet(P)
  PROVE  IsFiniteSet(Pooled(P)) /\ Cardinality(Pooled(P)) = Cardinality(P) * KPool
<1> DEFINE O == 0 .. KPool - 1
           f == [x \in P \X O |-> x[1] * KPool + x[2]]
<1>1. KPool \in Nat \ {0}
  BY SelectAssumption
<1>2. IsFiniteSet(O) /\ Cardinality(O) = KPool
  BY <1>1, FS_Interval
<1>3. \A p \in P, o \in O : f[<<p, o>>] = p * KPool + o
  OBVIOUS
<1>4. \A p \in P, o \in O : f[<<p, o>>] \in Pooled(P)
  <2> SUFFICES ASSUME NEW p \in P, NEW o \in O PROVE f[<<p, o>>] \in Pooled(P)
    OBVIOUS
  <2>1. PICK y \in Nat : y = p * KPool
    BY <1>1
  <2>2. y + o \in y .. y + KPool - 1
    BY <1>1
  <2> QED BY <1>3, <2>1, <2>2 DEF Pooled
<1>5. \A c \in Pooled(P) : \E p \in P, o \in O : f[<<p, o>>] = c
  <2> SUFFICES ASSUME NEW c \in Pooled(P) PROVE \E p \in P, o \in O : f[<<p, o>>] = c
    OBVIOUS
  <2>1. PICK p \in P : c \in p * KPool .. p * KPool + KPool - 1
    BY DEF Pooled
  <2>2. PICK y \in Nat : y = p * KPool
    BY <1>1
  <2>3. c \in y .. y + KPool - 1
    BY <2>1, <2>2
  <2>4. c - y \in O /\ y + (c - y) = c
    BY <1>1, <2>3
  <2> QED BY <1>3, <2>2, <2>4
<1>6. ASSUME NEW p \in P, NEW o \in O, NEW q \in P, NEW u \in O, f[<<p, o>>] = f[<<q, u>>]
      PROVE  p = q /\ o = u
  <2>1. PICK y \in Nat : y = p * KPool + o /\ y = q * KPool + u
    <3>1. p * KPool + o \in Nat
      BY <1>1
    <3> QED BY <1>3, <1>6, <3>1
  <2>2. p \in Nat /\ q \in Nat /\ y = KPool * p + o /\ y = KPool * q + u
    BY <1>1, <2>1
  <2>3. y % KPool = o /\ y \div KPool = p
    BY <1>1, <2>2, DivModUnique
  <2>4. y % KPool = u /\ y \div KPool = q
    BY <1>1, <2>2, DivModUnique
  <2> QED BY <2>3, <2>4
<1>7. DOMAIN f = P \X O
  OBVIOUS
<1>8. f = [x \in P \X O |-> f[x]]
  OBVIOUS
<1> HIDE DEF f, O
<1>9. f \in [P \X O -> Pooled(P)]
  <2>1. \A x \in P \X O : f[x] \in Pooled(P)
    BY <1>4
  <2> QED BY <1>8, <2>1
<1>10. f \in Injection(P \X O, Pooled(P))
  <2>1. ASSUME NEW x \in P \X O, NEW y \in P \X O, f[x] = f[y] PROVE x = y
    <3>1. \E p \in P, o \in O : x = <<p, o>>
      <4>1. x = <<x[1], x[2]>> /\ x[1] \in P /\ x[2] \in O
        OBVIOUS
      <4> QED BY <4>1, Zenon
    <3>2. \E p \in P, o \in O : y = <<p, o>>
      <4>1. y = <<y[1], y[2]>> /\ y[1] \in P /\ y[2] \in O
        OBVIOUS
      <4> QED BY <4>1, Zenon
    <3>3. PICK p \in P, o \in O : x = <<p, o>>
      BY <3>1
    <3>4. PICK q \in P, u \in O : y = <<q, u>>
      BY <3>2
    <3>5. f[<<p, o>>] = f[<<q, u>>]
      BY <2>1, <3>3, <3>4, Zenon
    <3>6. p = q /\ o = u
      BY <1>6, <3>5
    <3> QED BY <3>3, <3>4, <3>6
  <2> QED BY <1>9, <2>1 DEF Injection, IsInjective
<1>11. f \in Surjection(P \X O, Pooled(P))
  <2>1. \A c \in Pooled(P) : \E x \in P \X O : f[x] = c
    BY <1>5
  <2> QED BY <1>9, <2>1 DEF Surjection
<1>12. IsFiniteSet(P \X O) /\ Cardinality(P \X O) = Cardinality(P) * KPool
  BY <1>2, FS_Product
<1>13. IsFiniteSet(Pooled(P)) /\ Cardinality(Pooled(P)) = Cardinality(P \X O)
  BY <1>10, <1>11, <1>12, FS_Surjection
<1> QED BY <1>12, <1>13

LEMMA RowSize ==
  ASSUME NEW len \in Nat, Ordered(len \div KPool)
  PROVE  /\ IsFiniteSet(AttendRow(len))
         /\ Cardinality(AttendRow(len)) = Cardinality(Listed(len \div KPool)) * KPool + (len % KPool)
<1>1. PICK m \in Nat, o \in 0 .. KPool - 1, x \in Nat :
        m = len \div KPool /\ o = len % KPool /\ x = m * KPool /\ len = x + o
  BY PoolOfLength
<1>2. KPool \in Nat
  BY SelectAssumption
<1> DEFINE A == Pooled(Listed(m))
           B == x .. len - 1
<1>3. AttendRow(len) = A \cup B /\ A \subseteq 0 .. x - 1
  BY <1>1, RowParts
<1>4. Listed(m) \subseteq Nat /\ IsFiniteSet(Listed(m))
  <2>1. Listed(m) \subseteq 0 .. m - 1
    BY ListedWithin
  <2> QED BY <1>1, <2>1, ListedCount
<1>5. IsFiniteSet(A) /\ Cardinality(A) = Cardinality(Listed(m)) * KPool
  BY <1>4, PooledCount
<1>6. IsFiniteSet(B) /\ Cardinality(B) = o
  <2>1. IsFiniteSet(x .. len - 1) /\ Cardinality(x .. len - 1) = IF x > len - 1 THEN 0 ELSE len - 1 - x + 1
    <3>1. x \in Int /\ len - 1 \in Int
      OBVIOUS
    <3> QED BY <3>1, FS_Interval
  <2>2. o \in Nat
    BY <1>2
  <2> QED BY <1>1, <2>1, <2>2
<1>7. A \cap B = {}
  BY <1>3
<1> HIDE DEF A, B
<1>8. Cardinality(A \cap B) = 0
  BY <1>7, FS_EmptySet
<1>9. IsFiniteSet(A \cup B) /\ Cardinality(A \cup B) = Cardinality(A) + o
  <2>1. IsFiniteSet(A \cup B) /\ Cardinality(A \cup B) = Cardinality(A) + Cardinality(B) - Cardinality(A \cap B)
    BY <1>5, <1>6, FS_Union
  <2>2. Cardinality(A) \in Nat
    BY <1>5, FS_CardinalityType
  <2>3. o \in Nat
    BY <1>2
  <2> QED BY <1>6, <1>8, <2>1, <2>2, <2>3
<1> QED BY <1>1, <1>3, <1>5, <1>9

(* Fewer than TopK tokens are fewer than select_k whole pools.             *)
LEMMA ShortLength ==
  ASSUME NEW len \in Nat
  PROVE  /\ len < TopK <=> len \div KPool < select_k
         /\ len = TopK => len \div KPool = select_k /\ len % KPool = 0
<1>1. PICK m \in Nat, o \in 0 .. KPool - 1, x \in Nat :
        m = len \div KPool /\ o = len % KPool /\ x = m * KPool /\ len = x + o
  BY PoolOfLength
<1>2. PICK k \in Nat : k = select_k /\ TopK = KPool * k /\ KPool \in Nat \ {0} /\ KPool * k = k * KPool
  BY SelectK
<1>3. CASE m < k
  <2>1. PICK d \in Nat : k = m + 1 + d
    <3>1. k - m - 1 \in Nat /\ k = m + 1 + (k - m - 1)
      BY <1>3
    <3> QED BY <3>1
  <2>2. k * KPool = x + KPool + d * KPool /\ d * KPool \in Nat
    <3>1. (m + 1 + d) * KPool = m * KPool + KPool + d * KPool
      BY <1>2
    <3> QED BY <1>1, <1>2, <2>1, <3>1
  <2>3. len < TopK
    BY <1>1, <1>2, <2>2
  <2> QED BY <1>1, <1>2, <1>3, <2>3
<1>4. CASE m >= k
  <2>1. PICK d \in Nat : m = k + d
    <3>1. m - k \in Nat /\ m = k + (m - k)
      BY <1>4
    <3> QED BY <3>1
  <2>2. PICK e \in Nat : e = d * KPool /\ x = TopK + e
    <3>1. (k + d) * KPool = k * KPool + d * KPool /\ d * KPool \in Nat
      BY <1>2
    <3> QED BY <1>1, <1>2, <2>1, <3>1
  <2>3. ~(len < TopK) /\ ~(m < k)
    BY <1>1, <1>2, <1>4, <2>2, SelectK
  <2>4. ASSUME len = TopK PROVE m = k /\ o = 0
    <3>1. e = 0 /\ o = 0
      BY <1>1, <2>2, <2>4, SelectK
    <3>2. d = 0
      BY <1>2, <2>2, <3>1
    <3> QED BY <2>1, <3>1, <3>2
  <2> QED BY <1>1, <1>2, <2>3, <2>4
<1> QED BY <1>3, <1>4

(* Whole while it can be, TopK tokens and the tail after that.             *)
LEMMA RowDense ==
  ASSUME NEW len \in Nat, Ordered(len \div KPool)
  PROVE  /\ len < TopK \/ (len = TopK /\ trim = "none") => 0 .. len - 1 \subseteq AttendRow(len)
         /\ len >= TopK => Cardinality(AttendRow(len)) =
              IF trim = "none" THEN TopK + (len % KPool) ELSE TopK - KPool + (len % KPool)
<1>1. PICK m \in Nat, o \in 0 .. KPool - 1, x \in Nat :
        m = len \div KPool /\ o = len % KPool /\ x = m * KPool /\ len = x + o
  BY PoolOfLength
<1>2. KPool \in Nat \ {0} /\ select_k \in Nat \ {0} /\ TopK = KPool * select_k /\ TopK \in Nat
  BY SelectK
<1>3. /\ m < select_k \/ (m = select_k /\ trim = "none") => Listed(m) = 0 .. m - 1
      /\ m >= select_k => Cardinality(Listed(m)) = IF trim = "none" THEN select_k ELSE select_k - 1
  BY <1>1, ListedCount
<1>4. ASSUME len < TopK \/ (len = TopK /\ trim = "none") PROVE 0 .. len - 1 \subseteq AttendRow(len)
  <2>1. Listed(m) = 0 .. m - 1
    BY <1>1, <1>3, <1>4, ShortLength
  <2>2. AttendRow(len) = Pooled(0 .. m - 1) \cup x .. len - 1
    BY <1>1, <2>1, RowParts
  <2>3. ASSUME NEW c \in 0 .. len - 1, c < x PROVE c \in Pooled(0 .. m - 1)
    <3>1. PICK p \in Nat, u \in 0 .. KPool - 1, y \in Nat :
            p = c \div KPool /\ y = p * KPool /\ c = y + u
      <4>1. c \in Nat
        OBVIOUS
      <4> QED BY <4>1, PoolOfLength
    <3>2. p < m
      <4> SUFFICES ASSUME p >= m PROVE FALSE
        OBVIOUS
      <4>1. PICK d \in Nat : p = m + d
        <5>1. p - m \in Nat /\ p = m + (p - m)
          OBVIOUS
        <5> QED BY <5>1
      <4>2. y = x + d * KPool /\ d * KPool \in Nat
        <5>1. (m + d) * KPool = m * KPool + d * KPool /\ d * KPool \in Nat
          BY <1>2
        <5> QED BY <1>1, <3>1, <4>1, <5>1
      <4> QED BY <1>1, <2>3, <3>1, <4>2
    <3>3. p \in 0 .. m - 1 /\ c \in y .. y + KPool - 1
      BY <1>2, <3>1, <3>2
    <3> QED BY <3>1, <3>3 DEF Pooled
  <2>4. ASSUME NEW c \in 0 .. len - 1, ~(c < x) PROVE c \in x .. len - 1
    BY <2>4
  <2> QED BY <2>2, <2>3, <2>4
<1>5. ASSUME len >= TopK
      PROVE  Cardinality(AttendRow(len)) = IF trim = "none" THEN TopK + o ELSE TopK - KPool + o
  <2>1. m >= select_k
    BY <1>1, <1>2, <1>5, ShortLength
  <2>2. Cardinality(AttendRow(len)) = Cardinality(Listed(m)) * KPool + o
    BY <1>1, RowSize
  <2>3. select_k * KPool = TopK /\ (select_k - 1) * KPool = TopK - KPool
    BY <1>2
  <2> QED BY <1>3, <2>1, <2>2, <2>3
<1> QED BY <1>1, <1>4, <1>5

(* A complete pool is in a row, first token and all, if the list has it.   *)
LEMMA PoolInRow ==
  ASSUME NEW len \in Nat, NEW p \in 0 .. len \div KPool - 1
  PROVE  p * KPool \in AttendRow(len) <=> p \in Listed(len \div KPool)
<1>1. PICK m \in Nat, x \in Nat : m = len \div KPool /\ x = m * KPool
  BY PoolOfLength
<1>2. KPool \in Nat \ {0} /\ p \in Nat /\ p \in 0 .. m - 1
  BY <1>1, SelectK
<1>3. PICK y \in Nat : y = p * KPool
  BY <1>2
<1>4. y \in p * KPool .. p * KPool + KPool - 1
  BY <1>2, <1>3
<1>5. y \in 0 .. x - 1
  BY <1>1, <1>2, <1>4, PoolBeforeTail
<1>6. AttendRow(len) = Pooled(Listed(m)) \cup x .. len - 1
  BY <1>1, RowParts
<1>7. y \in AttendRow(len) <=> y \in Pooled(Listed(m))
  BY <1>1, <1>5, <1>6
<1>8. ASSUME p \in Listed(m) PROVE y \in Pooled(Listed(m))
  BY <1>4, <1>8 DEF Pooled
<1>9. ASSUME y \in Pooled(Listed(m)) PROVE p \in Listed(m)
  <2>1. PICK q \in Listed(m) : y \in q * KPool .. q * KPool + KPool - 1
    BY <1>9 DEF Pooled
  <2>2. q \in Nat
    BY <2>1, ListedWithin
  <2>3. PICK z \in Nat : z = q * KPool /\ z = KPool * q
    BY <1>2, <2>2
  <2>4. y - z \in 0 .. KPool - 1 /\ y = z + (y - z)
    BY <1>2, <2>1, <2>3
  <2>5. y \div KPool = q
    BY <1>2, <2>2, <2>3, <2>4, DivModUnique
  <2>6. y = KPool * p + 0 /\ 0 \in 0 .. KPool - 1
    BY <1>2, <1>3
  <2>7. y \div KPool = p
    BY <1>2, <2>6, DivModUnique
  <2> QED BY <2>5, <2>7
<1> QED BY <1>1, <1>3, <1>7, <1>8, <1>9

LEMMA RowFits ==
  ASSUME NEW len \in Nat, Ordered(len \div KPool)
  PROVE  IsFiniteSet(AttendRow(len)) /\ Cardinality(AttendRow(len)) <= BufferWidth
<1>1. IsFiniteSet(AttendRow(len))
  BY RowSize
<1>2. PICK o \in 0 .. KPool - 1 : o = len % KPool
  BY PoolOfLength
<1>3. BufferWidth \in Nat /\ BufferWidth >= TopK /\ (trim = "none" => BufferWidth >= TopK + KPool - 1)
      /\ KPool \in Nat /\ TopK \in Nat
  BY Width, SelectK
<1>4. CASE len < TopK
  <2>1. AttendRow(len) \subseteq 0 .. len - 1
    BY RowWithin
  <2>2. IsFiniteSet(0 .. len - 1) /\ Cardinality(0 .. len - 1) = len
    BY FS_Interval
  <2>3. Cardinality(AttendRow(len)) <= len
    BY <2>1, <2>2, FS_Subset
  <2>4. Cardinality(AttendRow(len)) \in Nat
    BY <1>1, FS_CardinalityType
  <2> QED BY <1>1, <1>3, <1>4, <2>3, <2>4
<1>5. CASE len >= TopK
  <2>1. Cardinality(AttendRow(len)) = IF trim = "none" THEN TopK + o ELSE TopK - KPool + o
    BY <1>2, <1>5, RowDense
  <2> QED BY <1>1, <1>3, <2>1
<1> QED BY <1>3, <1>4, <1>5

-----------------------------------------------------------------------------
(* The forward.                                                            *)

SelectInv ==
  /\ TypeOK
  /\ NumTokens \in 1 .. MaxRows - pad
  /\ pc # "reset" => \A i \in NumTokens + 1 .. NumTokens + pad : buffer[i] = {}
  /\ pc \in {"decode", "done"} =>
       \A i \in NumDecodeTokens + 1 .. NumTokens : buffer[i] = PrefillRow(i)
  /\ pc = "done" => \A i \in 1 .. NumDecodeTokens : buffer[i] = AttendRow(positions[i] + 1)

Fits(row) == IsFiniteSet(row) /\ Cardinality(row) <= BufferWidth

LEMMA BatchShape ==
  ASSUME dec \in Batches(DecodeRows), pre \in Batches(PrefillRows)
  PROVE  \E n \in Nat, m \in Nat :
           /\ Batch(n, m)
           /\ \A r \in 1 .. n : dec[r] \in DecodeRows
           /\ \A r \in 1 .. m : pre[r] \in PrefillRows
<1>1. DecodeRows \subseteq Rows /\ PrefillRows \subseteq Rows /\ MaxRequests \in Nat
  BY SelectAssumption DEF Rows
<1>2. PICK n \in 0 .. MaxRequests : dec \in [1 .. n -> DecodeRows]
  BY DEF Batches
<1>3. PICK m \in 0 .. MaxRequests : pre \in [1 .. m -> PrefillRows]
  BY DEF Batches
<1>4. n \in Nat /\ m \in Nat
  BY <1>1
<1>5. dec \in [1 .. n -> Rows] /\ pre \in [1 .. m -> Rows]
  BY <1>1, <1>2, <1>3
<1> QED BY <1>2, <1>3, <1>4, <1>5 DEF Batch

(* The position of a token is one of a request's, decode's or prefill's,   *)
(* and the pools before it have an order.                                  *)
LEMMA TokenOf ==
  ASSUME dec \in Batches(DecodeRows), pre \in Batches(PrefillRows), score \in Scores,
         NEW i \in 1 .. NumTokens
  PROVE  /\ positions[i] \in Nat /\ NumDecodeTokens \in Nat /\ NumTokens \in Nat
         /\ Ordered((positions[i] + 1) \div KPool)
         /\ i > NumDecodeTokens =>
              \E r \in DOMAIN pre : positions[i] < pre[r].pos + pre[r].len
<1>1. PICK n \in Nat, m \in Nat : /\ Batch(n, m)
                                  /\ \A r \in 1 .. n : dec[r] \in DecodeRows
                                  /\ \A r \in 1 .. m : pre[r] \in PrefillRows
  BY BatchShape
<1>2. dec \in [1 .. n -> Rows] /\ pre \in [1 .. m -> Rows]
  BY <1>1 DEF Batch
<1>3. /\ Lens(dec) \in [1 .. n -> Nat] /\ \A r \in 1 .. n : Lens(dec)[r] = dec[r].len
      /\ Lens(pre) \in [1 .. m -> Nat] /\ \A r \in 1 .. m : Lens(pre)[r] = pre[r].len
      /\ DOMAIN Lens(dec) = 1 .. n /\ DOMAIN Lens(pre) = 1 .. m
  BY <1>2, LensOf
<1>4. /\ NumDecodeTokens \in Nat /\ Total(Lens(pre)) \in Nat
      /\ NumTokens = NumDecodeTokens + Total(Lens(pre))
      /\ \A j, r, t : IsPlace(Lens(dec), j, r, t) => positions[j] = dec[r].pos + t - 1
      /\ \A j, r, t : IsPlace(Lens(pre), j, r, t) => positions[NumDecodeTokens + j] = pre[r].pos + t - 1
      /\ positions[i] \in Nat
  BY <1>1, FlatPositions
<1>5. ASSUME NEW row \in DecodeRows \cup PrefillRows, NEW t \in 1 .. row.len, positions[i] = row.pos + t - 1
      PROVE  positions[i] < row.pos + row.len /\ Ordered((positions[i] + 1) \div KPool)
  <2>1. row.pos \in Nat /\ row.len \in Nat /\ KPool \in Nat \ {0}
    BY SelectAssumption
  <2>2. PICK a \in Nat, b \in Nat : a = positions[i] + 1 /\ b = row.pos + row.len /\ a <= b
    BY <1>5, <2>1
  <2>3. a \div KPool \in Nat /\ b \div KPool \in Nat /\ a \div KPool <= b \div KPool
    <3>1. PICK u \in Nat, v \in 0 .. KPool - 1, p \in Nat, q \in 0 .. KPool - 1 :
            /\ u = a \div KPool /\ a = KPool * u + v
            /\ p = b \div KPool /\ b = KPool * p + q
      <4>1. a \div KPool \in Nat /\ a % KPool \in 0 .. KPool - 1 /\ a = KPool * (a \div KPool) + (a % KPool)
        BY <2>1, DivMod
      <4>2. b \div KPool \in Nat /\ b % KPool \in 0 .. KPool - 1 /\ b = KPool * (b \div KPool) + (b % KPool)
        BY <2>1, DivMod
      <4> QED BY <4>1, <4>2
    <3>2. u <= p
      <4> SUFFICES ASSUME u > p PROVE FALSE
        OBVIOUS
      <4>1. PICK d \in Nat : u = p + 1 + d
        <5>1. u - p - 1 \in Nat /\ u = p + 1 + (u - p - 1)
          OBVIOUS
        <5> QED BY <5>1
      <4>2. KPool * u = KPool * p + KPool + KPool * d /\ KPool * d \in Nat /\ KPool * p \in Nat
        BY <2>1, <4>1
      <4> QED BY <2>1, <2>2, <3>1, <4>2
    <3> QED BY <3>1, <3>2
  <2>4. 0 .. (b \div KPool) - 1 \subseteq DOMAIN score
    BY <2>2, SelectAssumption
  <2>5. \A p, q \in DOMAIN score : score[p] \in Int /\ (score[p] = score[q] => p = q)
    BY SelectAssumption
  <2>6. 0 .. (a \div KPool) - 1 \subseteq DOMAIN score
    BY <2>3, <2>4
  <2>7. Ordered(a \div KPool)
    BY <2>5, <2>6 DEF Ordered
  <2> QED BY <1>4, <2>1, <2>2, <2>7
<1>6. CASE i <= NumDecodeTokens
  <2>1. i \in 1 .. Total(Lens(dec))
    BY <1>4, <1>6 DEF NumDecodeTokens
  <2>2. PICK r \in 1 .. n, t \in Nat : IsPlace(Lens(dec), i, r, t)
    BY <1>3, <2>1, PlaceExists
  <2>3. positions[i] = dec[r].pos + t - 1 /\ t \in 1 .. dec[r].len /\ dec[r] \in DecodeRows
    <3>1. positions[i] = dec[r].pos + t - 1
      BY <1>4, <2>2
    <3>2. t \in 1 .. dec[r].len
      BY <1>3, <2>2 DEF IsPlace
    <3> QED BY <1>1, <3>1, <3>2
  <2>4. Ordered((positions[i] + 1) \div KPool)
    BY <1>5, <2>3
  <2> QED BY <1>4, <1>6, <2>4
<1>7. CASE i > NumDecodeTokens
  <2>1. PICK j \in 1 .. Total(Lens(pre)) : i = NumDecodeTokens + j
    <3>1. i - NumDecodeTokens \in 1 .. Total(Lens(pre)) /\ i = NumDecodeTokens + (i - NumDecodeTokens)
      BY <1>4, <1>7
    <3> QED BY <3>1
  <2>2. PICK r \in 1 .. m, t \in Nat : IsPlace(Lens(pre), j, r, t)
    BY <1>3, PlaceExists
  <2>3. positions[i] = pre[r].pos + t - 1 /\ t \in 1 .. pre[r].len /\ pre[r] \in PrefillRows
    <3>1. positions[i] = pre[r].pos + t - 1
      BY <1>4, <2>1, <2>2
    <3>2. t \in 1 .. pre[r].len
      BY <1>3, <2>2 DEF IsPlace
    <3> QED BY <1>1, <3>1, <3>2
  <2>4. positions[i] < pre[r].pos + pre[r].len /\ Ordered((positions[i] + 1) \div KPool)
    BY <1>5, <2>3
  <2>5. r \in DOMAIN pre
    BY <1>2
  <2> QED BY <1>4, <2>4, <2>5
<1> QED BY <1>4, <1>6, <1>7

(* A short prefill fits TopK as a whole.                                   *)
LEMMA ShortPrefillFits ==
  ASSUME dec \in Batches(DecodeRows), pre \in Batches(PrefillRows), score \in Scores,
         NEW i \in 1 .. NumTokens, i > NumDecodeTokens, ShortPrefill
  PROVE  positions[i] < TopK /\ PrefillRow(i) = 0 .. positions[i]
<1>1. positions[i] \in Nat
  BY TokenOf
<1>2. PICK r \in DOMAIN pre : positions[i] < pre[r].pos + pre[r].len
  BY TokenOf
<1>3. PICK m \in Nat : pre \in [1 .. m -> Rows]
  BY BatchShape DEF Batch
<1> DEFINE T == {pre[q].pos + pre[q].len : q \in DOMAIN pre}
           ends == [q \in 1 .. m |-> pre[q].pos + pre[q].len]
<1>4. ends \in [1 .. m -> Nat]
  BY <1>3 DEF Rows
<1>5. m # 0 /\ T = {ends[q] : q \in 1 .. m}
  BY <1>3
<1>6. \A x \in T : x <= TopK /\ x \in Nat
  <2>1. Max(T) <= TopK
    BY DEF ShortPrefill
  <2> HIDE DEF T, ends
  <2>2. Max(T) \in T /\ \A x \in T : x <= Max(T)
    BY <1>4, <1>5, LargestEntry
  <2> QED BY <1>4, <1>5, <2>1, <2>2, SelectK
<1>7. positions[i] < TopK
  <2>1. pre[r].pos + pre[r].len <= TopK /\ pre[r].pos + pre[r].len \in Nat
    BY <1>6
  <2> QED BY <1>1, <1>2, <2>1, SelectK
<1>8. PrefillRow(i) = {c \in 0 .. BufferWidth - 1 : c <= positions[i]}
  BY Zenon DEF PrefillRow
<1>9. PrefillRow(i) = 0 .. positions[i]
  BY <1>1, <1>7, <1>8, Width, SelectK
<1> QED BY <1>7, <1>9

Held == UNCHANGED <<trim, dec, pre, pad, score>>

(* What a forward does not change.                                         *)
LEMMA HeldBatch ==
  ASSUME Held
  PROVE  /\ positions' = positions /\ NumDecodeTokens' = NumDecodeTokens /\ NumTokens' = NumTokens
         /\ BufferWidth' = BufferWidth
         /\ \A i : PrefillRow(i)' = PrefillRow(i)
         /\ \A i : AttendRow(positions[i] + 1)' = AttendRow(positions[i] + 1)
<1>1. positions' = positions /\ NumDecodeTokens' = NumDecodeTokens /\ NumTokens' = NumTokens
  BY DEF Held, positions, NumDecodeTokens, NumTokens, Positions, Lens
<1>2. BufferWidth' = BufferWidth
  BY DEF Held, BufferWidth
<1>3. ShortPrefill' = ShortPrefill
  BY DEF Held, ShortPrefill
<1>4. \A k : Listed(k)' = Listed(k)
  BY DEF Held, Listed, TopPools
<1>5. ASSUME NEW i PROVE AttendRow(positions[i] + 1)' = AttendRow(positions[i] + 1)
  BY <1>1, <1>4 DEF AttendRow, ExpandAndTail
<1>6. ASSUME NEW i PROVE PrefillRow(i)' = PrefillRow(i)
  BY <1>1, <1>2, <1>3, <1>4 DEF PrefillRow, ExpandAndTail
<1> QED BY <1>1, <1>2, <1>5, <1>6

(* Rows are filled with what fits.                                         *)
LEMMA PrefillRowFits ==
  ASSUME dec \in Batches(DecodeRows), pre \in Batches(PrefillRows), score \in Scores,
         NEW i \in 1 .. NumTokens, i > NumDecodeTokens
  PROVE  Fits(PrefillRow(i))
<1>1. positions[i] \in Nat /\ Ordered((positions[i] + 1) \div KPool)
  BY TokenOf
<1>2. CASE ShortPrefill
  <2>1. positions[i] < TopK /\ PrefillRow(i) = 0 .. positions[i]
    BY <1>2, ShortPrefillFits
  <2>2. IsFiniteSet(0 .. positions[i]) /\ Cardinality(0 .. positions[i]) = positions[i] + 1
    <3>1. PICK x \in Nat : x = positions[i]
      BY <1>1
    <3>2. IsFiniteSet(0 .. x) /\ Cardinality(0 .. x) = x + 1
      BY FS_Interval
    <3> QED BY <3>1, <3>2
  <2> QED BY <1>1, <2>1, <2>2, Width, SelectK DEF Fits
<1>3. CASE ~ShortPrefill
  <2>1. PrefillRow(i) = AttendRow(positions[i] + 1)
    BY <1>3, Zenon DEF PrefillRow, AttendRow
  <2>2. positions[i] + 1 \in Nat
    BY <1>1
  <2> QED BY <1>1, <2>1, <2>2, RowFits DEF Fits
<1> QED BY <1>2, <1>3

LEMMA DecodeRowFits ==
  ASSUME dec \in Batches(DecodeRows), pre \in Batches(PrefillRows), score \in Scores,
         NEW i \in 1 .. NumTokens
  PROVE  Fits(AttendRow(positions[i] + 1))
<1>1. positions[i] \in Nat /\ Ordered((positions[i] + 1) \div KPool)
  BY TokenOf
<1>2. positions[i] + 1 \in Nat
  BY <1>1
<1> QED BY <1>1, <1>2, RowFits DEF Fits

LEMMA InvFacts ==
  ASSUME SelectInv
  PROVE  /\ dec \in Batches(DecodeRows) /\ pre \in Batches(PrefillRows) /\ score \in Scores
         /\ pad \in Nat /\ NumTokens \in Nat /\ NumTokens + pad <= MaxRows /\ MaxRows \in Nat
         /\ NumDecodeTokens \in Nat /\ NumDecodeTokens <= NumTokens
         /\ DOMAIN buffer = 1 .. MaxRows
         /\ \A i \in 1 .. MaxRows : Fits(buffer[i])
<1>1. /\ dec \in Batches(DecodeRows) /\ pre \in Batches(PrefillRows) /\ score \in Scores
      /\ pad \in 0 .. MaxPad /\ NumTokens \in 1 .. MaxRows - pad
      /\ DOMAIN buffer = 1 .. MaxRows /\ \A i \in 1 .. MaxRows : Fits(buffer[i])
  BY DEF SelectInv, TypeOK, Fits
<1>2. MaxPad \in Nat /\ MaxRows \in Nat
  BY SelectAssumption
<1>3. PICK n \in Nat, m \in Nat : Batch(n, m)
  BY <1>1, BatchShape
<1>4. NumDecodeTokens \in Nat /\ Total(Lens(pre)) \in Nat /\ NumTokens = NumDecodeTokens + Total(Lens(pre))
  BY <1>3, FlatPositions
<1> QED BY <1>1, <1>2, <1>4

LEMMA InitSelectInv == Init => SelectInv
<1> SUFFICES ASSUME Init PROVE SelectInv
  OBVIOUS
<1>1. /\ trim \in {"none", "best", "worst"}
      /\ dec \in Batches(DecodeRows) /\ pre \in Batches(PrefillRows)
      /\ pad \in 0 .. MaxPad /\ score \in Scores
      /\ NumTokens \in 1 .. MaxRows - pad
      /\ buffer = [i \in 1 .. MaxRows |-> 0 .. BufferWidth - 1]
      /\ pc = "reset"
  BY DEF Init
<1>2. BufferWidth \in Nat
  BY Width
<1>3. IsFiniteSet(0 .. BufferWidth - 1) /\ Cardinality(0 .. BufferWidth - 1) = BufferWidth
  BY <1>2, FS_Interval
<1>4. DOMAIN buffer = 1 .. MaxRows
      /\ \A i \in DOMAIN buffer : IsFiniteSet(buffer[i]) /\ Cardinality(buffer[i]) <= BufferWidth
  BY <1>1, <1>2, <1>3
<1> QED BY <1>1, <1>4 DEF SelectInv, TypeOK

(* With rows that fit and the next pc, the types hold again.               *)
LEMMA TypesKept ==
  ASSUME SelectInv, Held, pc' \in {"prefill", "decode", "done"},
         DOMAIN buffer' = 1 .. MaxRows, \A i \in 1 .. MaxRows : Fits(buffer'[i])
  PROVE  TypeOK' /\ (NumTokens \in 1 .. MaxRows - pad)'
<1>1. BufferWidth' = BufferWidth /\ NumTokens' = NumTokens
  BY HeldBatch
<1>2. /\ trim' = trim /\ dec' = dec /\ pre' = pre /\ pad' = pad /\ score' = score
  BY DEF Held
<1>3. \A i \in DOMAIN buffer' : IsFiniteSet(buffer'[i]) /\ Cardinality(buffer'[i]) <= BufferWidth'
  BY <1>1 DEF Fits
<1> QED BY <1>1, <1>2, <1>3 DEF SelectInv, TypeOK, Batches

LEMMA ResetKeeps == SelectInv /\ Reset => SelectInv'
<1> SUFFICES ASSUME SelectInv, Reset PROVE SelectInv'
  OBVIOUS
<1>1. Held /\ pc' = "prefill"
      /\ buffer' = [i \in DOMAIN buffer |-> IF i <= Cleared THEN {} ELSE buffer[i]]
  BY DEF Reset, Held
<1>2. /\ pad \in Nat /\ NumTokens \in Nat /\ NumTokens + pad <= MaxRows /\ MaxRows \in Nat
      /\ DOMAIN buffer = 1 .. MaxRows /\ \A i \in 1 .. MaxRows : Fits(buffer[i])
  BY InvFacts
<1>3. Fits({})
  BY FS_EmptySet, Width DEF Fits
<1>4. \A i \in 1 .. MaxRows : Fits(buffer'[i])
  BY <1>1, <1>2, <1>3
<1>5. TypeOK' /\ (NumTokens \in 1 .. MaxRows - pad)'
  BY <1>1, <1>2, <1>4, TypesKept
<1>6. NumTokens' = NumTokens /\ pad' = pad
  BY <1>1, HeldBatch DEF Held
<1>7. \A i \in NumTokens + 1 .. NumTokens + pad : buffer'[i] = {}
  <2>1. Cleared = NumTokens + pad
    BY DEF Cleared
  <2> QED BY <1>1, <1>2, <2>1
<1> QED BY <1>1, <1>5, <1>6, <1>7 DEF SelectInv

LEMMA PrefillKeeps == SelectInv /\ Prefill => SelectInv'
<1> SUFFICES ASSUME SelectInv, Prefill PROVE SelectInv'
  OBVIOUS
<1>1. Held /\ pc = "prefill" /\ pc' = "decode"
      /\ buffer' = [i \in DOMAIN buffer |->
                      IF i > NumDecodeTokens /\ i <= NumTokens THEN PrefillRow(i) ELSE buffer[i]]
  BY DEF Prefill, Held
<1>2. /\ dec \in Batches(DecodeRows) /\ pre \in Batches(PrefillRows) /\ score \in Scores
      /\ pad \in Nat /\ NumTokens \in Nat /\ NumTokens + pad <= MaxRows /\ MaxRows \in Nat
      /\ NumDecodeTokens \in Nat /\ NumDecodeTokens <= NumTokens
      /\ DOMAIN buffer = 1 .. MaxRows /\ \A i \in 1 .. MaxRows : Fits(buffer[i])
  BY InvFacts
<1>3. \A i \in 1 .. NumTokens : i > NumDecodeTokens => Fits(PrefillRow(i))
  BY <1>2, PrefillRowFits
<1>4. \A i \in 1 .. MaxRows : Fits(buffer'[i])
  BY <1>1, <1>2, <1>3
<1>5. TypeOK' /\ (NumTokens \in 1 .. MaxRows - pad)'
  BY <1>1, <1>2, <1>4, TypesKept
<1>6. /\ NumTokens' = NumTokens /\ pad' = pad /\ NumDecodeTokens' = NumDecodeTokens
      /\ \A i : PrefillRow(i)' = PrefillRow(i)
  BY <1>1, HeldBatch DEF Held
<1>7. \A i \in NumTokens + 1 .. NumTokens + pad : buffer'[i] = {}
  <2>1. \A i \in NumTokens + 1 .. NumTokens + pad : buffer[i] = {}
    BY <1>1 DEF SelectInv
  <2> QED BY <1>1, <1>2, <2>1
<1>8. \A i \in NumDecodeTokens + 1 .. NumTokens : buffer'[i] = PrefillRow(i)
  BY <1>1, <1>2
<1> QED BY <1>1, <1>5, <1>6, <1>7, <1>8 DEF SelectInv

LEMMA DecodeKeeps == SelectInv /\ Decode => SelectInv'
<1> SUFFICES ASSUME SelectInv, Decode PROVE SelectInv'
  OBVIOUS
<1>1. Held /\ pc = "decode" /\ pc' = "done"
  BY DEF Decode, Held
<1>2. /\ dec \in Batches(DecodeRows) /\ pre \in Batches(PrefillRows) /\ score \in Scores
      /\ pad \in Nat /\ NumTokens \in Nat /\ NumTokens + pad <= MaxRows /\ MaxRows \in Nat
      /\ NumDecodeTokens \in Nat /\ NumDecodeTokens <= NumTokens
      /\ DOMAIN buffer = 1 .. MaxRows /\ \A i \in 1 .. MaxRows : Fits(buffer[i])
  BY InvFacts
<1>3. PICK n \in Nat, m \in Nat : Batch(n, m)
  BY <1>2, BatchShape
<1>4. /\ DOMAIN buffer' = 1 .. MaxRows
      /\ \A i \in 1 .. MaxRows :
           buffer'[i] = IF i <= NumDecodeTokens THEN AttendRow(positions[i] + 1) ELSE buffer[i]
  <2>1. dec \in [1 .. n -> Rows]
    BY <1>3 DEF Batch
  <2>2. CASE n = 0
    <3>1. dec = <<>> /\ Len(Lens(dec)) = 0
      BY <2>1, <2>2 DEF Lens
    <3>2. NumDecodeTokens = 0
      <4>1. Lens(dec) \in [1 .. 0 -> Nat]
        BY <2>1, <2>2, LensOf
      <4>2. CumSum(Lens(dec))[0] = 0
        BY <4>1, CumSumFacts
      <4> QED BY <3>1, <4>2 DEF NumDecodeTokens, Total
    <3>3. buffer' = buffer
      BY <3>1 DEF Decode
    <3> QED BY <1>2, <3>2, <3>3
  <2>3. CASE n # 0
    <3>1. dec # <<>>
      BY <2>1, <2>3
    <3>2. DecodeOut = [i \in 1 .. NumDecodeTokens |-> AttendRow(positions[i] + 1)]
      BY <1>3, <2>3, DecodeOutIs
    <3> DEFINE out == DecodeOut
    <3>3. buffer' = [i \in DOMAIN buffer |-> IF i <= Len(out) THEN out[i] ELSE buffer[i]]
      BY <3>1, Zenon DEF Decode
    <3>4. Len(out) = NumDecodeTokens /\ \A i \in 1 .. NumDecodeTokens : out[i] = AttendRow(positions[i] + 1)
      BY <1>2, <3>2
    <3> HIDE DEF out
    <3> QED BY <1>2, <3>3, <3>4
  <2> QED BY <2>2, <2>3
<1>5. \A i \in 1 .. NumTokens : Fits(AttendRow(positions[i] + 1))
  BY <1>2, DecodeRowFits
<1>6. \A i \in 1 .. MaxRows : Fits(buffer'[i])
  BY <1>2, <1>4, <1>5
<1>8. TypeOK' /\ (NumTokens \in 1 .. MaxRows - pad)'
  BY <1>1, <1>4, <1>6, TypesKept
<1>9. /\ NumTokens' = NumTokens /\ pad' = pad /\ NumDecodeTokens' = NumDecodeTokens
      /\ \A i : PrefillRow(i)' = PrefillRow(i)
      /\ \A i : AttendRow(positions[i] + 1)' = AttendRow(positions[i] + 1)
  BY <1>1, HeldBatch DEF Held
<1>10. \A i \in NumTokens + 1 .. NumTokens + pad : buffer'[i] = {}
  <2>1. \A i \in NumTokens + 1 .. NumTokens + pad : buffer[i] = {}
    BY <1>1 DEF SelectInv
  <2> QED BY <1>2, <1>4, <2>1
<1>11. \A i \in NumDecodeTokens + 1 .. NumTokens : buffer'[i] = PrefillRow(i)
  <2>1. \A i \in NumDecodeTokens + 1 .. NumTokens : buffer[i] = PrefillRow(i)
    BY <1>1 DEF SelectInv
  <2> QED BY <1>2, <1>4, <2>1
<1>12. \A i \in 1 .. NumDecodeTokens : buffer'[i] = AttendRow(positions[i] + 1)
  BY <1>2, <1>4
<1>13. \A i \in 1 .. NumDecodeTokens' : buffer'[i] = AttendRow(positions[i] + 1)'
  BY <1>9, <1>12
<1> QED BY <1>1, <1>8, <1>9, <1>10, <1>11, <1>13 DEF SelectInv

LEMMA NextSelectInv == SelectInv /\ [Next]_vars => SelectInv'
<1> SUFFICES ASSUME SelectInv, [Next]_vars PROVE SelectInv'
  OBVIOUS
<1>1. CASE UNCHANGED vars
  <2>1. Held /\ buffer' = buffer /\ pc' = pc
    BY <1>1 DEF vars, Held
  <2>2. /\ positions' = positions /\ NumDecodeTokens' = NumDecodeTokens /\ NumTokens' = NumTokens
        /\ BufferWidth' = BufferWidth
        /\ \A i : PrefillRow(i)' = PrefillRow(i)
        /\ \A i : AttendRow(positions[i] + 1)' = AttendRow(positions[i] + 1)
    BY <2>1, HeldBatch
  <2> QED BY <2>1, <2>2 DEF SelectInv, TypeOK, Batches, Held
<1> QED BY <1>1, ResetKeeps, PrefillKeeps, DecodeKeeps DEF Next

-----------------------------------------------------------------------------
(* What every token was given when the forward is done.                    *)
LEMMA Given ==
  ASSUME SelectInv, pc = "done", NEW i \in 1 .. NumTokens
  PROVE  /\ positions[i] \in Nat /\ Ordered((positions[i] + 1) \div KPool)
         /\ IF i <= NumDecodeTokens \/ ~ShortPrefill THEN buffer[i] = AttendRow(positions[i] + 1)
            ELSE positions[i] < TopK /\ buffer[i] = 0 .. positions[i]
<1>1. /\ dec \in Batches(DecodeRows) /\ pre \in Batches(PrefillRows) /\ score \in Scores
      /\ NumTokens \in Nat /\ NumDecodeTokens \in Nat
  BY InvFacts
<1>2. positions[i] \in Nat /\ Ordered((positions[i] + 1) \div KPool)
  BY <1>1, TokenOf
<1>3. CASE i <= NumDecodeTokens
  BY <1>1, <1>2, <1>3 DEF SelectInv
<1>4. CASE i > NumDecodeTokens
  <2>1. buffer[i] = PrefillRow(i)
    BY <1>1, <1>4 DEF SelectInv
  <2>2. CASE ShortPrefill
    BY <1>1, <1>2, <1>4, <2>1, <2>2, ShortPrefillFits
  <2>3. CASE ~ShortPrefill
    <3>1. PrefillRow(i) = AttendRow(positions[i] + 1)
      BY <2>3, Zenon DEF PrefillRow, AttendRow
    <3> QED BY <1>1, <1>2, <1>4, <2>1, <2>3, <3>1
  <2> QED BY <2>2, <2>3
<1> QED BY <1>1, <1>3, <1>4

LEMMA InvStaysInSequence == SelectInv => RowsStayInSequence
<1> SUFFICES ASSUME SelectInv, pc = "done", NEW i \in 1 .. NumTokens + pad, NEW c \in buffer[i]
             PROVE  i <= NumTokens /\ c <= positions[i]
  BY DEF RowsStayInSequence
<1>1. NumTokens \in Nat /\ pad \in Nat
  BY InvFacts
<1>2. i <= NumTokens
  <2>1. \A j \in NumTokens + 1 .. NumTokens + pad : buffer[j] = {}
    BY DEF SelectInv
  <2> QED BY <1>1, <2>1
<1>3. i \in 1 .. NumTokens
  BY <1>1, <1>2
<1>4. positions[i] \in Nat /\ (buffer[i] = AttendRow(positions[i] + 1) \/ buffer[i] = 0 .. positions[i])
  BY <1>3, Given
<1>5. PICK x \in Nat : x = positions[i]
  BY <1>4
<1>6. AttendRow(x + 1) \subseteq 0 .. (x + 1) - 1
  BY <1>5, RowWithin
<1> QED BY <1>2, <1>4, <1>5, <1>6

LEMMA InvTail == SelectInv => TailAlwaysAttended
<1> SUFFICES ASSUME SelectInv, pc = "done", NEW i \in 1 .. NumTokens
             PROVE  ((positions[i] + 1) \div KPool) * KPool .. positions[i] \subseteq buffer[i]
  BY DEF TailAlwaysAttended
<1>1. PICK x \in Nat : x = positions[i]
  BY Given
<1>2. PICK y \in Nat : y = ((x + 1) \div KPool) * KPool
  BY PoolOfLength
<1>3. y .. (x + 1) - 1 \subseteq AttendRow(x + 1)
  BY <1>2, RowWithin
<1>4. (x + 1) - 1 = x
  OBVIOUS
<1>5. y .. x \subseteq AttendRow(x + 1) /\ y .. x \subseteq 0 .. x
  BY <1>3, <1>4
<1>6. buffer[i] = AttendRow(x + 1) \/ buffer[i] = 0 .. x
  BY <1>1, Given
<1>7. y .. x \subseteq buffer[i]
  BY <1>5, <1>6
<1> QED BY <1>1, <1>2, <1>7

LEMMA InvDense == SelectInv => ShortContextDense
<1> DEFINE Scored(i) == i <= NumDecodeTokens \/ ~ShortPrefill
           Dense(i) ==
      LET n == positions[i] + 1
          scored == Scored(i)
          cut == IF trim # "none" /\ scored THEN KPool ELSE 0
      IN  IF n < TopK \/ (n = TopK /\ cut = 0) THEN 0 .. positions[i] \subseteq buffer[i]
          ELSE Cardinality(buffer[i]) = TopK - cut + (n % KPool)
<1> SUFFICES ASSUME SelectInv, pc = "done", NEW i \in 1 .. NumTokens
             PROVE  Dense(i)
  BY DEF ShortContextDense
<1>1. PICK x \in Nat : x = positions[i] /\ Ordered((x + 1) \div KPool)
  BY Given
<1>2. PICK n \in Nat : n = x + 1 /\ n - 1 = x
  <2>1. x + 1 \in Nat /\ (x + 1) - 1 = x
    OBVIOUS
  <2> QED BY <2>1
<1>3. /\ n < TopK \/ (n = TopK /\ trim = "none") => 0 .. n - 1 \subseteq AttendRow(n)
      /\ n >= TopK => Cardinality(AttendRow(n)) =
           IF trim = "none" THEN TopK + (n % KPool) ELSE TopK - KPool + (n % KPool)
  BY <1>1, <1>2, RowDense
<1>4. IF Scored(i) THEN buffer[i] = AttendRow(n) ELSE x < TopK /\ buffer[i] = 0 .. x
  BY <1>1, <1>2, Given
<1>5. TopK \in Nat /\ KPool \in Nat \ {0}
  BY SelectK
<1>6. PICK o \in Nat : o = n % KPool
  BY PoolOfLength
<1>7. CASE Scored(i)
  <2>1. CASE n < TopK \/ (n = TopK /\ trim = "none")
    <3>1. 0 .. x \subseteq buffer[i]
      BY <1>2, <1>3, <1>4, <1>7, <2>1
    <3> QED BY <1>1, <1>2, <1>5, <1>7, <2>1, <3>1
  <2>2. CASE ~(n < TopK \/ (n = TopK /\ trim = "none"))
    <3>1. n >= TopK
      BY <1>5, <2>2
    <3>2. Cardinality(buffer[i]) = IF trim = "none" THEN TopK + o ELSE TopK - KPool + o
      BY <1>3, <1>4, <1>6, <1>7, <3>1
    <3> QED BY <1>1, <1>2, <1>5, <1>6, <1>7, <2>2, <3>2
  <2> QED BY <2>1, <2>2
<1>8. CASE ~Scored(i)
  <2>1. x < TopK /\ buffer[i] = 0 .. x
    BY <1>4, <1>8
  <2>2. n < TopK \/ n = TopK
    BY <1>2, <1>5, <2>1
  <2> QED BY <1>1, <1>2, <1>8, <2>1, <2>2
<1> QED BY <1>7, <1>8

LEMMA InvRanked == SelectInv => RankedListsDropLowest
<1> SUFFICES ASSUME SelectInv, trim # "best", pc = "done", NEW i \in 1 .. NumTokens,
                    NEW p \in 0 .. (positions[i] + 1) \div KPool - 1,
                    NEW q \in 0 .. (positions[i] + 1) \div KPool - 1,
                    p * KPool \in buffer[i], q * KPool \notin buffer[i]
             PROVE  score[p] > score[q]
  BY DEF RankedListsDropLowest, LowestPoolsDropped
<1>1. PICK x \in Nat : x = positions[i] /\ Ordered((x + 1) \div KPool)
  BY Given
<1>2. PICK n \in Nat : n = x + 1
  OBVIOUS
<1>3. PICK m \in Nat : m = n \div KPool
  BY PoolOfLength
<1>4. p \in 0 .. m - 1 /\ q \in 0 .. m - 1
  BY <1>1, <1>2, <1>3
<1>5. buffer[i] = AttendRow(n) \/ buffer[i] = 0 .. x
  BY <1>1, <1>2, Given
<1>6. CASE buffer[i] = AttendRow(n)
  <2>1. p \in Listed(m) /\ q \notin Listed(m)
    BY <1>3, <1>4, <1>6, PoolInRow
  <2> QED BY <1>1, <1>2, <1>3, <1>4, <2>1, ListedBest
<1>7. CASE buffer[i] = 0 .. x
  <2>0. q \in Nat /\ KPool \in Nat \ {0}
    BY <1>4, SelectK
  <2>1. PICK y \in Nat, z \in Nat : y = q * KPool /\ z = m * KPool /\ z <= n
    <3>1. q * KPool \in Nat
      BY <2>0
    <3>2. PICK z \in Nat, o \in Nat : z = m * KPool /\ n = z + o
      BY <1>3, PoolOfLength
    <3>3. z <= n
      BY <3>2
    <3> QED BY <3>1, <3>2, <3>3
  <2>2. y \in q * KPool .. q * KPool + KPool - 1
    BY <2>1, SelectK
  <2>3. y \in 0 .. z - 1
    BY <1>4, <2>1, <2>2, PoolBeforeTail
  <2> QED BY <1>2, <1>7, <2>1, <2>3
<1> QED BY <1>5, <1>6, <1>7
-----------------------------------------------------------------------------
(* Every row the forward writes fits the buffer, whose width leaves the    *)
(* tail out when the SM121 overlay trims the list (buffer_width,           *)
(* patch_indexer); requests, padding and the order of pools are any.       *)
THEOREM SelectTypeOK == Spec => []TypeOK
<1>1. SelectInv => TypeOK
  BY DEF SelectInv
<1> QED BY InitSelectInv, NextSelectInv, <1>1, PTL DEF Spec

(* However many requests of whatever lengths share a batch, padded into a  *)
(* grid or not, each token attends positions of its own past only, and     *)
(* rows of padding attend none (_decode_topk_seq_lens, unpack_seq_triton). *)
THEOREM RowsAlwaysStayInSequence == Spec => []RowsStayInSequence
BY InitSelectInv, NextSelectInv, InvStaysInSequence, PTL DEF Spec

(* The unfinished pool of every token is attended                          *)
(* (expand_pools_and_append_tail, the short prefill).                      *)
THEOREM TailsAreAttended == Spec => []TailAlwaysAttended
BY InitSelectInv, NextSelectInv, InvTail, PTL DEF Spec

(* A context that fits TopK is attended whole and a longer one in TopK     *)
(* tokens besides its tail (expand_pools_and_append_tail, short_prefill).  *)
(* Under the overlay (patch_indexer) a scored context of TopK tokens or    *)
(* more gets a pool less; one of exactly TopK is whole on the short path   *)
(* only.                                                                   *)
THEOREM SelectionIsDense == Spec => []ShortContextDense
BY InitSelectInv, NextSelectInv, InvDense, PTL DEF Spec

(* Every pool a token leaves out scores below every pool it attends        *)
(* (top_k_per_row_decode, top_k_per_row_prefill, patch_indexer), unless    *)
(* the overlay cuts a list that has its best pool last.                    *)
THEOREM RankedListsKeepBest == Spec => []RankedListsDropLowest
BY InitSelectInv, NextSelectInv, InvRanked, PTL DEF Spec
=============================================================================
