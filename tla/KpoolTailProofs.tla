--------------------------- MODULE KpoolTailProofs ---------------------------
(***************************************************************************)
(* Proofs about KpoolTail, for any number of requests, pool size, number   *)
(* of drafts, batch composition and acceptance: every complete pool of a   *)
(* committed prefix is compressed from its own request's keys, the prompt's*)
(* from exactly their own, and the write side implements the append-only   *)
(* index of KpoolSpec.                                                     *)
(***************************************************************************)
EXTENDS KpoolTail, SharedFacts, FiniteSetTheorems

-----------------------------------------------------------------------------
(* Pool arithmetic.                                                        *)

(* A multiple of the chunk granularity is a pool boundary.                 *)
LEMMA AlignedIsBoundary ==
  ASSUME NEW h \in Nat, h % Align = 0
  PROVE  h % KPool = 0
<1>1. PICK q \in Nat : h = Align * q
  BY Multiple, ShapeAssumption
<1>2. PICK a \in Nat : Align = KPool * a
  BY Multiple, ShapeAssumption
<1>3. a * q \in Nat /\ h = KPool * (a * q) + 0
  BY <1>1, <1>2, ShapeAssumption
<1> QED BY <1>3, DivModUnique, ShapeAssumption

(* PoolStart(n) is the boundary at or before n, less than a pool away.     *)
LEMMA PoolStartBounds ==
  ASSUME NEW n \in Nat
  PROVE  /\ PoolStart(n) \in Nat
         /\ PoolStart(n) <= n
         /\ n < PoolStart(n) + KPool
         /\ \E q \in Nat : PoolStart(n) = KPool * q
<1>1. n % KPool \in 0 .. KPool - 1 /\ n \div KPool \in Nat
      /\ n = KPool * (n \div KPool) + (n % KPool)
  BY DivMod, ShapeAssumption
<1>2. PoolStart(n) = KPool * (n \div KPool)
  BY <1>1, ShapeAssumption DEF PoolStart
<1>3. KPool * (n \div KPool) \in Nat
  BY <1>1, ShapeAssumption
<1>4. PoolStart(n) <= n /\ n < PoolStart(n) + KPool
  BY <1>1, ShapeAssumption DEF PoolStart
<1> QED BY <1>1, <1>2, <1>3, <1>4

(* The positions of pool j are those from j * KPool to PoolLast(j).        *)
LEMMA PoolStartInside ==
  ASSUME NEW j \in Nat, NEW n \in Nat, j * KPool <= n, n <= PoolLast(j)
  PROVE  PoolStart(n) = j * KPool
<1> DEFINE o == n - j * KPool
<1>1. j * KPool \in Nat /\ j * KPool = KPool * j
  BY ShapeAssumption
<1>2. o \in 0 .. KPool - 1 /\ n = KPool * j + o
  BY <1>1, ShapeAssumption DEF PoolLast
<1> HIDE DEF o
<1>3. n % KPool = o
  <2>1. KPool \in Nat \ {0} /\ n \in Nat /\ j \in Nat /\ o \in 0 .. KPool - 1
        /\ n = KPool * j + o
    BY <1>2, ShapeAssumption
  <2> QED BY <2>1, DivModUnique
<1>4. n - o = j * KPool
  BY <1>1 DEF o
<1> QED BY <1>3, <1>4 DEF PoolStart

(* A boundary that is not past the last position of pool j is not past its *)
(* first.                                                                  *)
LEMMA BoundaryBeforePool ==
  ASSUME NEW j \in Nat, NEW n \in Nat, n % KPool = 0, n <= PoolLast(j)
  PROVE  n <= j * KPool
<1>1. PICK q \in Nat : n = KPool * q
  BY Multiple, ShapeAssumption
<1>2. CASE q <= j
  <2>1. KPool * q <= j * KPool
    BY <1>2, ShapeAssumption
  <2> QED BY <2>1, <1>1
<1>3. CASE q >= j + 1
  <2>1. KPool * q >= KPool * (j + 1)
    BY <1>3, ShapeAssumption
  <2>2. KPool * (j + 1) = j * KPool + KPool /\ j * KPool \in Nat
    BY ShapeAssumption
  <2> QED BY <2>1, <2>2, <1>1, ShapeAssumption DEF PoolLast
<1> QED BY <1>2, <1>3

(* A boundary at or before m is at or before the start of m's pool.        *)
LEMMA BoundaryBeforeStart ==
  ASSUME NEW n \in Nat, NEW m \in Nat, n % KPool = 0, n <= m
  PROVE  n <= PoolStart(m)
<1>1. PICK q \in Nat : PoolStart(m) = KPool * q
  BY PoolStartBounds
<1>2. q * KPool = KPool * q /\ q * KPool \in Nat
  BY ShapeAssumption
<1>3. n <= PoolLast(q)
  BY <1>1, <1>2, PoolStartBounds, ShapeAssumption DEF PoolLast
<1> QED BY <1>1, <1>2, <1>3, BoundaryBeforePool

(* The positions of a pool of the cache are positions of the model.        *)
LEMMA PoolPositions ==
  ASSUME NEW j \in PoolId, NEW o \in Offset
  PROVE  /\ j \in Nat /\ j * KPool \in Nat /\ j * KPool + o \in Pos
         /\ PoolLast(j) \in Pos
         /\ j * KPool + o <= PoolLast(j) /\ PoolLast(j) - (j * KPool + o) < KPool
<1>1. j \in Nat /\ o \in Nat /\ o <= KPool - 1 /\ j + 1 <= MaxLen \div KPool
  BY ShapeAssumption DEF PoolId, Offset
<1>2. MaxLen \div KPool \in Nat /\ KPool * (MaxLen \div KPool) <= MaxLen
  BY DivMod, ShapeAssumption
<1>3. KPool * (j + 1) <= KPool * (MaxLen \div KPool)
  BY <1>1, <1>2, ShapeAssumption
<1>4. KPool * (j + 1) = j * KPool + KPool /\ j * KPool \in Nat
  BY <1>1, ShapeAssumption
<1> QED BY <1>1, <1>2, <1>3, <1>4, ShapeAssumption DEF Pos, PoolLast

-----------------------------------------------------------------------------
(* Decode rows.                                                            *)

(* Slots and offsets are what % says they are.                             *)
LEMMA SlotOf ==
  ASSUME NEW y \in Nat
  PROVE  y % KPool \in Slot
<1>1. KPool \in Nat \ {0}
  BY ShapeAssumption
<1> QED BY <1>1, DivMod DEF Slot

(* As long as less than one turn of the ring has been stashed after it,    *)
(* the key of position y is found in its slot: the new one if the batch    *)
(* wrote y, else whatever the ring held before.                            *)
LEMMA StashedSlot ==
  ASSUME NEW r \in Req, computed[r] \in Nat, NEW a \in Nat,
         NEW x \in Nat, NEW y \in Nat, y <= x, x < y + KPool
  PROVE  StashThrough(r, a, x)[y % KPool]
           = IF y >= computed[r] THEN Key(r, y, y < computed[r] + a)
             ELSE ring[tail[r]][y % KPool]
<1> DEFINE s == y % KPool
           W == LastInto(r, x, s)
<1>0. KPool \in Nat \ {0}
  BY ShapeAssumption
<1>1. ASSUME NEW z \in Nat, y < z, z <= x
      PROVE  z % KPool # s
  <2>1. z < y + KPool
    BY <1>1, <1>0
  <2> QED BY <2>1, <1>1, <1>0, DistinctSlots
<1>2. StashThrough(r, a, x)[s]
        = IF W = {} THEN ring[tail[r]][s]
          ELSE LET w == CHOOSE w \in W : TRUE
               IN  Key(r, w, w < computed[r] + a)
  BY SlotOf DEF StashThrough
<1>3. CASE y >= computed[r]
  <2>1. y \in W
    BY <1>1, <1>3 DEF LastInto
  <2>2. ASSUME NEW w \in W PROVE w = y
    <3>1. w \in computed[r] .. x /\ w % KPool = s /\ \A z \in w + 1 .. x : z % KPool # s
      BY DEF LastInto
    <3>2. ~(w < y)
      BY <3>1
    <3>3. ~(w > y)
      BY <3>1, <1>1
    <3> QED BY <3>1, <3>2, <3>3
  <2>3. W # {} /\ (CHOOSE w \in W : TRUE) = y
    BY <2>1, <2>2
  <2> HIDE DEF W, s
  <2> QED BY <1>2, <1>3, <2>3 DEF s
<1>4. CASE y < computed[r]
  <2>1. W = {}
    <3> SUFFICES ASSUME NEW w \in W PROVE FALSE
      OBVIOUS
    <3>1. w \in computed[r] .. x /\ w % KPool = s
      BY DEF LastInto
    <3> QED BY <3>1, <1>1, <1>4
  <2> HIDE DEF W, s
  <2> QED BY <1>2, <1>4, <2>1 DEF s
<1> QED BY <1>3, <1>4

(* A draft that shares y's slot and comes after it is whole turns ahead.   *)
LEMMA TurnsAhead ==
  ASSUME NEW y \in Nat, NEW p \in Nat, p > y, p % KPool = y % KPool
  PROVE  p >= y + KPool
<1> SUFFICES ASSUME p < y + KPool PROVE FALSE
  BY ShapeAssumption
<1> QED BY DistinctSlots, ShapeAssumption

(* The offset of a pool's position is its slot.                            *)
LEMMA OffsetIsSlot ==
  ASSUME NEW j \in Nat, NEW o \in Offset
  PROVE  (j * KPool + o) % KPool = o
<1> DEFINE y == j * KPool + o
<1>1. y \in Nat /\ y = KPool * j + o /\ o \in 0 .. KPool - 1
  BY ShapeAssumption DEF Offset
<1> HIDE DEF y
<1>2. y % KPool = o
  BY <1>1, DivModUnique, ShapeAssumption
<1> QED BY <1>2 DEF y

(* A decode row leaves the entries that were complete before it alone.     *)
LEMMA DecodeKeepsPools ==
  ASSUME IInv, NEW r \in Req, NEW n, NEW a, DecodeRow(r, n, a),
         NEW j \in PoolId, PoolLast(j) < computed[r]
  PROVE  DecodeWrite(r, n, a, j) = pool[r][j]
<1>1. computed[r] \in Nat /\ PoolLast(j) \in Nat
  BY PoolPositions, ShapeAssumption, 0 \in 0 .. KPool - 1 DEF IInv, TypeOK, Pos, Offset
<1>2. PoolLast(j) \notin DecodePos(r, n)
  BY <1>1 DEF DecodePos
<1> QED BY <1>2 DEF DecodeWrite

(* What a decode row puts at one offset of a pool that it completes: the   *)
(* committed key when the batch stashed it, what the ring held otherwise.  *)
LEMMA DecodeWritesKey ==
  ASSUME IInv, NEW r \in Req, NEW n, NEW a, DecodeRow(r, n, a),
         NEW j \in PoolId, computed[r] <= PoolLast(j), PoolLast(j) < computed[r] + a,
         NEW o \in Offset
  PROVE  /\ j * KPool + o >= computed[r]
              => DecodeWrite(r, n, a, j)[o] = Key(r, j * KPool + o, TRUE)
         /\ j * KPool + o < computed[r]
              => /\ o # KPool - 1
                 /\ DecodeWrite(r, n, a, j)[o] \in RingMayHold(r, j * KPool + o, computed[r])
<1> DEFINE y == j * KPool + o
<1>1. computed[r] \in Nat /\ n \in Nat /\ a \in Nat /\ a <= n /\ Running(r)
  BY ShapeAssumption DEF IInv, TypeOK, DecodeRow, DecodeThreshold
<1>0. j \in Nat /\ j * KPool \in Nat /\ y \in Pos /\ PoolLast(j) \in Pos
      /\ y <= PoolLast(j) /\ PoolLast(j) - y < KPool
  BY PoolPositions
<1>2. j \in Nat /\ j * KPool \in Nat /\ PoolLast(j) \in Nat /\ j * KPool <= PoolLast(j)
      /\ y \in Pos /\ y \in Nat /\ y <= PoolLast(j) /\ PoolLast(j) < y + KPool /\ j * KPool <= y
      /\ PoolLast(j) = j * KPool + (KPool - 1)
  <2>1. o \in Nat /\ KPool \in Nat \ {0} /\ j * KPool <= y
    BY <1>0, ShapeAssumption DEF Offset
  <2>2. y \in Nat /\ PoolLast(j) \in Nat /\ MaxLen \in Nat
    BY <1>0, ShapeAssumption DEF Pos
  <2>3. PoolLast(j) = j * KPool + (KPool - 1)
    BY DEF PoolLast
  <2> HIDE DEF y
  <2> QED BY <1>0, <2>1, <2>2, <2>3
<1>3. PoolLast(j) \in DecodePos(r, n)
  BY <1>1, <1>2 DEF DecodePos
<1>4. DecodeWrite(r, n, a, j)[o] = StashThrough(r, a, PoolLast(j))[y % KPool]
  BY <1>3 DEF DecodeWrite
<1>5. y >= computed[r] => y < computed[r] + a
  BY <1>1, <1>2
<1>6. y < computed[r] => PoolStart(computed[r]) <= y /\ o # KPool - 1
  <2> SUFFICES ASSUME y < computed[r] PROVE PoolStart(computed[r]) <= y /\ o # KPool - 1
    OBVIOUS
  <2>1. j * KPool <= computed[r]
    BY <1>1, <1>2
  <2>2. PoolStart(computed[r]) = j * KPool
    BY <2>1, <1>1, <1>2, PoolStartInside
  <2> QED BY <2>2, <1>1, <1>2
<1> HIDE DEF y
<1>7. StashThrough(r, a, PoolLast(j))[y % KPool]
        = IF y >= computed[r] THEN Key(r, y, y < computed[r] + a)
          ELSE ring[tail[r]][y % KPool]
  BY <1>1, <1>2, StashedSlot
<1>8. ASSUME y >= computed[r] PROVE DecodeWrite(r, n, a, j)[o] = Key(r, y, TRUE)
  BY <1>4, <1>5, <1>7, <1>8 DEF Key
<1>9. ASSUME y < computed[r] PROVE DecodeWrite(r, n, a, j)[o] \in RingMayHold(r, y, computed[r])
  <2>1. ring[tail[r]][y % KPool] \in RingMayHold(r, y, computed[r])
    BY <1>9, <1>6, <1>1, <1>2 DEF IInv, BoundaryKeysOwn
  <2>2. ~(y >= computed[r])
    BY <1>9, <1>1, <1>2
  <2> QED BY <1>4, <1>7, <2>1, <2>2
<1> QED BY <1>6, <1>8, <1>9 DEF y

(* So a pool that a decode row completes is its request's own, up to       *)
(* rejected drafts.                                                        *)
LEMMA DecodePoolsOwn ==
  ASSUME IInv, NEW r \in Req, NEW n, NEW a, DecodeRow(r, n, a),
         NEW j \in PoolId, computed[r] <= PoolLast(j), PoolLast(j) < computed[r] + a
  PROVE  Promise!MayHold(r, j, DecodeWrite(r, n, a, j))
<1> DEFINE f == DecodeWrite(r, n, a, j)
<1>1. computed[r] \in Nat /\ n \in Nat /\ a \in Nat /\ a <= n /\ NumSpec \in Nat
  BY ShapeAssumption DEF IInv, TypeOK, DecodeRow, DecodeThreshold
<1>2. PoolLast(j) \in DecodePos(r, n)
  <2>1. PoolLast(j) \in Nat
    BY PoolPositions, ShapeAssumption, 0 \in 0 .. KPool - 1 DEF Pos, Offset
  <2> QED BY <1>1, <2>1 DEF DecodePos
<1>3. f = [o \in 0 .. KPool - 1 |-> f[o]]
  BY <1>2 DEF DecodeWrite, Offset
<1>4. ASSUME NEW o \in 0 .. KPool - 1
      PROVE  f[o] = Promise!OwnPool(r, j)[o] \/ f[o] \in Promise!Overruns(r, j, o)
  <2> DEFINE y == j * KPool + o
  <2>0. o \in Offset /\ j \in Nat /\ y \in Nat /\ y % KPool = o
    <3>1. o \in Offset /\ j \in Nat
      BY PoolPositions, ShapeAssumption, 0 \in 0 .. KPool - 1 DEF Offset
    <3>2. y \in Pos
      BY <3>1, PoolPositions
    <3>3. y \in Nat
      BY <3>2, ShapeAssumption DEF Pos
    <3> QED BY <3>1, <3>3, OffsetIsSlot
  <2>1. /\ y >= computed[r] => f[o] = Key(r, y, TRUE)
        /\ y < computed[r] => o # KPool - 1 /\ f[o] \in RingMayHold(r, y, computed[r])
    BY <2>0, DecodeWritesKey
  <2>2. Promise!OwnPool(r, j)[o] = Key(r, y, TRUE)
    BY DEF Promise!OwnPool, Key
  <2>3. CASE y >= computed[r]
    BY <2>1, <2>2, <2>3
  <2>4. CASE y < computed[r]
    <3>1. o # KPool - 1 /\ f[o] \in RingMayHold(r, y, computed[r])
      BY <2>1, <2>4
    <3>2. CASE f[o] = Key(r, y, TRUE)
      BY <3>2, <2>2
    <3>3. CASE f[o] # Key(r, y, TRUE)
      <4> HIDE DEF f, y
      <4>1. PICK p \in y + 1 .. computed[r] + NumSpec - 1 :
              p % KPool = y % KPool /\ f[o] = Key(r, p, FALSE)
        BY <3>1, <3>3 DEF RingMayHold
      <4>2. p \in Nat /\ p > y /\ p <= computed[r] + NumSpec - 1
        BY <4>1, <1>1, <2>0
      <4>3. p >= y + KPool
        BY <4>1, <4>2, <2>0, TurnsAhead
      <4>4. Promise!PoolEnd(j) = PoolLast(j) /\ PoolLast(j) = j * KPool + (KPool - 1)
            /\ j * KPool \in Nat
        BY <2>0, ShapeAssumption DEF Promise!PoolEnd, PoolLast
      <4>5. p \in Promise!PoolEnd(j) + 1 .. Promise!PoolEnd(j) + NumSpec - 1
        BY <4>2, <4>3, <4>4, <1>1, <2>0, ShapeAssumption DEF y
      <4> QED BY <4>1, <4>5, <3>1, <2>0 DEF Promise!Overruns, Key
    <3> QED BY <3>2, <3>3
  <2> QED BY <2>0, <2>3, <2>4, <1>1
<1> QED BY <1>3, <1>4 DEF Promise!MayHold

(* While the request is prefilling, such a pool starts in the batch and is *)
(* exactly its own.                                                        *)
LEMMA DecodePromptPools ==
  ASSUME IInv, NEW r \in Req, NEW n, NEW a, DecodeRow(r, n, a), Prefilling(r),
         NEW j \in PoolId, computed[r] <= PoolLast(j), PoolLast(j) < computed[r] + a
  PROVE  DecodeWrite(r, n, a, j) = TruePool(r, j)
<1>1. computed[r] \in Nat /\ computed[r] % KPool = 0 /\ n \in Nat /\ a \in Nat /\ a <= n
  BY ShapeAssumption DEF IInv, TypeOK, PrefillAligned, DecodeRow, DecodeThreshold
<1>2. j \in Nat /\ j * KPool \in Nat /\ PoolLast(j) \in Nat
  BY PoolPositions, ShapeAssumption, 0 \in 0 .. KPool - 1 DEF Pos, Offset
<1>3. computed[r] <= j * KPool
  BY <1>1, <1>2, BoundaryBeforePool
<1>4. ASSUME NEW o \in Offset
      PROVE  DecodeWrite(r, n, a, j)[o] = Key(r, j * KPool + o, TRUE)
  <2>1. j * KPool + o >= computed[r]
    BY <1>1, <1>2, <1>3, ShapeAssumption DEF Offset
  <2> QED BY <2>1, DecodeWritesKey
<1>5. PoolLast(j) \in DecodePos(r, n)
  BY <1>1, <1>2 DEF DecodePos
<1>6. DecodeWrite(r, n, a, j) = [o \in Offset |-> DecodeWrite(r, n, a, j)[o]]
  BY <1>5 DEF DecodeWrite
<1> QED BY <1>4, <1>6 DEF TruePool

(* What the stash of positions up to x leaves in the slot of y: a key that *)
(* the ring held, or that of a token stashed now, at y or after it.        *)
LEMMA StashedSomewhere ==
  ASSUME NEW r \in Req, computed[r] \in Nat, NEW a \in Nat,
         NEW x \in Nat, NEW y \in Nat, y <= x
  PROVE  \/ /\ y < computed[r]
            /\ StashThrough(r, a, x)[y % KPool] = ring[tail[r]][y % KPool]
         \/ \E w \in Nat :
              /\ computed[r] <= w /\ y <= w /\ w <= x /\ w % KPool = y % KPool
              /\ StashThrough(r, a, x)[y % KPool] = Key(r, w, w < computed[r] + a)
<1> DEFINE s == y % KPool
           W == LastInto(r, x, s)
<1>1. StashThrough(r, a, x)[s]
        = IF W = {} THEN ring[tail[r]][s]
          ELSE LET w == CHOOSE w \in W : TRUE
               IN  Key(r, w, w < computed[r] + a)
  BY SlotOf DEF StashThrough
<1>2. CASE W = {}
  <2>1. y < computed[r]
    <3> SUFFICES ASSUME y >= computed[r] PROVE FALSE
      OBVIOUS
    <3> DEFINE T == {z \in computed[r] .. x : z % KPool = s}
    <3>1. y \in T /\ T \subseteq 0 .. x
      OBVIOUS
    <3>2. PICK w \in T : \A z \in T : w >= z
      BY <3>1, LargestNatural
    <3>3. w \in W
      <4>1. w \in computed[r] .. x /\ w % KPool = s
        BY <3>2
      <4>2. ASSUME NEW z \in w + 1 .. x PROVE z % KPool # s
        <5>1. z \in computed[r] .. x /\ ~(w >= z)
          BY <4>1
        <5> QED BY <5>1, <3>2
      <4> HIDE DEF s
      <4> QED BY <4>1, <4>2 DEF LastInto
    <3> QED BY <3>3, <1>2
  <2> HIDE DEF W
  <2> QED BY <2>1, <1>1, <1>2
<1>3. CASE W # {}
  <2> DEFINE w == CHOOSE w \in W : TRUE
  <2>1. w \in W
    BY <1>3
  <2>2. w \in computed[r] .. x /\ w % KPool = s /\ \A z \in w + 1 .. x : z % KPool # s
    BY <2>1 DEF LastInto
  <2>3. w \in Nat /\ computed[r] <= w /\ w <= x
    BY <2>2
  <2>4. y <= w
    <3> SUFFICES ASSUME w < y PROVE FALSE
      BY <2>3
    <3>1. y \in w + 1 .. x
      BY <2>3
    <3> QED BY <3>1, <2>2
  <2>5. StashThrough(r, a, x)[s] = Key(r, w, w < computed[r] + a)
    BY <1>1, <1>3
  <2> HIDE DEF w, W
  <2> QED BY <2>2, <2>3, <2>4, <2>5
<1> QED BY <1>2, <1>3

(* Where the ring turns: the slots of the pool the request now stands in   *)
(* hold its committed keys, or drafts of this or an earlier batch.         *)
LEMMA DecodeKeepsBoundary ==
  ASSUME IInv, NEW r \in Req, NEW n, NEW a, DecodeRow(r, n, a),
         NEW y \in Pos, PoolStart(computed[r] + a) <= y, y < computed[r] + a
  PROVE  StashThrough(r, a, computed[r] + n - 1)[y % KPool] \in RingMayHold(r, y, computed[r] + a)
<1> DEFINE x == computed[r] + n - 1
           key == StashThrough(r, a, x)[y % KPool]
<1>1. /\ computed[r] \in Nat /\ n \in Nat /\ a \in Nat /\ NumSpec \in Nat
      /\ 1 <= a /\ a <= n /\ n <= 1 + NumSpec /\ Running(r)
  BY ShapeAssumption DEF IInv, TypeOK, DecodeRow, DecodeThreshold
<1>2. y \in Nat /\ x \in Nat /\ y <= x /\ x <= computed[r] + NumSpec
  BY <1>1, ShapeAssumption DEF Pos
<1>3. PoolStart(computed[r] + a) \in Nat /\ computed[r] + a < PoolStart(computed[r] + a) + KPool
  BY <1>1, PoolStartBounds
<1>4. ASSUME y < computed[r], key = ring[tail[r]][y % KPool]
      PROVE  key \in RingMayHold(r, y, computed[r] + a)
  <2>1. PoolStart(computed[r]) \in Nat /\ PoolStart(computed[r]) <= computed[r]
    BY <1>1, PoolStartBounds
  <2>2. PoolStart(computed[r]) % KPool = 0
    <3>1. PICK q \in Nat : PoolStart(computed[r]) = KPool * q
      BY <1>1, PoolStartBounds
    <3>2. PoolStart(computed[r]) = KPool * q + 0
      BY <3>1, <2>1
    <3> QED BY <2>1, <3>2, DivModUnique, ShapeAssumption
  <2>3. PoolStart(computed[r]) <= PoolStart(computed[r] + a)
    BY <2>1, <2>2, <1>1, BoundaryBeforeStart
  <2>4. PoolStart(computed[r]) <= y
    BY <2>1, <2>3, <1>2, <1>3
  <2>5. ring[tail[r]][y % KPool] \in RingMayHold(r, y, computed[r])
    BY <2>4, <1>4, <1>1 DEF IInv, BoundaryKeysOwn
  <2>6. \A p \in y + 1 .. computed[r] + NumSpec - 1 : p \in y + 1 .. computed[r] + a + NumSpec - 1
    BY <1>1, <1>2
  <2>7. RingMayHold(r, y, computed[r]) \subseteq RingMayHold(r, y, computed[r] + a)
    BY <2>6 DEF RingMayHold
  <2> HIDE DEF key
  <2> QED BY <2>5, <2>7, <1>4
<1>5. ASSUME NEW w \in Nat, computed[r] <= w, y <= w, w <= x, w % KPool = y % KPool,
             key = Key(r, w, w < computed[r] + a)
      PROVE  key \in RingMayHold(r, y, computed[r] + a)
  <2> HIDE DEF key, x
  <2>1. CASE w < computed[r] + a
    <3>1. w < y + KPool
      BY <2>1, <1>1, <1>2, <1>3, ShapeAssumption
    <3>2. w = y
      BY <3>1, <1>5, <1>2, TurnsAhead, ShapeAssumption
    <3> QED BY <3>2, <2>1, <1>5 DEF Key, RingMayHold
  <2>2. CASE ~(w < computed[r] + a)
    <3>1. w \in y + 1 .. computed[r] + a + NumSpec - 1
      BY <2>2, <1>5, <1>1, <1>2
    <3>2. key = Key(r, w, FALSE)
      <4>1. (w < computed[r] + a) = FALSE
        BY <2>2
      <4> QED BY <4>1, <1>5
    <3> QED BY <3>1, <3>2, <1>5 DEF RingMayHold
  <2> QED BY <2>1, <2>2
<1>6. \/ y < computed[r] /\ key = ring[tail[r]][y % KPool]
      \/ \E w \in Nat : /\ computed[r] <= w /\ y <= w /\ w <= x /\ w % KPool = y % KPool
                        /\ key = Key(r, w, w < computed[r] + a)
  <2> HIDE DEF x
  <2> QED BY <1>1, <1>2, StashedSomewhere
<1> HIDE DEF key, x
<1>7. key \in RingMayHold(r, y, computed[r] + a)
  <2>1. CASE y < computed[r] /\ key = ring[tail[r]][y % KPool]
    BY <1>4, <2>1
  <2>2. CASE \E w \in Nat : /\ computed[r] <= w /\ y <= w /\ w <= x /\ w % KPool = y % KPool
                            /\ key = Key(r, w, w < computed[r] + a)
    BY <1>5, <2>2
  <2> QED BY <1>6, <2>1, <2>2
<1> QED BY <1>7 DEF key, x

-----------------------------------------------------------------------------
(* Prefill rows.                                                           *)

(* What the choice of order and start in Forward gives.                    *)
PrefillBatch(m, order, start) ==
  /\ m \in Nat
  /\ order \in [1 .. m -> Req]
  /\ \A c, d \in 1 .. m : c # d => order[c] # order[d]
  /\ start \in [1 .. m + 1 -> 0 .. MaxBatch]
  /\ start[1] = 0
  /\ \A c, d \in 1 .. m + 1 : c < d => start[c] < start[d]
  /\ PrefillRows(m, order, start)

(* Every flat index belongs to the chunk ChunkOf picks, and to no other.   *)
LEMMA FlatIndex ==
  ASSUME NEW m, NEW order, NEW start, PrefillBatch(m, order, start),
         NEW i \in 0 .. FlatLen(m, start) - 1
  PROVE  /\ ChunkOf(m, start, i) \in 1 .. m
         /\ start[ChunkOf(m, start, i)] <= i
         /\ i < start[ChunkOf(m, start, i) + 1]
<1>1. m \in Nat /\ i \in Nat /\ i < start[m + 1] /\ start[1] = 0
      /\ \A c \in 1 .. m + 1 : start[c] \in Nat
  BY ShapeAssumption DEF PrefillBatch, FlatLen
<1> DEFINE T == {c \in 1 .. m + 1 : start[c] > i}
<1>2. T \subseteq Nat /\ T # {}
  BY <1>1
<1>3. PICK d \in T : \A e \in T : d <= e
  BY <1>2, LeastNatural
<1>4. d \in 1 .. m + 1 /\ start[d] > i
  BY <1>3
<1>5. d # 1
  BY <1>1, <1>4
<1>6. d - 1 \in 1 .. m /\ d - 1 \notin T
  BY <1>1, <1>3, <1>4, <1>5
<1>7. start[d - 1] <= i
  BY <1>1, <1>6
<1>8. \E c \in 1 .. m : start[c] <= i /\ i < start[c + 1]
  <2>1. (d - 1) + 1 = d
    BY <1>4
  <2> QED BY <1>6, <1>7, <1>4, <2>1
<1> QED BY <1>8 DEF ChunkOf

LEMMA FlatInChunk ==
  ASSUME NEW m, NEW order, NEW start, PrefillBatch(m, order, start),
         NEW c \in 1 .. m, NEW i \in Nat, start[c] <= i, i < start[c + 1]
  PROVE  /\ i \in 0 .. FlatLen(m, start) - 1
         /\ ChunkOf(m, start, i) = c
         /\ FlatReq(m, order, start, i) = order[c]
         /\ FlatPos(m, order, start, i) = computed[order[c]] + (i - start[c])
<1>1. /\ m \in Nat /\ c + 1 \in 1 .. m + 1 /\ m + 1 \in 1 .. m + 1
      /\ \A e \in 1 .. m + 1 : start[e] \in Nat
      /\ \A e, f \in 1 .. m + 1 : e < f => start[e] < start[f]
  BY ShapeAssumption DEF PrefillBatch
<1>2. start[c + 1] <= start[m + 1]
  <2>1. CASE c + 1 = m + 1
    BY <2>1, <1>1
  <2>2. CASE c + 1 < m + 1
    BY <2>2, <1>1
  <2> QED BY <2>1, <2>2, <1>1
<1>3. i \in 0 .. FlatLen(m, start) - 1
  BY <1>1, <1>2 DEF FlatLen
<1> DEFINE d == ChunkOf(m, start, i)
<1>4. d \in 1 .. m /\ start[d] <= i /\ i < start[d + 1]
  BY <1>3, FlatIndex
<1> HIDE DEF d
<1>5. ~(d < c)
  <2> SUFFICES ASSUME d < c PROVE FALSE
    OBVIOUS
  <2>1. start[d + 1] <= start[c]
    <3>1. d + 1 \in 1 .. m + 1 /\ c \in 1 .. m + 1 /\ (d + 1 = c \/ d + 1 < c)
      BY <1>1, <1>4
    <3>2. CASE d + 1 = c
      BY <3>2, <3>1, <1>1
    <3>3. CASE d + 1 < c
      BY <3>3, <3>1, <1>1
    <3> QED BY <3>1, <3>2, <3>3
  <2>2. start[d + 1] \in Nat /\ start[c] \in Nat
    BY <1>1, <1>4
  <2> QED BY <2>1, <2>2, <1>4
<1>6. ~(c < d)
  <2> SUFFICES ASSUME c < d PROVE FALSE
    OBVIOUS
  <2>1. start[c + 1] <= start[d]
    <3>1. d \in 1 .. m + 1 /\ (c + 1 = d \/ c + 1 < d)
      BY <1>1, <1>4
    <3>2. CASE c + 1 = d
      BY <3>2, <3>1, <1>1
    <3>3. CASE c + 1 < d
      BY <3>3, <3>1, <1>1
    <3> QED BY <3>1, <3>2, <3>3
  <2>2. start[c + 1] \in Nat /\ start[d] \in Nat
    BY <1>1, <1>4
  <2> QED BY <2>1, <2>2, <1>4
<1>7. d = c
  BY <1>4, <1>5, <1>6
<1> QED BY <1>3, <1>7 DEF d, FlatReq, FlatPos

(* The facts about one chunk that the lemmas below use.                    *)
LEMMA ChunkFacts ==
  ASSUME IInv, NEW m, NEW order, NEW start, PrefillBatch(m, order, start),
         NEW c \in 1 .. m
  PROVE  /\ order[c] \in Req /\ Prefilling(order[c]) /\ Running(order[c])
         /\ computed[order[c]] \in Nat /\ computed[order[c]] % KPool = 0
         /\ start[c] \in Nat /\ start[c + 1] \in Nat
         /\ ChunkLen(start, c) = start[c + 1] - start[c]
         /\ ChunkLen(start, c) \in Nat \ {0}
         /\ computed[order[c]] + ChunkLen(start, c) <= target[order[c]]
         /\ target[order[c]] \in 1 .. MaxLen
<1>1. m \in Nat /\ order[c] \in Req /\ c + 1 \in 1 .. m + 1 /\ c \in 1 .. m + 1
  BY DEF PrefillBatch
<1>2. start[c] \in Nat /\ start[c + 1] \in Nat
  BY <1>1, ShapeAssumption DEF PrefillBatch
<1>3. Prefilling(order[c]) /\ Chunk(order[c], ChunkLen(start, c))
  BY DEF PrefillBatch, PrefillRows
<1>4. computed[order[c]] \in 0 .. MaxLen /\ target[order[c]] \in 1 .. MaxLen
  BY <1>1 DEF IInv, TypeOK
<1>5. computed[order[c]] % KPool = 0
  BY <1>1, <1>3 DEF IInv, PrefillAligned
<1>6. ChunkLen(start, c) \in 1 .. target[order[c]] - computed[order[c]]
  BY <1>3 DEF Chunk
<1> QED BY <1>1, <1>2, <1>3, <1>4, <1>5, <1>6, ShapeAssumption DEF ChunkLen, Prefilling

(* A flat index of request order[c] lies in chunk c.                       *)
LEMMA FlatOwner ==
  ASSUME NEW m, NEW order, NEW start, PrefillBatch(m, order, start),
         NEW c \in 1 .. m, NEW i \in 0 .. FlatLen(m, start) - 1,
         FlatReq(m, order, start, i) = order[c]
  PROVE  /\ i \in Nat /\ start[c] <= i /\ i < start[c + 1]
         /\ FlatPos(m, order, start, i) = computed[order[c]] + (i - start[c])
<1> DEFINE d == ChunkOf(m, start, i)
<1>1. d \in 1 .. m /\ start[d] <= i /\ i < start[d + 1]
  BY FlatIndex
<1>2. i \in Nat
  BY ShapeAssumption DEF FlatLen
<1>3. order[d] = order[c]
  BY DEF FlatReq
<1>4. d = c
  BY <1>1, <1>3 DEF PrefillBatch
<1> QED BY <1>1, <1>2, <1>4, FlatInChunk

(* _kpool_compress_insert pools every pool that ends in the chunk, from    *)
(* tokens of that chunk only, a chunk starting at a pool boundary, and     *)
(* leaves the pools that were complete before it alone.                    *)
LEMMA PrefillPools ==
  ASSUME IInv, NEW m, NEW order, NEW start, PrefillBatch(m, order, start),
         NEW c \in 1 .. m, NEW j \in PoolId,
         PoolLast(j) < computed[order[c]] + ChunkLen(start, c)
  PROVE  CompressInsert(m, order, start, order[c], j)
           = IF PoolLast(j) < computed[order[c]] THEN pool[order[c]][j]
             ELSE TruePool(order[c], j)
<1> DEFINE r == order[c]
           p == computed[order[c]]
           done == CompletesAt(m, order, start, order[c], j)
<1>1. /\ r \in Req /\ Running(r) /\ p \in Nat /\ p % KPool = 0
      /\ start[c] \in Nat /\ start[c + 1] \in Nat
      /\ ChunkLen(start, c) = start[c + 1] - start[c]
  BY ChunkFacts
<1>2. j \in Nat /\ j * KPool \in Nat /\ PoolLast(j) \in Nat
      /\ PoolLast(j) = j * KPool + (KPool - 1)
  BY PoolPositions, ShapeAssumption DEF Pos, Offset, PoolLast
<1> HIDE DEF r, p, done
<1>3. \A i \in done : /\ i \in Nat /\ start[c] <= i /\ i < start[c + 1]
                      /\ p + (i - start[c]) = PoolLast(j) /\ i >= KPool - 1
  <2> SUFFICES ASSUME NEW i \in done
               PROVE  /\ i \in Nat /\ start[c] <= i /\ i < start[c + 1]
                      /\ p + (i - start[c]) = PoolLast(j) /\ i >= KPool - 1
    OBVIOUS
  <2>1. /\ i \in 0 .. FlatLen(m, start) - 1 /\ FlatReq(m, order, start, i) = order[c]
        /\ FlatPos(m, order, start, i) = PoolLast(j) /\ i >= KPool - 1
    BY DEF done, CompletesAt
  <2> QED BY <2>1, FlatOwner DEF p
<1>4. CASE p <= PoolLast(j)
  <2>1. p <= j * KPool
    BY <1>1, <1>2, <1>4, BoundaryBeforePool
  <2> DEFINE e == start[c] + (PoolLast(j) - p)
  <2>2. e \in Nat /\ start[c] <= e /\ e < start[c + 1] /\ e >= KPool - 1
    BY <1>1, <1>2, <1>4, <2>1, ShapeAssumption DEF p
  <2>3. e \in 0 .. FlatLen(m, start) - 1 /\ FlatReq(m, order, start, e) = order[c]
        /\ FlatPos(m, order, start, e) = p + (e - start[c])
    BY <2>2, FlatInChunk DEF p
  <2>4. e \in done
    BY <2>2, <2>3, <1>1, <1>2 DEF done, CompletesAt
  <2>5. FlatLen(m, start) >= KPool
    BY <2>2, <2>3, ShapeAssumption, FlatLen(m, start) \in Nat DEF FlatLen, PrefillBatch
  <2>6. PICK i \in done : CompressInsert(m, order, start, order[c], j)
                           = [o \in Offset |-> FlatKey(m, order, start, i - (KPool - 1) + o)]
    <3>1. FlatLen(m, start) \in Nat
      BY ShapeAssumption DEF FlatLen, PrefillBatch
    <3>2. ~(FlatLen(m, start) < KPool)
      BY <2>5, <3>1, ShapeAssumption
    <3> QED BY <2>4, <3>2 DEF CompressInsert, done
  <2>7. ASSUME NEW o \in Offset
        PROVE  FlatKey(m, order, start, i - (KPool - 1) + o) = Key(order[c], j * KPool + o, TRUE)
    <3> DEFINE f == i - (KPool - 1) + o
    <3>1. i \in Nat /\ start[c] <= i /\ i < start[c + 1] /\ p + (i - start[c]) = PoolLast(j)
          /\ o \in 0 .. KPool - 1
      BY <1>3 DEF Offset
    <3>2. f \in Nat /\ start[c] <= f /\ f < start[c + 1] /\ p + (f - start[c]) = j * KPool + o
      <4> DEFINE y == j * KPool
      <4>1. y \in Nat /\ p <= y /\ p + (i - start[c]) = y + (KPool - 1) /\ KPool \in Nat \ {0}
            /\ start[c] \in Nat /\ start[c + 1] \in Nat /\ p \in Nat
        BY <3>1, <2>1, <1>1, <1>2, ShapeAssumption
      <4> HIDE DEF y
      <4>2. f \in Nat /\ start[c] <= f /\ f < start[c + 1] /\ p + (f - start[c]) = y + o
        BY <4>1, <3>1
      <4> QED BY <4>2 DEF y
    <3> HIDE DEF f
    <3>3. FlatReq(m, order, start, f) = order[c] /\ FlatPos(m, order, start, f) = j * KPool + o
      BY <3>2, FlatInChunk DEF p
    <3>4. FlatKey(m, order, start, f) = Key(order[c], j * KPool + o, TRUE)
      BY <3>3 DEF FlatKey
    <3> QED BY <3>4 DEF f
  <2>8. ~(PoolLast(j) < p)
    BY <1>1, <1>2, <1>4
  <2> QED BY <2>6, <2>7, <2>8 DEF TruePool, p
<1>5. CASE PoolLast(j) < p
  <2>1. done = {}
    BY <1>3, <1>1, <1>2, <1>5
  <2> QED BY <2>1, <1>5 DEF CompressInsert, done, p
<1>6. p <= PoolLast(j) \/ PoolLast(j) < p
  BY <1>1, <1>2
<1> QED BY <1>4, <1>5, <1>6

(* A seed of order[c]'s own block is one of the last KPool tokens of the   *)
(* chunk, however the chunks of the batch are ordered.                     *)
LEMMA SeedOwner ==
  ASSUME IInv, NEW m, NEW order, NEW start, PrefillBatch(m, order, start),
         NEW c \in 1 .. m, NEW s,
         NEW i \in Seeds(m, order, start, tail[order[c]], s)
  PROVE  /\ i \in 0 .. FlatLen(m, start) - 1
         /\ FlatReq(m, order, start, i) = order[c]
         /\ i \in Nat /\ start[c] <= i /\ i < start[c + 1]
         /\ FlatPos(m, order, start, i) = computed[order[c]] + (i - start[c])
         /\ (computed[order[c]] + (i - start[c])) % KPool = s
         /\ start[c + 1] <= i + KPool
<1>1. /\ i \in 0 .. FlatLen(m, start) - 1
      /\ tail[FlatReq(m, order, start, i)] = tail[order[c]]
      /\ FlatPos(m, order, start, i) % KPool = s
      /\ InTail(m, order, start, i)
  BY DEF Seeds
<1> DEFINE d == ChunkOf(m, start, i)
<1>2. d \in 1 .. m
  BY <1>1, FlatIndex
<1>3. FlatReq(m, order, start, i) = order[d]
  BY DEF FlatReq
<1> HIDE DEF d
<1>4. order[d] = order[c]
  <2>1. Running(order[d]) /\ Running(order[c]) /\ order[c] \in Req /\ order[d] \in Req
    BY <1>2, ChunkFacts
  <2> QED BY <2>1, <1>1, <1>3 DEF IInv, TailOwned
<1>5. FlatReq(m, order, start, i) = order[c]
  BY <1>3, <1>4
<1>6. /\ i \in Nat /\ start[c] <= i /\ i < start[c + 1]
      /\ FlatPos(m, order, start, i) = computed[order[c]] + (i - start[c])
  BY <1>1, <1>5, FlatOwner
<1>7. start[c + 1] <= i + KPool
  <2>1. start[c + 1] \in Nat /\ start[c] \in Nat /\ i + KPool \in Nat
    BY <1>6, ChunkFacts, ShapeAssumption
  <2> SUFFICES ASSUME i + KPool < start[c + 1] PROVE FALSE
    BY <2>1
  <2>2. start[c] <= i + KPool
    BY <1>6, <2>1, ShapeAssumption
  <2>3. i + KPool \in 0 .. FlatLen(m, start) - 1 /\ FlatReq(m, order, start, i + KPool) = order[c]
    BY <2>1, <2>2, FlatInChunk
  <2>4. ~(i + KPool >= FlatLen(m, start))
    BY <2>3, <2>1, FlatLen(m, start) \in Nat, ShapeAssumption DEF FlatLen, PrefillBatch
  <2> QED BY <2>3, <2>4, <1>1, <1>5 DEF InTail
<1> QED BY <1>1, <1>5, <1>6, <1>7

(* kpool_seed_tail_cache leaves the keys of each request's unfinished pool *)
(* in its own ring.                                                        *)
LEMMA PrefillSeedsBoundary ==
  ASSUME IInv, NEW m, NEW order, NEW start, PrefillBatch(m, order, start),
         NEW c \in 1 .. m, NEW y \in Pos,
         PoolStart(computed[order[c]] + ChunkLen(start, c)) <= y,
         y < computed[order[c]] + ChunkLen(start, c)
  PROVE  SeedTail(m, order, start, tail[order[c]])[y % KPool] = Key(order[c], y, TRUE)
<1> DEFINE p == computed[order[c]]
           n == p + ChunkLen(start, c)
           e == start[c] + (y - p)
           W == Seeds(m, order, start, tail[order[c]], y % KPool)
<1>1. /\ order[c] \in Req /\ Running(order[c]) /\ p \in Nat /\ p % KPool = 0
      /\ start[c] \in Nat /\ start[c + 1] \in Nat
      /\ ChunkLen(start, c) = start[c + 1] - start[c]
      /\ ChunkLen(start, c) \in Nat
  BY ChunkFacts
<1>2. y \in Nat /\ n \in Nat /\ y < n /\ PoolStart(n) <= y
  BY <1>1, ShapeAssumption DEF Pos
<1>3. PoolStart(n) \in Nat /\ n < PoolStart(n) + KPool
  BY <1>2, PoolStartBounds
<1>4. p <= PoolStart(n)
  <2>1. p <= n
    BY <1>1
  <2> HIDE DEF n, p
  <2> QED BY <1>1, <1>2, <2>1, BoundaryBeforeStart
<1>5. p <= y /\ n <= y + KPool
  BY <1>2, <1>3, <1>4, <1>1, ShapeAssumption
<1>6. e \in Nat /\ start[c] <= e /\ e < start[c + 1] /\ start[c + 1] <= e + KPool
      /\ p + (e - start[c]) = y
  BY <1>1, <1>2, <1>5, ShapeAssumption
<1> HIDE DEF e
<1>7. /\ e \in 0 .. FlatLen(m, start) - 1 /\ FlatReq(m, order, start, e) = order[c]
      /\ FlatPos(m, order, start, e) = y
  BY <1>6, FlatInChunk
<1>8. InTail(m, order, start, e)
  <2> SUFFICES ASSUME ~(e + KPool >= FlatLen(m, start))
               PROVE  tail[FlatReq(m, order, start, e + KPool)] # tail[order[c]]
    BY <1>7 DEF InTail
  <2> DEFINE f == e + KPool
             d == ChunkOf(m, start, f)
  <2>1. FlatLen(m, start) \in Nat
    BY ShapeAssumption DEF FlatLen, PrefillBatch
  <2>2. f \in 0 .. FlatLen(m, start) - 1
    BY <2>1, <1>6, ShapeAssumption
  <2> HIDE DEF f
  <2>3. d \in 1 .. m /\ start[d] <= f /\ f < start[d + 1]
    BY <2>2, FlatIndex
  <2>4. d # c
    BY <2>3, <1>6, <1>1, ShapeAssumption DEF f
  <2>5. order[d] # order[c]
    BY <2>3, <2>4 DEF PrefillBatch
  <2>6. FlatReq(m, order, start, f) = order[d]
    BY DEF FlatReq
  <2> HIDE DEF d
  <2>7. Running(order[d]) /\ order[d] \in Req
    BY <2>3, ChunkFacts
  <2>8. tail[order[d]] # tail[order[c]]
    BY <2>5, <2>7, <1>1 DEF IInv, TailOwned
  <2> QED BY <2>6, <2>8 DEF f
<1>9. e \in W
  BY <1>7, <1>8 DEF Seeds
<1>10. ASSUME NEW i \in W
       PROVE  FlatKey(m, order, start, i) = Key(order[c], y, TRUE)
  <2>1. /\ FlatReq(m, order, start, i) = order[c]
        /\ i \in Nat /\ start[c] <= i /\ i < start[c + 1]
        /\ FlatPos(m, order, start, i) = p + (i - start[c])
        /\ (p + (i - start[c])) % KPool = y % KPool
        /\ start[c + 1] <= i + KPool
    BY SeedOwner
  <2> DEFINE z == p + (i - start[c])
  <2>2. z \in Nat /\ z < n /\ n <= z + KPool /\ z % KPool = y % KPool
    <3>1. z \in Nat
      BY <2>1, <1>1
    <3>2. z < n /\ n <= z + KPool
      <4> HIDE DEF p
      <4> QED BY <2>1, <1>1, ShapeAssumption
    <3> QED BY <3>1, <3>2, <2>1
  <2> HIDE DEF z, n
  <2>3. z = y
    <3>1. KPool \in Nat \ {0} /\ z < y + KPool /\ y < z + KPool
      BY <2>2, <1>2, <1>5, <1>1, ShapeAssumption
    <3>2. ~(z < y) /\ ~(y < z)
      BY <3>1, <2>2, <1>2, DistinctSlots
    <3> QED BY <3>2, <2>2, <1>2
  <2> QED BY <2>1, <2>3 DEF FlatKey, z
<1> HIDE DEF W
<1>11. W # {} /\ (CHOOSE i \in W : TRUE) \in W
  BY <1>9
<1>12. y % KPool \in Slot
  BY <1>2, SlotOf
<1>13. SeedTail(m, order, start, tail[order[c]])[y % KPool]
         = IF W = {} THEN ring[tail[order[c]]][y % KPool]
           ELSE FlatKey(m, order, start, CHOOSE i \in W : TRUE)
  BY <1>12 DEF SeedTail, W
<1> QED BY <1>10, <1>11, <1>13

-----------------------------------------------------------------------------
(* Types of what the rows write.                                           *)

LEMMA KeyType ==
  ASSUME NEW r \in Req, NEW y \in Pos, NEW ok \in BOOLEAN
  PROVE  Key(r, y, ok) \in KeySet
BY DEF KeySet

LEMMA StashType ==
  ASSUME IInv, NEW r \in Req, Running(r), NEW a \in Nat, NEW x \in Pos
  PROVE  StashThrough(r, a, x) \in [Slot -> KeySet]
<1>1. computed[r] \in Nat /\ tail[r] \in Block
  BY ShapeAssumption DEF IInv, TypeOK, TailOwned
<1>2. ASSUME NEW s \in Slot, LastInto(r, x, s) = {}
      PROVE  ring[tail[r]][s] \in KeySet
  BY <1>1 DEF IInv, TypeOK
<1>3. ASSUME NEW s \in Slot, NEW y \in LastInto(r, x, s)
      PROVE  Key(r, y, y < computed[r] + a) \in KeySet
  <2>1. y \in Pos
    BY <1>1, ShapeAssumption DEF LastInto, Pos
  <2>2. (y < computed[r] + a) \in BOOLEAN
    OBVIOUS
  <2> QED BY <2>1, <2>2, KeyType
<1>4. ASSUME NEW s \in Slot
      PROVE  (IF LastInto(r, x, s) = {} THEN ring[tail[r]][s]
              ELSE LET y == CHOOSE y \in LastInto(r, x, s) : TRUE
                   IN  Key(r, y, y < computed[r] + a)) \in KeySet
  <2>1. CASE LastInto(r, x, s) = {}
    BY <2>1, <1>2
  <2>2. CASE LastInto(r, x, s) # {}
    <3>1. (CHOOSE y \in LastInto(r, x, s) : TRUE) \in LastInto(r, x, s)
      BY <2>2
    <3> QED BY <3>1, <2>2, <1>3
  <2> QED BY <2>1, <2>2
<1> QED BY <1>4 DEF StashThrough

LEMMA FlatKeyType ==
  ASSUME IInv, NEW m, NEW order, NEW start, PrefillBatch(m, order, start),
         NEW i \in 0 .. FlatLen(m, start) - 1
  PROVE  FlatKey(m, order, start, i) \in KeySet
<1> DEFINE d == ChunkOf(m, start, i)
<1>1. d \in 1 .. m /\ start[d] <= i /\ i < start[d + 1] /\ i \in Nat
  BY FlatIndex, ShapeAssumption DEF FlatLen
<1>2. FlatReq(m, order, start, i) = order[d]
      /\ FlatPos(m, order, start, i) = computed[order[d]] + (i - start[d])
  BY DEF FlatReq, FlatPos
<1> HIDE DEF d
<1>3. /\ order[d] \in Req /\ computed[order[d]] \in Nat
      /\ start[d] \in Nat /\ start[d + 1] \in Nat
      /\ ChunkLen(start, d) = start[d + 1] - start[d]
      /\ computed[order[d]] + ChunkLen(start, d) <= target[order[d]]
      /\ target[order[d]] \in 1 .. MaxLen
  BY <1>1, ChunkFacts
<1>4. FlatPos(m, order, start, i) \in Pos
  BY <1>1, <1>2, <1>3, ShapeAssumption DEF Pos
<1>5. Key(order[d], FlatPos(m, order, start, i), TRUE) \in KeySet
  BY <1>3, <1>4, KeyType
<1> QED BY <1>2, <1>5 DEF FlatKey

LEMMA SeedType ==
  ASSUME IInv, NEW m, NEW order, NEW start, PrefillBatch(m, order, start), NEW b \in Block
  PROVE  SeedTail(m, order, start, b) \in [Slot -> KeySet]
<1>1. ASSUME NEW s \in Slot
      PROVE  (LET w == Seeds(m, order, start, b, s)
              IN  IF w = {} THEN ring[b][s]
                  ELSE FlatKey(m, order, start, CHOOSE i \in w : TRUE)) \in KeySet
  <2> DEFINE w == Seeds(m, order, start, b, s)
  <2>1. ring[b][s] \in KeySet
    BY DEF IInv, TypeOK
  <2>2. ASSUME w # {}
        PROVE  FlatKey(m, order, start, CHOOSE i \in w : TRUE) \in KeySet
    <3>1. (CHOOSE i \in w : TRUE) \in 0 .. FlatLen(m, start) - 1
      BY <2>2 DEF Seeds
    <3> QED BY <3>1, FlatKeyType
  <2> QED BY <2>1, <2>2
<1> QED BY <1>1 DEF SeedTail

LEMMA CompressType ==
  ASSUME IInv, NEW m, NEW order, NEW start, PrefillBatch(m, order, start),
         NEW r \in Req, NEW j \in PoolId
  PROVE  CompressInsert(m, order, start, r, j) \in [Offset -> KeySet]
<1> DEFINE done == CompletesAt(m, order, start, r, j)
<1>1. pool[r][j] \in [Offset -> KeySet]
  BY DEF IInv, TypeOK
<1>2. ASSUME NEW i \in done, NEW o \in Offset
      PROVE  FlatKey(m, order, start, i - (KPool - 1) + o) \in KeySet
  <2>1. i \in 0 .. FlatLen(m, start) - 1 /\ i >= KPool - 1 /\ o \in 0 .. KPool - 1
    BY DEF CompletesAt, Offset
  <2>2. FlatLen(m, start) \in Nat
    BY ShapeAssumption DEF FlatLen, PrefillBatch
  <2>3. i - (KPool - 1) + o \in 0 .. FlatLen(m, start) - 1
    BY <2>1, <2>2, ShapeAssumption
  <2> QED BY <2>3, FlatKeyType
<1>3. ASSUME done # {}
      PROVE  (LET i == CHOOSE i \in done : TRUE
              IN  [o \in Offset |-> FlatKey(m, order, start, i - (KPool - 1) + o)])
               \in [Offset -> KeySet]
  <2>1. (CHOOSE i \in done : TRUE) \in done
    BY <1>3
  <2> HIDE DEF done
  <2> QED BY <2>1, <1>2
<1> QED BY <1>1, <1>3 DEF CompressInsert

LEMMA DecodeType ==
  ASSUME IInv, NEW r \in Req, NEW n, NEW a, DecodeRow(r, n, a), NEW j \in PoolId
  PROVE  DecodeWrite(r, n, a, j) \in [Offset -> KeySet]
<1>1. pool[r][j] \in [Offset -> KeySet]
  BY DEF IInv, TypeOK
<1>2. a \in Nat /\ Running(r)
  BY DEF DecodeRow
<1>3. PoolLast(j) \in Pos
  <2>1. 0 \in Offset
    BY ShapeAssumption DEF Offset
  <2> QED BY <2>1, PoolPositions
<1>4. StashThrough(r, a, PoolLast(j)) \in [Slot -> KeySet]
  BY <1>2, <1>3, StashType
<1>5. ASSUME NEW o \in Offset
      PROVE  (j * KPool + o) % KPool \in Slot
  BY PoolPositions, SlotOf, ShapeAssumption DEF Pos
<1> QED BY <1>1, <1>4, <1>5 DEF DecodeWrite

-----------------------------------------------------------------------------
(* One batch.  Each running request is a decode row, a prefill chunk or    *)
(* idle; the three give its pools, its ring and its computed length.       *)

LEMMA BatchDecodeEffect ==
  ASSUME IInv, NEW D \in SUBSET Req, NEW rows, NEW m, NEW order, NEW start,
         PrefillBatch(m, order, start), Batch(D, rows, m, order, start),
         NEW r \in D
  PROVE  /\ DecodeRow(r, rows[r][1], rows[r][2])
         /\ tail[r] \in Block
         /\ pool'[r] = [j \in PoolId |-> DecodeWrite(r, rows[r][1], rows[r][2], j)]
         /\ ring'[tail[r]] = StashThrough(r, rows[r][2], computed[r] + rows[r][1] - 1)
         /\ computed'[r] = computed[r] + rows[r][2]
<1>1. DecodeRow(r, rows[r][1], rows[r][2]) /\ Running(r) /\ r \in Req
  BY DEF Batch, DecodeRow
<1>2. tail[r] \in Block
  BY <1>1 DEF IInv, TypeOK, TailOwned
<1>3. /\ pool'[r] = [j \in PoolId |-> DecodeWrite(r, rows[r][1], rows[r][2], j)]
      /\ computed'[r] = computed[r] + rows[r][2]
  BY <1>1 DEF Batch
<1>4. ASSUME NEW q \in D, tail[q] = tail[r] PROVE q = r
  <2>1. Running(q) /\ q \in Req
    BY DEF Batch, DecodeRow
  <2> QED BY <1>1, <1>4, <2>1 DEF IInv, TailOwned
<1>5. (CHOOSE q \in D : tail[q] = tail[r]) = r
  BY <1>4
<1>6. ring'[tail[r]] = StashThrough(r, rows[r][2], computed[r] + rows[r][1] - 1)
  BY <1>2, <1>5 DEF Batch
<1> QED BY <1>1, <1>2, <1>3, <1>6

LEMMA BatchPrefillEffect ==
  ASSUME IInv, NEW D \in SUBSET Req, NEW rows, NEW m, NEW order, NEW start,
         PrefillBatch(m, order, start), Batch(D, rows, m, order, start),
         NEW c \in 1 .. m
  PROVE  /\ order[c] \notin D
         /\ tail[order[c]] \in Block
         /\ pool'[order[c]] = [j \in PoolId |-> CompressInsert(m, order, start, order[c], j)]
         /\ ring'[tail[order[c]]] = SeedTail(m, order, start, tail[order[c]])
         /\ computed'[order[c]] = computed[order[c]] + ChunkLen(start, c)
<1>1. order[c] \in Req /\ Running(order[c])
  BY ChunkFacts
<1>2. order[c] \in {order[d] : d \in 1 .. m} /\ order[c] \notin D
  BY DEF Batch
<1>3. tail[order[c]] \in Block
  BY <1>1 DEF IInv, TypeOK, TailOwned
<1>4. pool'[order[c]] = [j \in PoolId |-> CompressInsert(m, order, start, order[c], j)]
  BY <1>1, <1>2 DEF Batch
<1>5. (CHOOSE d \in 1 .. m : order[d] = order[c]) = c
  BY DEF PrefillBatch
<1>6. computed'[order[c]] = computed[order[c]] + ChunkLen(start, c)
  BY <1>1, <1>2, <1>5 DEF Batch
<1>7. ASSUME NEW q \in D PROVE tail[q] # tail[order[c]]
  <2>1. Running(q) /\ q \in Req /\ q # order[c]
    BY <1>2 DEF Batch, DecodeRow
  <2> QED BY <1>1, <2>1 DEF IInv, TailOwned
<1>8. m # 0
  BY DEF PrefillBatch
<1>9. ring'[tail[order[c]]] = SeedTail(m, order, start, tail[order[c]])
  BY <1>3, <1>7, <1>8 DEF Batch
<1> QED BY <1>2, <1>3, <1>4, <1>6, <1>9

LEMMA BatchIdleEffect ==
  ASSUME IInv, NEW D \in SUBSET Req, NEW rows, NEW m, NEW order, NEW start,
         PrefillBatch(m, order, start), Batch(D, rows, m, order, start),
         NEW r \in Req, r \notin D, \A c \in 1 .. m : order[c] # r
  PROVE  /\ pool'[r] = pool[r]
         /\ computed'[r] = computed[r]
         /\ Running(r) => ring'[tail[r]] = ring[tail[r]]
<1>1. pool'[r] = pool[r] /\ computed'[r] = computed[r]
  BY DEF Batch
<1>2. ASSUME Running(r) PROVE ring'[tail[r]] = ring[tail[r]]
  <2>1. tail[r] \in Block /\ ring[tail[r]] \in [Slot -> KeySet]
    BY <1>2 DEF IInv, TypeOK, TailOwned
  <2>2. ASSUME NEW q \in D PROVE tail[q] # tail[r]
    <3>1. Running(q) /\ q \in Req /\ q # r
      BY DEF Batch, DecodeRow
    <3> QED BY <1>2, <3>1 DEF IInv, TailOwned
  <2>3. ASSUME NEW s \in Slot PROVE Seeds(m, order, start, tail[r], s) = {}
    <3> SUFFICES ASSUME NEW i \in Seeds(m, order, start, tail[r], s) PROVE FALSE
      OBVIOUS
    <3> DEFINE d == ChunkOf(m, start, i)
    <3>1. i \in 0 .. FlatLen(m, start) - 1 /\ tail[FlatReq(m, order, start, i)] = tail[r]
      BY DEF Seeds
    <3>2. d \in 1 .. m
      BY <3>1, FlatIndex
    <3>3. tail[order[d]] = tail[r]
      BY <3>1 DEF FlatReq
    <3> HIDE DEF d
    <3>4. Running(order[d]) /\ order[d] \in Req /\ order[d] # r
      BY <3>2, ChunkFacts
    <3> QED BY <1>2, <3>3, <3>4 DEF IInv, TailOwned
  <2>4. SeedTail(m, order, start, tail[r]) = ring[tail[r]]
    BY <2>1, <2>3 DEF SeedTail
  <2> QED BY <2>1, <2>2, <2>4 DEF Batch
<1> QED BY <1>1, <1>2

(* A multiple of Align added to a boundary is a boundary.                  *)
LEMMA BoundaryPlusAligned ==
  ASSUME NEW p \in Nat, NEW n \in Nat, p % KPool = 0, n % Align = 0
  PROVE  (p + n) % KPool = 0
<1>1. PICK q \in Nat : p = KPool * q
  BY Multiple, ShapeAssumption
<1>2. PICK u \in Nat : n = KPool * u
  BY AlignedIsBoundary, Multiple, ShapeAssumption
<1>3. q + u \in Nat /\ p + n = KPool * (q + u) + 0 /\ p + n \in Nat
  BY <1>1, <1>2, ShapeAssumption
<1> DEFINE s == p + n
          v == q + u
<1>4. s \in Nat /\ v \in Nat /\ s = KPool * v + 0 /\ 0 \in 0 .. KPool - 1
  BY <1>3, ShapeAssumption
<1> HIDE DEF s, v
<1>5. s % KPool = 0
  BY <1>4, DivModUnique, ShapeAssumption
<1> QED BY <1>5 DEF s

(* What one batch does to the index of a request: entries that were        *)
(* complete stay, the others are the request's own, the prompt's exactly.  *)
LEMMA BatchPools ==
  ASSUME IInv, NEW D \in SUBSET Req, NEW rows, NEW m, NEW order, NEW start,
         PrefillBatch(m, order, start), Batch(D, rows, m, order, start),
         NEW r \in Req, NEW j \in PoolId, PoolLast(j) < computed'[r]
  PROVE  IF PoolLast(j) < computed[r] THEN pool'[r][j] = pool[r][j]
         ELSE IF PoolLast(j) < target[r] THEN pool'[r][j] = TruePool(r, j)
         ELSE Promise!MayHold(r, j, pool'[r][j])
<1>1. computed[r] \in Nat /\ target[r] \in Nat /\ PoolLast(j) \in Nat
  BY PoolPositions, ShapeAssumption, 0 \in 0 .. KPool - 1 DEF IInv, TypeOK, Pos, Offset
<1>2. CASE r \in D
  <2> DEFINE n == rows[r][1]
             a == rows[r][2]
  <2>1. /\ DecodeRow(r, n, a)
        /\ pool'[r] = [i \in PoolId |-> DecodeWrite(r, n, a, i)]
        /\ computed'[r] = computed[r] + a
    BY <1>2, BatchDecodeEffect
  <2> HIDE DEF n, a
  <2>2. PoolLast(j) < computed[r] + a /\ pool'[r][j] = DecodeWrite(r, n, a, j) /\ Running(r)
    BY <2>1 DEF DecodeRow
  <2>3. CASE PoolLast(j) < computed[r]
    BY <2>1, <2>2, <2>3, DecodeKeepsPools
  <2>4. CASE ~(PoolLast(j) < computed[r]) /\ PoolLast(j) < target[r]
    <3>1. Prefilling(r) /\ computed[r] <= PoolLast(j)
      BY <2>2, <2>4, <1>1 DEF Prefilling
    <3> QED BY <3>1, <2>1, <2>2, <2>4, DecodePromptPools
  <2>5. CASE ~(PoolLast(j) < computed[r]) /\ ~(PoolLast(j) < target[r])
    <3>1. computed[r] <= PoolLast(j)
      BY <2>5, <1>1
    <3> QED BY <3>1, <2>1, <2>2, <2>5, DecodePoolsOwn
  <2> QED BY <2>3, <2>4, <2>5
<1>3. ASSUME NEW c \in 1 .. m, order[c] = r
      PROVE  IF PoolLast(j) < computed[r] THEN pool'[r][j] = pool[r][j]
             ELSE IF PoolLast(j) < target[r] THEN pool'[r][j] = TruePool(r, j)
             ELSE Promise!MayHold(r, j, pool'[r][j])
  <2> DEFINE n == ChunkLen(start, c)
  <2>1. /\ pool'[order[c]] = [i \in PoolId |-> CompressInsert(m, order, start, order[c], i)]
        /\ computed'[order[c]] = computed[order[c]] + n
    BY BatchPrefillEffect
  <2>2. n \in Nat /\ computed[order[c]] + n <= target[order[c]]
    BY ChunkFacts
  <2>3. PoolLast(j) < computed[order[c]] + n
    BY <2>1, <1>3
  <2>4. pool'[r][j] = IF PoolLast(j) < computed[r] THEN pool[r][j] ELSE TruePool(r, j)
    BY <2>1, <2>3, <1>3, PrefillPools
  <2> HIDE DEF n
  <2>5. PoolLast(j) < target[r]
    BY <2>2, <2>3, <1>1, <1>3
  <2> QED BY <2>4, <2>5
<1>4. CASE r \notin D /\ \A c \in 1 .. m : order[c] # r
  BY <1>4, BatchIdleEffect
<1> QED BY <1>2, <1>3, <1>4

(* A batch never takes back a committed token.                             *)
LEMMA BatchCommits ==
  ASSUME IInv, NEW D \in SUBSET Req, NEW rows, NEW m, NEW order, NEW start,
         PrefillBatch(m, order, start), Batch(D, rows, m, order, start),
         NEW r \in Req
  PROVE  computed[r] <= computed'[r]
<1>1. computed[r] \in 0 .. MaxLen
  BY DEF IInv, TypeOK
<1>2. CASE r \in D
  <2> DEFINE n == rows[r][1]
             a == rows[r][2]
  <2>1. /\ DecodeRow(r, n, a)
        /\ pool'[r] = [j \in PoolId |-> DecodeWrite(r, n, a, j)]
        /\ computed'[r] = computed[r] + a
    BY <1>2, BatchDecodeEffect
  <2>2. a \in Nat
    BY <2>1, ShapeAssumption DEF DecodeRow, DecodeThreshold
  <2> HIDE DEF n, a
  <2> QED BY <1>1, <2>1, <2>2, ShapeAssumption
<1>a. ASSUME NEW c \in 1 .. m
      PROVE  computed'[order[c]] = computed[order[c]] + ChunkLen(start, c)
  <2>1. order[c] \in Req /\ Running(order[c])
    BY ChunkFacts
  <2>2. order[c] \in {order[d] : d \in 1 .. m} /\ order[c] \notin D
    BY DEF Batch
  <2>3. (CHOOSE d \in 1 .. m : order[d] = order[c]) = c
    BY DEF PrefillBatch
  <2> QED BY <2>1, <2>2, <2>3 DEF Batch
<1>3. ASSUME NEW c \in 1 .. m, order[c] = r
      PROVE  computed[r] <= computed'[r]
  <2> DEFINE n == ChunkLen(start, c)
  <2>1. computed'[order[c]] = computed[order[c]] + n
    BY <1>a
  <2>2. n \in Nat
    BY ChunkFacts
  <2> HIDE DEF n
  <2> QED BY <1>1, <1>3, <2>1, <2>2, ShapeAssumption
<1>4. CASE r \notin D /\ \A c \in 1 .. m : order[c] # r
  BY <1>1, <1>4, BatchIdleEffect, ShapeAssumption
<1> QED BY <1>2, <1>3, <1>4

(* A pool of exactly the request's own keys is one it may hold.            *)
LEMMA TrueMayBeHeld ==
  ASSUME NEW r \in Req, NEW j \in PoolId
  PROVE  Promise!MayHold(r, j, TruePool(r, j))
BY DEF Promise!MayHold, Promise!OwnPool, TruePool, Key, Offset

LEMMA BatchStep ==
  ASSUME IInv, NEW D \in SUBSET Req, NEW rows, NEW m, NEW order, NEW start,
         PrefillBatch(m, order, start), Batch(D, rows, m, order, start)
  PROVE  IInv'
<1>1. UNCHANGED <<status, target, reusable, tail>>
  BY DEF Batch
<1>2. ASSUME NEW r \in Req
      PROVE  \/ r \in D
             \/ \E c \in 1 .. m : order[c] = r
             \/ r \notin D /\ \A c \in 1 .. m : order[c] # r
  OBVIOUS
<1>3. ASSUME NEW r \in Req
      PROVE  /\ computed'[r] \in 0 .. MaxLen
             /\ pool'[r] \in [PoolId -> [Offset -> KeySet]]
             /\ Prefilling(r)' => computed'[r] % KPool = 0
             /\ \A y \in Pos : Running(r) /\ PoolStart(computed'[r]) <= y /\ y < computed'[r]
                                => ring'[tail[r]][y % KPool] \in RingMayHold(r, y, computed'[r])
             /\ ~Running(r) => pool'[r] = pool[r]
  <2>1. computed[r] \in 0 .. MaxLen /\ target[r] \in 1 .. MaxLen
        /\ pool[r] \in [PoolId -> [Offset -> KeySet]]
    BY DEF IInv, TypeOK
  <2>2. CASE r \in D
    <3> DEFINE n == rows[r][1]
               a == rows[r][2]
    <3>1. /\ DecodeRow(r, n, a)
          /\ pool'[r] = [j \in PoolId |-> DecodeWrite(r, n, a, j)]
          /\ ring'[tail[r]] = StashThrough(r, a, computed[r] + n - 1)
          /\ computed'[r] = computed[r] + a
      BY <2>2, BatchDecodeEffect
    <3> HIDE DEF n, a
    <3>2. /\ n \in Nat /\ a \in Nat /\ a <= n /\ computed[r] + n <= MaxLen /\ Running(r)
          /\ (Prefilling(r) => Chunk(r, n) /\ a = n)
      BY <3>1, ShapeAssumption DEF DecodeRow, DecodeThreshold
    <3>3. computed'[r] \in 0 .. MaxLen
      BY <2>1, <3>1, <3>2, ShapeAssumption
    <3>4. pool'[r] \in [PoolId -> [Offset -> KeySet]]
      BY <3>1, DecodeType
    <3>5. ASSUME Prefilling(r)' PROVE computed'[r] % KPool = 0
      <4>1. computed[r] + a < target[r] /\ Running(r)
        BY <3>5, <3>1, <1>1 DEF Prefilling, Running
      <4>2. Prefilling(r)
        BY <4>1, <2>1, <3>2 DEF Prefilling
      <4>3. n % Align = 0 /\ a = n /\ computed[r] % KPool = 0
        BY <4>1, <4>2, <3>2, <2>1 DEF Chunk, IInv, PrefillAligned
      <4>4. computed[r] \in Nat
        BY <2>1, ShapeAssumption
      <4> QED BY <4>3, <4>4, <3>1, <3>2, BoundaryPlusAligned
    <3>7. ASSUME NEW y \in Pos, PoolStart(computed'[r]) <= y, y < computed'[r]
          PROVE  ring'[tail[r]][y % KPool] \in RingMayHold(r, y, computed'[r])
      <4>1. PoolStart(computed[r] + a) <= y /\ y < computed[r] + a
        BY <3>1, <3>7
      <4>2. StashThrough(r, a, computed[r] + n - 1)[y % KPool] \in RingMayHold(r, y, computed[r] + a)
        BY <3>1, <4>1, DecodeKeepsBoundary
      <4> QED BY <3>1, <4>2
    <3> QED BY <3>2, <3>3, <3>4, <3>5, <3>7
  <2>3. ASSUME NEW c \in 1 .. m, order[c] = r
        PROVE  /\ computed'[r] \in 0 .. MaxLen
               /\ pool'[r] \in [PoolId -> [Offset -> KeySet]]
               /\ Prefilling(r)' => computed'[r] % KPool = 0
               /\ \A y \in Pos : PoolStart(computed'[r]) <= y /\ y < computed'[r]
                                  => ring'[tail[r]][y % KPool] \in RingMayHold(r, y, computed'[r])
               /\ Running(r)
    <3> DEFINE n == ChunkLen(start, c)
    <3>1. /\ pool'[order[c]] = [j \in PoolId |-> CompressInsert(m, order, start, order[c], j)]
          /\ ring'[tail[order[c]]] = SeedTail(m, order, start, tail[order[c]])
          /\ computed'[order[c]] = computed[order[c]] + n
      BY BatchPrefillEffect
    <3>2. /\ Prefilling(order[c]) /\ Running(order[c])
          /\ computed[order[c]] \in Nat /\ computed[order[c]] % KPool = 0
          /\ n \in Nat /\ computed[order[c]] + n <= target[order[c]]
      BY ChunkFacts
    <3>9. Chunk(order[c], n)
      BY DEF PrefillBatch, PrefillRows
    <3>3. computed'[r] \in 0 .. MaxLen
      BY <2>1, <2>3, <3>1, <3>2, ShapeAssumption
    <3>4. pool'[r] \in [PoolId -> [Offset -> KeySet]]
      BY <2>3, <3>1, CompressType
    <3>5. ASSUME Prefilling(r)' PROVE computed'[r] % KPool = 0
      <4>1. computed[r] + n < target[r]
        BY <2>3, <3>5, <3>1, <1>1 DEF Prefilling
      <4>2. n % Align = 0
        BY <4>1, <2>3, <3>2, <3>9, <2>1 DEF Chunk
      <4> QED BY <2>3, <4>2, <3>1, <3>2, BoundaryPlusAligned
    <3>7. ASSUME NEW y \in Pos, PoolStart(computed'[r]) <= y, y < computed'[r]
          PROVE  ring'[tail[r]][y % KPool] \in RingMayHold(r, y, computed'[r])
      <4>1. PoolStart(computed[order[c]] + n) <= y /\ y < computed[order[c]] + n
        BY <2>3, <3>1, <3>7
      <4>2. SeedTail(m, order, start, tail[order[c]])[y % KPool] = Key(order[c], y, TRUE)
        BY <4>1, PrefillSeedsBoundary
      <4> QED BY <2>3, <3>1, <4>2 DEF RingMayHold
    <3> QED BY <2>3, <3>2, <3>3, <3>4, <3>5, <3>7
  <2>4. CASE r \notin D /\ \A c \in 1 .. m : order[c] # r
    <3>1. pool'[r] = pool[r] /\ computed'[r] = computed[r]
          /\ (Running(r) => ring'[tail[r]] = ring[tail[r]])
      BY <2>4, BatchIdleEffect
    <3>2. Prefilling(r)' => Prefilling(r)
      BY <3>1, <1>1 DEF Prefilling, Running
    <3>3. Prefilling(r)' => computed'[r] % KPool = 0
      BY <3>1, <3>2 DEF IInv, PrefillAligned
    <3>5. \A y \in Pos : Running(r) /\ PoolStart(computed'[r]) <= y /\ y < computed'[r]
                         => ring'[tail[r]][y % KPool] \in RingMayHold(r, y, computed'[r])
      BY <3>1 DEF IInv, BoundaryKeysOwn
    <3> QED BY <2>1, <3>1, <3>3, <3>5
  <2> QED BY <1>2, <2>2, <2>3, <2>4
<1>4. TypeOK'
  <2>1. ASSUME NEW b \in Block PROVE ring'[b] \in [Slot -> KeySet]
    <3>1. CASE \E r \in D : tail[r] = b
      <4>1. PICK r \in Req : r \in D /\ tail[r] = b
        BY <3>1
      <4> DEFINE n == rows[r][1]
                 a == rows[r][2]
      <4>5. /\ DecodeRow(r, n, a)
            /\ pool'[r] = [j \in PoolId |-> DecodeWrite(r, n, a, j)]
            /\ ring'[tail[r]] = StashThrough(r, a, computed[r] + n - 1)
            /\ computed'[r] = computed[r] + a
        BY <4>1, BatchDecodeEffect
      <4>2. DecodeRow(r, n, a) /\ ring'[b] = StashThrough(r, a, computed[r] + n - 1)
        BY <4>1, <4>5
      <4>3. /\ rows[r][2] \in Nat /\ Running(r) /\ rows[r][1] \in Nat /\ rows[r][1] >= 1
            /\ computed[r] + rows[r][1] <= MaxLen /\ computed[r] \in Nat
        BY <4>2, ShapeAssumption DEF DecodeRow, DecodeThreshold, IInv, TypeOK
      <4>4. computed[r] + rows[r][1] - 1 \in Pos
        BY <4>3, ShapeAssumption DEF Pos
      <4> QED BY <4>2, <4>3, <4>4, StashType
    <3>2. CASE ~(\E r \in D : tail[r] = b)
      <4>1. SeedTail(m, order, start, b) \in [Slot -> KeySet]
        BY SeedType
      <4>2. ring[b] \in [Slot -> KeySet]
        BY DEF IInv, TypeOK
      <4> QED BY <3>2, <4>1, <4>2 DEF Batch
    <3> QED BY <3>1, <3>2
  <2>2. ring' \in [Block -> [Slot -> KeySet]]
    <3>1. ring' = [b \in Block |-> ring'[b]]
      BY DEF Batch
    <3> QED BY <2>1, <3>1
  <2>3. computed' \in [Req -> 0 .. MaxLen]
    <3>1. computed' = [r \in Req |-> computed'[r]]
      BY DEF Batch
    <3> QED BY <1>3, <3>1
  <2>4. pool' \in [Req -> [PoolId -> [Offset -> KeySet]]]
    <3>1. pool' = [r \in Req |-> pool'[r]]
      BY DEF Batch
    <3> QED BY <1>3, <3>1
  <2> QED BY <1>1, <2>2, <2>3, <2>4 DEF IInv, TypeOK
<1>5. TailOwned'
  BY <1>1 DEF IInv, TailOwned, Running
<1>6. PrefillAligned'
  BY <1>3 DEF PrefillAligned
<1>7. ReusableOwn'
  <2> SUFFICES ASSUME NEW r \in Req, NEW j \in PoolId,
                      status'[r] = "waiting", PoolLast(j) < reusable'[r]
               PROVE  Promise!MayHold(r, j, pool'[r][j])
    BY DEF ReusableOwn, PoolLast, Promise!MayHold, Promise!OwnPool, Promise!Overruns, Promise!PoolEnd
  <2>1. ~Running(r)
    BY <1>1 DEF Running
  <2> QED BY <2>1, <1>1, <1>3 DEF IInv, ReusableOwn
<1>8. CommittedPoolsOwn'
  <2> SUFFICES ASSUME NEW r \in Req, NEW j \in PoolId, Running(r)', PoolLast(j) < computed'[r]
               PROVE  Promise!MayHold(r, j, pool'[r][j])
    BY DEF CommittedPoolsOwn, PoolLast, Promise!MayHold, Promise!OwnPool, Promise!Overruns, Promise!PoolEnd
  <2>1. Running(r)
    BY <1>1 DEF Running
  <2>2. CASE PoolLast(j) < computed[r]
    <3>1. pool'[r][j] = pool[r][j]
      BY <2>2, BatchPools
    <3> QED BY <2>1, <2>2, <3>1 DEF IInv, CommittedPoolsOwn
  <2>3. CASE ~(PoolLast(j) < computed[r])
    BY <2>3, BatchPools, TrueMayBeHeld
  <2> QED BY <2>2, <2>3
<1>9. BoundaryKeysOwn'
  BY <1>1, <1>3 DEF BoundaryKeysOwn, RingMayHold, Running, PoolStart, Key
<1> QED BY <1>4, <1>5, <1>6, <1>7, <1>8, <1>9 DEF IInv

-----------------------------------------------------------------------------
(* The other steps, and the theorems.                                      *)

(* A forward pass is a batch whose prefill rows are well formed.            *)
LEMMA ForwardIsBatch ==
  ASSUME Forward
  PROVE  \E D, rows, m, order, start :
           /\ D \in SUBSET Req
           /\ PrefillBatch(m, order, start) /\ Batch(D, rows, m, order, start)
<1>1. PICK D \in SUBSET {r \in Req : Running(r)} :
       \E rows \in [D -> RowSizes] :
       \E P \in SUBSET ({r \in Req : Prefilling(r)} \ D) :
       \E order \in Orders(P) :
       \E start \in Starts[Cardinality(P)] :
         Batch(D, rows, Cardinality(P), order, start)
  BY DEF Forward
<1>2. PICK rows \in [D -> RowSizes] :
       \E P \in SUBSET ({r \in Req : Prefilling(r)} \ D) :
       \E order \in Orders(P) :
       \E start \in Starts[Cardinality(P)] :
         Batch(D, rows, Cardinality(P), order, start)
  BY <1>1
<1>3. PICK P \in SUBSET ({r \in Req : Prefilling(r)} \ D) :
       \E order \in Orders(P) :
       \E start \in Starts[Cardinality(P)] :
         Batch(D, rows, Cardinality(P), order, start)
  BY <1>2
<1>4. PICK order \in Orders(P), start \in Starts[Cardinality(P)] :
         Batch(D, rows, Cardinality(P), order, start)
  BY <1>3
<1> DEFINE m == Cardinality(P)
<1>5. IsFiniteSet(P) /\ m \in Nat /\ m <= Cardinality(Req) /\ Cardinality(Req) \in Nat
  BY FS_Subset, FS_CardinalityType, ShapeAssumption
<1>6. Starts[m] = {s \in [1 .. m + 1 -> 0 .. MaxBatch] :
                     s[1] = 0 /\ \A c, d \in 1 .. m + 1 : c < d => s[c] < s[d]}
  BY <1>5 DEF Starts
<1>7. PrefillBatch(m, order, start)
  BY <1>4, <1>5, <1>6 DEF PrefillBatch, Orders, Batch
<1>8. D \in SUBSET Req
  OBVIOUS
<1> QED BY <1>4, <1>7, <1>8

LEMMA ForwardStep ==
  ASSUME IInv, Forward
  PROVE  IInv'
<1>1. PICK D, rows, m, order, start :
        D \in SUBSET Req /\ PrefillBatch(m, order, start) /\ Batch(D, rows, m, order, start)
  BY ForwardIsBatch
<1> QED BY <1>1, BatchStep

LEMMA AdmitStep ==
  ASSUME IInv, NEW r \in Req, NEW b \in Block, NEW h \in 0 .. MaxLen, Admit(r, b, h)
  PROVE  IInv'
<1>1. h \in Nat /\ h % Align = 0 /\ h < target[r] /\ h <= reusable[r] /\ reusable[r] \in 0 .. MaxLen
      /\ target[r] \in 1 .. MaxLen /\ status[r] = "waiting"
  BY ShapeAssumption DEF Admit, IInv, TypeOK
<1>2. h % KPool = 0
  BY <1>1, AlignedIsBoundary
<1>3. Unwritten \in [Offset -> KeySet]
  BY DEF Unwritten, KeySet
<1>4. TypeOK'
  BY <1>3 DEF IInv, TypeOK, Admit
<1>5. TailOwned'
  BY ShapeAssumption DEF IInv, TypeOK, TailOwned, Admit, Running
<1>6. PrefillAligned'
  BY <1>2 DEF IInv, TypeOK, PrefillAligned, Prefilling, Running, Admit
<1>7. ReusableOwn'
  <2> SUFFICES ASSUME NEW q \in Req, NEW j \in PoolId,
                      status'[q] = "waiting", PoolLast(j) < reusable'[q]
               PROVE  Promise!MayHold(q, j, pool'[q][j])
    BY DEF ReusableOwn, PoolLast, Promise!MayHold, Promise!OwnPool, Promise!Overruns, Promise!PoolEnd
  <2>1. q # r /\ status[q] = "waiting" /\ reusable'[q] = reusable[q] /\ pool'[q] = pool[q]
    BY DEF IInv, TypeOK, Admit
  <2> QED BY <2>1 DEF IInv, ReusableOwn
<1>8. ASSUME NEW q \in Req, NEW j \in PoolId, Running(q)', PoolLast(j) < computed'[q]
      PROVE  Promise!MayHold(q, j, pool'[q][j])
  <2>1. CASE q = r
    <3>1. computed'[q] = h /\ pool'[q][j] = pool[r][j]
      BY <1>8, <2>1 DEF IInv, TypeOK, Admit
    <3>2. PoolLast(j) \in Nat
      BY PoolPositions, ShapeAssumption, 0 \in 0 .. KPool - 1 DEF Pos, Offset
    <3>3. PoolLast(j) < reusable[r]
      BY <1>1, <1>8, <3>1, <3>2, ShapeAssumption
    <3> QED BY <1>1, <2>1, <3>1, <3>3 DEF IInv, ReusableOwn
  <2>2. CASE q # r
    <3>1. Running(q) /\ computed'[q] = computed[q] /\ pool'[q] = pool[q]
      BY <1>8, <2>2 DEF IInv, TypeOK, Admit, Running
    <3> QED BY <3>1, <1>8 DEF IInv, CommittedPoolsOwn
  <2> QED BY <2>1, <2>2
<1>9. ASSUME NEW q \in Req, NEW y \in Pos, Running(q)',
             PoolStart(computed'[q]) <= y, y < computed'[q]
      PROVE  ring'[tail'[q]][y % KPool] \in RingMayHold(q, y, computed'[q])
  <2>1. CASE q = r
    <3>1. computed'[q] = h
      BY <2>1 DEF IInv, TypeOK, Admit
    <3>2. PoolStart(h) = h
      BY <1>1, <1>2 DEF PoolStart
    <3> QED BY <1>9, <1>1, <3>1, <3>2, ShapeAssumption DEF Pos
  <2>2. CASE q # r
    <3>1. Running(q) /\ computed'[q] = computed[q] /\ tail'[q] = tail[q] /\ ring' = ring
      BY <1>9, <2>2 DEF IInv, TypeOK, Admit, Running
    <3>2. ring[tail[q]][y % KPool] \in RingMayHold(q, y, computed[q])
      BY <3>1, <1>9 DEF IInv, BoundaryKeysOwn
    <3> QED BY <3>1, <3>2
  <2> QED BY <2>1, <2>2
<1>10. CommittedPoolsOwn'
  BY <1>8 DEF CommittedPoolsOwn, PoolLast, Promise!MayHold, Promise!OwnPool, Promise!Overruns, Promise!PoolEnd
<1>11. BoundaryKeysOwn'
  BY <1>9 DEF BoundaryKeysOwn, RingMayHold, Key, PoolStart
<1> QED BY <1>4, <1>5, <1>6, <1>7, <1>10, <1>11 DEF IInv

LEMMA PreemptStep ==
  ASSUME IInv, NEW r \in Req, Preempt(r)
  PROVE  IInv'
<1>1. computed[r] \in 0 .. MaxLen - 1 /\ 0 \in 0 .. MaxLen /\ computed[r] + 1 \in 1 .. MaxLen
      /\ computed[r] \in 0 .. MaxLen /\ Running(r)
  BY ShapeAssumption DEF Preempt, IInv, TypeOK
<1>2. TypeOK'
  BY <1>1 DEF IInv, TypeOK, Preempt
<1>3. TailOwned'
  BY DEF IInv, TypeOK, TailOwned, Preempt, Running
<1>4. PrefillAligned'
  BY DEF IInv, TypeOK, PrefillAligned, Prefilling, Running, Preempt
<1>5. ReusableOwn'
  <2> SUFFICES ASSUME NEW q \in Req, NEW j \in PoolId,
                      status'[q] = "waiting", PoolLast(j) < reusable'[q]
               PROVE  Promise!MayHold(q, j, pool'[q][j])
    BY DEF ReusableOwn, PoolLast, Promise!MayHold, Promise!OwnPool, Promise!Overruns, Promise!PoolEnd
  <2>1. pool' = pool
    BY DEF Preempt
  <2>2. CASE q = r
    <3>1. PoolLast(j) < computed[r]
      BY <2>2 DEF Preempt, IInv, TypeOK
    <3> QED BY <3>1, <2>1, <2>2, <1>1 DEF IInv, CommittedPoolsOwn
  <2>3. CASE q # r
    <3>1. status[q] = "waiting" /\ reusable'[q] = reusable[q]
      BY <2>3 DEF Preempt, IInv, TypeOK
    <3> QED BY <3>1, <2>1 DEF IInv, ReusableOwn
  <2> QED BY <2>2, <2>3
<1>6. CommittedPoolsOwn'
  <2> SUFFICES ASSUME NEW q \in Req, NEW j \in PoolId, Running(q)', PoolLast(j) < computed'[q]
               PROVE  Promise!MayHold(q, j, pool'[q][j])
    BY DEF CommittedPoolsOwn, PoolLast, Promise!MayHold, Promise!OwnPool, Promise!Overruns, Promise!PoolEnd
  <2>1. Running(q) /\ computed'[q] = computed[q] /\ pool'[q] = pool[q]
    BY DEF Preempt, Running, IInv, TypeOK
  <2> QED BY <2>1 DEF IInv, CommittedPoolsOwn
<1>7. BoundaryKeysOwn'
  <2> SUFFICES ASSUME NEW q \in Req, NEW y \in Pos, Running(q)',
                      PoolStart(computed'[q]) <= y, y < computed'[q]
               PROVE  ring'[tail'[q]][y % KPool] \in RingMayHold(q, y, computed'[q])
    BY DEF BoundaryKeysOwn, RingMayHold, Key, PoolStart
  <2>1. Running(q) /\ computed'[q] = computed[q] /\ tail'[q] = tail[q] /\ ring' = ring
    BY DEF Preempt, Running, IInv, TypeOK
  <2>2. ring[tail[q]][y % KPool] \in RingMayHold(q, y, computed[q])
    BY <2>1 DEF IInv, BoundaryKeysOwn
  <2> QED BY <2>1, <2>2
<1> QED BY <1>2, <1>3, <1>4, <1>5, <1>6, <1>7 DEF IInv

LEMMA FinishStep ==
  ASSUME IInv, NEW r \in Req, Finish(r)
  PROVE  IInv'
<1>1. TypeOK'
  BY ShapeAssumption, NoKey \in KeySet DEF IInv, TypeOK, Finish, Unwritten, KeySet
<1>2. TailOwned'
  BY DEF IInv, TypeOK, TailOwned, Finish, Running
<1>3. PrefillAligned'
  BY DEF IInv, TypeOK, PrefillAligned, Prefilling, Running, Finish
<1>4. ReusableOwn'
  <2> SUFFICES ASSUME NEW q \in Req, NEW j \in PoolId,
                      status'[q] = "waiting", PoolLast(j) < reusable'[q]
               PROVE  Promise!MayHold(q, j, pool'[q][j])
    BY DEF ReusableOwn, PoolLast, Promise!MayHold, Promise!OwnPool, Promise!Overruns, Promise!PoolEnd
  <2>1. q # r /\ status[q] = "waiting" /\ reusable'[q] = reusable[q] /\ pool'[q] = pool[q]
    BY DEF IInv, TypeOK, Finish
  <2> QED BY <2>1 DEF IInv, ReusableOwn
<1>5. CommittedPoolsOwn'
  <2> SUFFICES ASSUME NEW q \in Req, NEW j \in PoolId, Running(q)', PoolLast(j) < computed'[q]
               PROVE  Promise!MayHold(q, j, pool'[q][j])
    BY DEF CommittedPoolsOwn, PoolLast, Promise!MayHold, Promise!OwnPool, Promise!Overruns, Promise!PoolEnd
  <2>1. Running(q) /\ computed'[q] = computed[q] /\ pool'[q] = pool[q]
    BY DEF Finish, Running, IInv, TypeOK
  <2> QED BY <2>1 DEF IInv, CommittedPoolsOwn
<1>6. BoundaryKeysOwn'
  <2> SUFFICES ASSUME NEW q \in Req, NEW y \in Pos, Running(q)',
                      PoolStart(computed'[q]) <= y, y < computed'[q]
               PROVE  ring'[tail'[q]][y % KPool] \in RingMayHold(q, y, computed'[q])
    BY DEF BoundaryKeysOwn, RingMayHold, Key, PoolStart
  <2>1. Running(q) /\ computed'[q] = computed[q] /\ tail'[q] = tail[q] /\ ring' = ring
    BY DEF Finish, Running, IInv, TypeOK
  <2>2. ring[tail[q]][y % KPool] \in RingMayHold(q, y, computed[q])
    BY <2>1 DEF IInv, BoundaryKeysOwn
  <2> QED BY <2>1, <2>2
<1> QED BY <1>1, <1>2, <1>3, <1>4, <1>5, <1>6 DEF IInv

LEMMA InitIInv == Init => IInv
<1> SUFFICES ASSUME Init PROVE IInv
  OBVIOUS
<1>1. NoKey \in KeySet /\ Unwritten \in [Offset -> KeySet] /\ 0 \in 0 .. MaxLen
  BY ShapeAssumption DEF Unwritten, KeySet
<1>2. TypeOK
  BY <1>1 DEF Init, TypeOK
<1>3. \A r \in Req : status[r] = "waiting" /\ ~Running(r) /\ ~Prefilling(r) /\ reusable[r] = 0
  BY DEF Init, Running, Prefilling
<1>4. ReusableOwn
  <2> SUFFICES ASSUME NEW j \in PoolId PROVE ~(PoolLast(j) < 0)
    BY <1>3 DEF ReusableOwn
  <2>1. 0 \in Offset
    BY ShapeAssumption DEF Offset
  <2> QED BY <2>1, PoolPositions, ShapeAssumption DEF Pos
<1> QED BY <1>2, <1>3, <1>4 DEF IInv, Init, TailOwned, PrefillAligned,
                               CommittedPoolsOwn, BoundaryKeysOwn

LEMMA NextIInv ==
  ASSUME IInv, [Next]_vars
  PROVE  IInv'
<1>1. CASE UNCHANGED vars
  <2>1. UNCHANGED <<status, target, computed, reusable, tail, ring, pool>>
    BY <1>1 DEF vars
  <2>2. (TypeOK /\ TailOwned /\ PrefillAligned)'
    BY <2>1 DEF IInv, TypeOK, TailOwned, PrefillAligned, Running, Prefilling
  <2>3. (ReusableOwn /\ CommittedPoolsOwn)'
    BY <2>1 DEF IInv, ReusableOwn, CommittedPoolsOwn, Running, PoolLast,
                Promise!MayHold, Promise!OwnPool, Promise!Overruns, Promise!PoolEnd
  <2>4. BoundaryKeysOwn'
    BY <2>1 DEF IInv, BoundaryKeysOwn, RingMayHold, Key, Running, PoolStart
  <2> QED BY <2>2, <2>3, <2>4 DEF IInv
<1>2. CASE Next
  <2>1. CASE \E r \in Req, b \in Block, h \in 0 .. MaxLen : Admit(r, b, h)
    BY <2>1, AdmitStep
  <2>2. CASE Forward
    BY <2>2, ForwardStep
  <2>3. CASE \E r \in Req : Preempt(r)
    BY <2>3, PreemptStep
  <2>4. CASE \E r \in Req : Finish(r)
    BY <2>4, FinishStep
  <2> QED BY <1>2, <2>1, <2>2, <2>3, <2>4 DEF Next
<1> QED BY <1>1, <1>2

(* The strengthened invariant holds of every execution.                    *)
THEOREM InductiveInvariant == Spec => []IInv
<1>1. Init => IInv
  BY InitIInv
<1>2. IInv /\ [Next]_vars => IInv'
  BY NextIInv
<1> QED BY <1>1, <1>2, PTL DEF Spec

(* Every complete pool of a committed prefix holds keys of its own request *)
(* only: each its pool's own, or a rejected draft whole turns of the ring  *)
(* ahead and less than NumSpec past the pool's end.                        *)
THEOREM CommittedPoolsAreOwn == Spec => []CommittedPoolsOwn
<1>1. IInv => CommittedPoolsOwn
  BY DEF IInv
<1> QED BY <1>1, InductiveInvariant, PTL

(* The slots of the unfinished pool, where the decode kernel reads, hold   *)
(* the committed keys or such drafts.                                      *)
THEOREM BoundaryKeysAreOwn == Spec => []BoundaryKeysOwn
<1>1. IInv => BoundaryKeysOwn
  BY DEF IInv
<1> QED BY <1>1, InductiveInvariant, PTL

(* With at most one draft the decode side compresses the boundary pool     *)
(* correctly: no batch reaches a draft that far ahead, so every complete   *)
(* pool holds exactly its own committed keys.                              *)
THEOREM OneDraftIsFaithful ==
  ASSUME NumSpec <= 1
  PROVE  Spec => []CommittedPoolsFaithful
<1>1. ASSUME NEW r \in Req, NEW j \in PoolId, NEW f, Promise!MayHold(r, j, f)
      PROVE  f = TruePool(r, j)
  <2>1. ASSUME NEW o \in 0 .. KPool - 1 PROVE Promise!Overruns(r, j, o) = {}
    <3>1. Promise!PoolEnd(j) \in Nat
      BY ShapeAssumption DEF Promise!PoolEnd, PoolId
    <3>2. Promise!PoolEnd(j) + 1 .. Promise!PoolEnd(j) + NumSpec - 1 = {}
      BY <3>1, ShapeAssumption
    <3> QED BY <3>2 DEF Promise!Overruns
  <2>2. \A o \in 0 .. KPool - 1 : f[o] = Key(r, j * KPool + o, TRUE)
    BY <1>1, <2>1 DEF Promise!MayHold, Promise!OwnPool, Key
  <2> QED BY <1>1, <2>2 DEF Promise!MayHold, TruePool, Offset
<1>2. IInv => CommittedPoolsFaithful
  BY <1>1 DEF IInv, CommittedPoolsOwn, CommittedPoolsFaithful
<1> QED BY <1>2, InductiveInvariant, PTL

(* The state keeps its types.                                              *)
THEOREM TypeCorrect == Spec => []TypeOK
<1>1. IInv => TypeOK
  BY DEF IInv
<1> QED BY <1>1, InductiveInvariant, PTL
-----------------------------------------------------------------------------
(***************************************************************************)
(* The write side implements the append-only index of KpoolSpec.  A batch  *)
(* has been shown to leave complete entries alone and to add entries that  *)
(* the index allows (BatchPools); the other steps only change how much of  *)
(* a request's index is held.                                              *)
(***************************************************************************)

LEMMA HeldIsComplete ==
  ASSUME NEW r \in Req
  PROVE  HeldPools(r) = Promise!Complete(HeldLen(r))
BY DEF HeldPools, Promise!Complete, Promise!PoolEnd, PoolId, PoolLast

LEMMA HeldIsCompleteAfter ==
  ASSUME NEW r \in Req
  PROVE  HeldPools(r)' = Promise!Complete(HeldLen(r)')
BY DEF HeldPools, Promise!Complete, Promise!PoolEnd, PoolId, PoolLast

LEMMA InitImplements == Init => Promise!Init
<1> SUFFICES ASSUME Init PROVE Promise!Init
  OBVIOUS
<1>1. \A r \in Req : HeldLen(r) = 0
  BY DEF Init, HeldLen
<1>2. Promise!Complete(0) = {}
  <2> SUFFICES ASSUME NEW j \in 0 .. (MaxLen \div KPool) - 1 PROVE ~(Promise!PoolEnd(j) < 0)
    BY DEF Promise!Complete
  <2>1. j \in Nat
    OBVIOUS
  <2> QED BY <2>1, ShapeAssumption DEF Promise!PoolEnd
<1>3. \A r \in Req : [j \in HeldPools(r) |-> pool[r][j]] = [j \in Promise!Complete(0) |-> Promise!OwnPool(r, j)]
  BY <1>1, <1>2, HeldIsComplete
<1> QED BY <1>1, <1>3 DEF Init, Promise!Init

(* A batch extends the indexes of its requests.                            *)
LEMMA BatchImplements ==
  ASSUME IInv, IInv', NEW D \in SUBSET Req, NEW rows, NEW m, NEW order, NEW start,
         PrefillBatch(m, order, start), Batch(D, rows, m, order, start)
  PROVE  Promise!Extend
<1>1. UNCHANGED <<status, target, reusable>>
  BY DEF Batch
<1>2. ASSUME NEW r \in Req
      PROVE  /\ computed[r] \in 0 .. MaxLen /\ computed'[r] \in 0 .. MaxLen
             /\ reusable[r] \in 0 .. MaxLen /\ computed[r] <= computed'[r]
             /\ status[r] \in {"waiting", "running", "finished"}
             /\ ~Running(r) => pool'[r] = pool[r]
  <2>1. ~Running(r) => r \notin D /\ \A c \in 1 .. m : order[c] # r
    BY ChunkFacts DEF Batch, DecodeRow
  <2>2. ~Running(r) => pool'[r] = pool[r]
    BY <2>1, BatchIdleEffect
  <2>3. computed[r] <= computed'[r]
    BY BatchCommits
  <2> QED BY <2>2, <2>3 DEF IInv, TypeOK
<1>3. ASSUME NEW r \in Req
      PROVE  /\ HeldLen(r)' \in HeldLen(r) .. MaxLen
             /\ status[r] # "running" => HeldLen(r)' = HeldLen(r)
  <2>1. CASE status[r] = "running"
    <3>1. HeldLen(r) = computed[r] /\ HeldLen(r)' = computed'[r]
      BY <2>1, <1>1 DEF HeldLen
    <3> QED BY <3>1, <2>1, <1>2, ShapeAssumption
  <2>2. CASE status[r] = "waiting"
    <3>1. HeldLen(r) = reusable[r] /\ HeldLen(r)' = reusable[r]
      BY <2>2, <1>1 DEF HeldLen
    <3> QED BY <3>1, <2>2, <1>2, ShapeAssumption
  <2>3. CASE status[r] = "finished"
    <3>1. HeldLen(r) = 0 /\ HeldLen(r)' = 0
      BY <2>3, <1>1 DEF HeldLen
    <3> QED BY <3>1, <2>3, <1>2, ShapeAssumption
  <2> QED BY <2>1, <2>2, <2>3, <1>2
<1>4. ASSUME NEW r \in Req
      PROVE  Promise!Extended(r, HeldLen(r)', [j \in HeldPools(r) |-> pool[r][j]]')
  <2> DEFINE f == [j \in HeldPools(r)' |-> pool'[r][j]]
  <2>1. HeldPools(r)' = Promise!Complete(HeldLen(r)')
    BY HeldIsCompleteAfter
  <2>2. f = Promise!Restrict(f, Promise!Complete(HeldLen(r)'))
    BY <2>1 DEF Promise!Restrict
  <2>3. ASSUME NEW j \in Promise!Complete(HeldLen(r)')
        PROVE  IF j \in Promise!Complete(HeldLen(r)) THEN f[j] = [i \in HeldPools(r) |-> pool[r][i]][j]
               ELSE IF Promise!PoolEnd(j) < target[r] THEN f[j] = Promise!OwnPool(r, j)
               ELSE Promise!MayHold(r, j, f[j])
    <3>1. /\ j \in PoolId /\ Promise!PoolEnd(j) = PoolLast(j) /\ PoolLast(j) < HeldLen(r)'
          /\ f[j] = pool'[r][j]
      BY <2>1 DEF Promise!Complete, Promise!PoolEnd, PoolId, PoolLast
    <3>2. j \in Promise!Complete(HeldLen(r)) <=> PoolLast(j) < HeldLen(r)
      BY <3>1 DEF Promise!Complete, PoolId
    <3>3. HeldPools(r) = Promise!Complete(HeldLen(r))
      BY HeldIsComplete
    <3>4. Promise!OwnPool(r, j) = TruePool(r, j)
      BY DEF Promise!OwnPool, TruePool, Key, Offset
    <3> HIDE DEF f
    <3>5. CASE Running(r)
      <4>1. HeldLen(r) = computed[r] /\ HeldLen(r)' = computed'[r]
        BY <3>5, <1>1 DEF HeldLen, Running
      <4>2. IF PoolLast(j) < computed[r] THEN pool'[r][j] = pool[r][j]
            ELSE IF PoolLast(j) < target[r] THEN pool'[r][j] = TruePool(r, j)
            ELSE Promise!MayHold(r, j, pool'[r][j])
        BY <4>1, <3>1, BatchPools
      <4>3. CASE PoolLast(j) < computed[r]
        BY <4>1, <4>2, <4>3, <3>1, <3>2, <3>3
      <4>4. CASE ~(PoolLast(j) < computed[r])
        BY <4>1, <4>2, <4>4, <3>1, <3>2, <3>4
      <4> QED BY <4>3, <4>4
    <3>6. CASE ~Running(r)
      <4>1. HeldLen(r)' = HeldLen(r) /\ pool'[r] = pool[r]
        BY <3>6, <1>2, <1>3 DEF Running
      <4> QED BY <4>1, <3>1, <3>2, <3>3
    <3> QED BY <3>5, <3>6
  <2> QED BY <2>2, <2>3 DEF Promise!Extended
<1> QED BY <1>1, <1>3, <1>4 DEF Promise!Extend

LEMMA ForwardImplements ==
  ASSUME IInv, IInv', Forward
  PROVE  Promise!Extend
<1>1. PICK D, rows, m, order, start :
        D \in SUBSET Req /\ PrefillBatch(m, order, start) /\ Batch(D, rows, m, order, start)
  BY ForwardIsBatch
<1> QED BY <1>1, BatchImplements

(* A request starts on a prefix that it kept.                              *)
LEMMA AdmitImplements ==
  ASSUME IInv, IInv', NEW r \in Req, NEW b \in Block, NEW h \in 0 .. MaxLen, Admit(r, b, h)
  PROVE  Promise!Start(r)
<1>1. /\ h \in 0 .. reusable[r] /\ status[r] = "waiting"
      /\ status' = [status EXCEPT ![r] = "running"] /\ reusable' = reusable
      /\ computed' = [computed EXCEPT ![r] = h] /\ target' = target
      /\ reusable[r] \in 0 .. MaxLen
      /\ \A q \in Req \ {r} : pool'[q] = pool[q]
      /\ \A j \in PoolId : PoolLast(j) < h => pool'[r][j] = pool[r][j]
  BY DEF Admit, IInv, TypeOK
<1>2. /\ HeldLen(r) = reusable[r] /\ HeldLen(r)' = h
      /\ \A q \in Req \ {r} : HeldLen(q)' = HeldLen(q) /\ HeldPools(q)' = HeldPools(q)
  BY <1>1 DEF HeldLen, HeldPools, PoolLast, IInv, TypeOK
<1>3. [j \in HeldPools(r) |-> pool[r][j]]'
        = Promise!Restrict([j \in HeldPools(r) |-> pool[r][j]], Promise!Complete(h))
  <2>1. HeldPools(r)' = Promise!Complete(h) /\ HeldPools(r) = Promise!Complete(reusable[r])
    BY <1>2, HeldIsComplete, HeldIsCompleteAfter
  <2>2. ASSUME NEW j \in Promise!Complete(h)
        PROVE  j \in Promise!Complete(reusable[r]) /\ pool'[r][j] = pool[r][j]
    <3>1. j \in PoolId /\ PoolLast(j) < h /\ Promise!PoolEnd(j) = PoolLast(j)
      BY DEF Promise!Complete, Promise!PoolEnd, PoolId, PoolLast
    <3>2. PoolLast(j) \in Nat
      BY <3>1, PoolPositions, ShapeAssumption, 0 \in 0 .. KPool - 1 DEF Pos, Offset
    <3>3. PoolLast(j) < reusable[r]
      BY <3>1, <3>2, <1>1, ShapeAssumption
    <3> QED BY <3>1, <3>3, <1>1 DEF Promise!Complete, PoolId
  <2> QED BY <2>1, <2>2 DEF Promise!Restrict
<1>4. ASSUME NEW q \in Req \ {r}
      PROVE  [j \in HeldPools(q) |-> pool[q][j]]' = [j \in HeldPools(q) |-> pool[q][j]]
  BY <1>1, <1>2
<1>5. [q \in Req |-> HeldLen(q)]' = [[q \in Req |-> HeldLen(q)] EXCEPT ![r] = h]
  BY <1>2
<1>6. [q \in Req |-> [j \in HeldPools(q) |-> pool[q][j]]]' =
        [[q \in Req |-> [j \in HeldPools(q) |-> pool[q][j]]]
           EXCEPT ![r] = Promise!Restrict([j \in HeldPools(r) |-> pool[r][j]], Promise!Complete(h))]
  BY <1>3, <1>4
<1> QED BY <1>1, <1>2, <1>5, <1>6 DEF Promise!Start

(* A preempted request keeps its index, one that ends loses it.            *)
LEMMA PreemptImplements ==
  ASSUME IInv, IInv', NEW r \in Req, Preempt(r)
  PROVE  Promise!Preempted(r)
<1>1. /\ status[r] = "running" /\ pool' = pool
      /\ status' = [status EXCEPT ![r] = "waiting"]
      /\ reusable' = [reusable EXCEPT ![r] = computed[r]]
      /\ \A q \in Req \ {r} : computed'[q] = computed[q]
  BY DEF Preempt, Running, IInv, TypeOK
<1>2. ASSUME NEW q \in Req
      PROVE  HeldLen(q)' = HeldLen(q) /\ HeldPools(q)' = HeldPools(q)
  <2>1. HeldLen(q)' = HeldLen(q)
    <3>1. CASE q = r
      BY <1>1, <3>1 DEF HeldLen, IInv, TypeOK
    <3>2. CASE q # r
      BY <1>1, <3>2 DEF HeldLen, IInv, TypeOK
    <3> QED BY <3>1, <3>2
  <2> QED BY <2>1 DEF HeldPools, PoolLast
<1>3. HeldLen(r) = computed[r]
  BY <1>1 DEF HeldLen
<1>4. \E n \in {target[r], HeldLen(r) + 1} : target' = [target EXCEPT ![r] = n]
  <2>1. target' = [target EXCEPT ![r] = IF Prefilling(r) THEN target[r] ELSE computed[r] + 1]
    BY DEF Preempt, IInv, TypeOK
  <2> QED BY <2>1, <1>3
<1> QED BY <1>1, <1>2, <1>4 DEF Promise!Preempted

LEMMA FinishImplements ==
  ASSUME IInv, IInv', NEW r \in Req, Finish(r)
  PROVE  Promise!Ended(r)
<1>1. /\ status[r] = "running" /\ UNCHANGED <<target, reusable>>
      /\ status' = [status EXCEPT ![r] = "finished"]
      /\ \A q \in Req \ {r} : computed'[q] = computed[q] /\ pool'[q] = pool[q]
  BY DEF Finish, Decoding, Running, IInv, TypeOK
<1>2. /\ HeldLen(r)' = 0
      /\ \A q \in Req \ {r} : HeldLen(q)' = HeldLen(q) /\ HeldPools(q)' = HeldPools(q)
  BY <1>1 DEF HeldLen, HeldPools, PoolLast, IInv, TypeOK
<1>3. Promise!Complete(0) = {}
  <2> SUFFICES ASSUME NEW j \in 0 .. (MaxLen \div KPool) - 1 PROVE ~(Promise!PoolEnd(j) < 0)
    BY DEF Promise!Complete
  <2>1. j \in Nat
    OBVIOUS
  <2> QED BY <2>1, ShapeAssumption DEF Promise!PoolEnd
<1>4. [j \in HeldPools(r) |-> pool[r][j]]'
        = Promise!Restrict([j \in HeldPools(r) |-> pool[r][j]], Promise!Complete(0))
  BY <1>2, <1>3, HeldIsCompleteAfter DEF Promise!Restrict
<1>5. [q \in Req |-> HeldLen(q)]' = [[q \in Req |-> HeldLen(q)] EXCEPT ![r] = 0]
  BY <1>2
<1>8. ASSUME NEW q \in Req \ {r}
      PROVE  [j \in HeldPools(q) |-> pool[q][j]]' = [j \in HeldPools(q) |-> pool[q][j]]
  BY <1>1, <1>2
<1>6. [q \in Req |-> [j \in HeldPools(q) |-> pool[q][j]]]' =
        [[q \in Req |-> [j \in HeldPools(q) |-> pool[q][j]]]
           EXCEPT ![r] = Promise!Restrict([j \in HeldPools(r) |-> pool[r][j]], Promise!Complete(0))]
  BY <1>4, <1>8
<1>7. target' = target
  BY <1>1
<1> QED BY <1>1, <1>3, <1>5, <1>6, <1>7 DEF Promise!Ended

LEMMA NextImplements ==
  ASSUME IInv, IInv', [Next]_vars
  PROVE  [Promise!Next]_Promise!vars
<1>1. CASE UNCHANGED vars
  BY <1>1 DEF vars, Promise!vars, HeldLen, HeldPools, PoolLast
<1>2. CASE Next
  <2>1. CASE \E r \in Req, b \in Block, h \in 0 .. MaxLen : Admit(r, b, h)
    BY <2>1, AdmitImplements DEF Promise!Next
  <2>2. CASE Forward
    BY <2>2, ForwardImplements DEF Promise!Next
  <2>3. CASE \E r \in Req : Preempt(r)
    BY <2>3, PreemptImplements DEF Promise!Next
  <2>4. CASE \E r \in Req : Finish(r)
    BY <2>4, FinishImplements DEF Promise!Next
  <2> QED BY <1>2, <2>1, <2>2, <2>3, <2>4 DEF Next
<1> QED BY <1>1, <1>2

(* The cache writes of prefill and decode batches, for any shape, any      *)
(* number of drafts, requests and blocks, are seen as the append-only      *)
(* index of KpoolSpec: complete entries never change, a preempted request  *)
(* finds them again, and new ones hold what that index allows.             *)
THEOREM WriteSideImplementsIndex == Spec => ImplementsIndex
<1>1. Spec => []IInv
  BY InductiveInvariant
<1>2. Init => Promise!Init
  BY InitImplements
<1>3. IInv /\ IInv' /\ [Next]_vars => [Promise!Next]_Promise!vars
  BY NextImplements
<1> QED BY <1>1, <1>2, <1>3, PTL DEF Spec, ImplementsIndex, Promise!Spec
=============================================================================
