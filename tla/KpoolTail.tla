------------------------------ MODULE KpoolTail ------------------------------
(***************************************************************************)
(* The write side of the kpool sparse-attention indexer                    *)
(* (patches/sparse_attn_indexer_kpool.py).  KPool consecutive tokens of a  *)
(* request are compressed into one entry of the index-K cache.  A prefill  *)
(* batch pools its tokens directly; a decode step sees a pool's tokens one *)
(* verify batch at a time, so the raw keys of the unfinished pool wait in  *)
(* a per-request ring (the "tail cache", one block per request), which     *)
(* prefill seeds with the trailing tokens of the prompt.                   *)
(*                                                                         *)
(* A verify batch holds the last sampled token and up to NumSpec drafts.   *)
(* All of them are stashed; only a prefix survives rejection sampling, and *)
(* the next batch starts right after that prefix.                          *)
(*                                                                         *)
(* A key is abstracted to the token it was computed from, a compressed     *)
(* entry to the tuple of keys it was computed from.                        *)
(***************************************************************************)
EXTENDS Integers, FiniteSets

CONSTANTS
  Req,        (* requests; each is served once (it may be preempted)       *)
  Block,      (* blocks of the tail cache, one per running request         *)
  NoBlock,    (* the tail of a request that is not running                 *)
  KPool,      (* index_kpool                                               *)
  NumSpec,    (* num_speculative_tokens                                    *)
  Align,      (* granularity of prefill chunks and of prefix-cache hits    *)
  MaxLen,     (* max_model_len                                             *)
  MaxBatch    (* prefill tokens one batch may hold                         *)

ASSUME ShapeAssumption ==
  /\ KPool \in Nat \ {0} /\ NumSpec \in Nat
  /\ Align \in Nat \ {0} /\ Align % KPool = 0
  /\ MaxLen \in Nat \ {0} /\ MaxBatch \in Nat
  /\ IsFiniteSet(Req) /\ NoBlock \notin Block

VARIABLES
  status,     (* waiting, running or finished                              *)
  target,     (* tokens to prefill before the request decodes              *)
  computed,   (* committed tokens whose keys have been computed            *)
  reusable,   (* tokens computed before a preemption, maybe still cached   *)
  tail,       (* the request's tail block, NoBlock unless running          *)
  ring,       (* tail cache: block, offset -> key                          *)
  pool        (* index-K cache: request, pool number -> keys compressed    *)

vars == <<status, target, computed, reusable, tail, ring, pool>>

Pos     == 0 .. MaxLen - 1
Slot    == 0 .. KPool - 1               \* a tail block holds KPool keys
Offset  == 0 .. KPool - 1
PoolId  == 0 .. (MaxLen \div KPool) - 1

(* The key of request r's token at position y; ok tells a committed token  *)
(* from a draft that rejection sampling dropped.                           *)
Key(r, y, ok) == <<r, y, ok>>
NoKey         == <<>>
KeySet        == {Key(r, y, ok) : r \in Req, y \in Pos, ok \in BOOLEAN} \cup {NoKey}

Unwritten     == [o \in Offset |-> NoKey]
PoolLast(j)   == j * KPool + (KPool - 1)
PoolStart(n)  == n - (n % KPool)        \* first position of the pool n is in

(* What pool j of request r must be compressed from.                       *)
TruePool(r, j) == [o \in Offset |-> Key(r, j * KPool + o, TRUE)]

Running(r)    == status[r] = "running"
Prefilling(r) == Running(r) /\ computed[r] < target[r]
Decoding(r)   == Running(r) /\ computed[r] >= target[r]

-----------------------------------------------------------------------------
(* Prefill rows.  The flat prefill batch is the concatenation of the       *)
(* chunks of the requests order[1], order[2], ...; chunk c takes the flat  *)
(* indices start[c] .. start[c+1] - 1.                                     *)

Starts == [m \in 0 .. Cardinality(Req) |->
            {s \in [1 .. m + 1 -> 0 .. MaxBatch] :
               s[1] = 0 /\ \A c, d \in 1 .. m + 1 : c < d => s[c] < s[d]}]

ChunkLen(start, c) == start[c + 1] - start[c]
FlatLen(m, start)  == start[m + 1]
ChunkOf(m, start, i) ==
  CHOOSE c \in 1 .. m : start[c] <= i /\ i < start[c + 1]
FlatReq(m, order, start, i) == order[ChunkOf(m, start, i)]
FlatPos(m, order, start, i) ==
  computed[FlatReq(m, order, start, i)] + (i - start[ChunkOf(m, start, i)])
FlatKey(m, order, start, i) ==
  Key(FlatReq(m, order, start, i), FlatPos(m, order, start, i), TRUE)

(* A chunk of n tokens the scheduler may cut from r's remaining prompt: a  *)
(* multiple of Align, or all of the rest.                                  *)
Chunk(r, n) ==
  /\ n \in 1 .. target[r] - computed[r]
  /\ n = target[r] - computed[r] \/ n % Align = 0

(* Chunks of at most 1 + NumSpec tokens are batched with the decodes.      *)
DecodeThreshold == 1 + NumSpec

PrefillRows(m, order, start) ==
  \A c \in 1 .. m :
    /\ Prefilling(order[c])
    /\ Chunk(order[c], ChunkLen(start, c))
    /\ ChunkLen(start, c) > DecodeThreshold

(* _kpool_compress_insert: the flat indices whose slot is valid (the last  *)
(* token of a pool) and that have a whole pool of the batch before them.   *)
CompletesAt(m, order, start, r, j) ==
  {i \in 0 .. FlatLen(m, start) - 1 :
     /\ FlatReq(m, order, start, i) = r
     /\ FlatPos(m, order, start, i) = PoolLast(j)
     /\ i >= KPool - 1}

CompressInsert(m, order, start, r, j) ==
  LET done == CompletesAt(m, order, start, r, j)
  IN  IF FlatLen(m, start) < KPool \/ done = {}
      THEN pool[r][j]
      ELSE LET i == CHOOSE i \in done : TRUE
           IN  [o \in Offset |-> FlatKey(m, order, start, i - (KPool - 1) + o)]

(* mutant: only the end of the whole batch counts as a tail, as if the      *)
(* batch held a single request                                             *)
InTailOfBatchOnly(m, order, start, i) == i + KPool >= FlatLen(m, start)

(* kpool_seed_tail_cache: token i is in its request's tail iff the token   *)
(* KPool ahead is past the batch or belongs to another tail block.         *)
InTail(m, order, start, i) ==
  \/ i + KPool >= FlatLen(m, start)
  \/ tail[FlatReq(m, order, start, i + KPool)] # tail[FlatReq(m, order, start, i)]

(* mutant: the offset comes from the flat index, not from the position     *)
SeedsByFlatIndex(m, order, start, b, s) ==
  {i \in 0 .. FlatLen(m, start) - 1 :
     /\ tail[FlatReq(m, order, start, i)] = b
     /\ i % KPool = s
     /\ InTail(m, order, start, i)}

Seeds(m, order, start, b, s) ==
  {i \in 0 .. FlatLen(m, start) - 1 :
     /\ tail[FlatReq(m, order, start, i)] = b
     /\ FlatPos(m, order, start, i) % KPool = s
     /\ InTail(m, order, start, i)}

SeedTail(m, order, start, b) ==
  [s \in Slot |->
     LET w == Seeds(m, order, start, b, s)
     IN  IF w = {} THEN ring[b][s]
         ELSE FlatKey(m, order, start, CHOOSE i \in w : TRUE)]

-----------------------------------------------------------------------------
(* Decode rows.  Request r runs n tokens from position computed[r] on, of  *)
(* which the first a survive (all of them when they are prompt tokens).    *)

(* mutant: a row may run past max_model_len                                 *)
DecodeRowUncapped(r, n, a) ==
  /\ Running(r)
  /\ n \in 1 .. DecodeThreshold
  /\ a \in 1 .. n
  /\ Prefilling(r) => Chunk(r, n) /\ a = n

DecodeRow(r, n, a) ==
  /\ Running(r)
  /\ n \in 1 .. DecodeThreshold
  /\ a \in 1 .. n
  /\ computed[r] + n <= MaxLen
  /\ Prefilling(r) => Chunk(r, n) /\ a = n

DecodePos(r, n) == computed[r] .. computed[r] + n - 1

(* r's tail block once its tokens up to position x are stashed in position *)
(* order: a slot holds the last token written to it, if any was.           *)
LastInto(r, x, s) ==
  {y \in computed[r] .. x : y % KPool = s /\ \A z \in y + 1 .. x : z % KPool # s}

StashThrough(r, a, x) ==
  [s \in Slot |->
     IF LastInto(r, x, s) = {} THEN ring[tail[r]][s]
     ELSE LET y == CHOOSE y \in LastInto(r, x, s) : TRUE
          IN  Key(r, y, y < computed[r] + a)]

(* mutant: the whole batch is stashed before any pool is compressed        *)
DecodeWriteAfterStash(r, n, a, j) ==
  IF PoolLast(j) \in DecodePos(r, n)
  THEN [o \in Offset |->
          StashThrough(r, a, computed[r] + n - 1)[(j * KPool + o) % KPool]]
  ELSE pool[r][j]

(* When the stash of position PoolLast(j) fills pool j, the pool is        *)
(* compressed from the ring as it is at that moment.                       *)
DecodeWrite(r, n, a, j) ==
  IF PoolLast(j) \in DecodePos(r, n)
  THEN [o \in Offset |-> StashThrough(r, a, PoolLast(j))[(j * KPool + o) % KPool]]
  ELSE pool[r][j]

-----------------------------------------------------------------------------
Init ==
  /\ status = [r \in Req |-> "waiting"]
  /\ target \in [Req -> 1 .. MaxLen]
  /\ computed = [r \in Req |-> 0]
  /\ reusable = [r \in Req |-> 0]
  /\ tail = [r \in Req |-> NoBlock]
  /\ ring = [b \in Block |-> [s \in Slot |-> NoKey]]
  /\ pool = [r \in Req |-> [j \in PoolId |-> Unwritten]]

(* The scheduler starts (or resumes) r on a free tail block, whose keys    *)
(* are the last owner's, with the first h tokens from the prefix cache.    *)
Admit(r, b, h) ==
  /\ status[r] = "waiting"
  /\ \A q \in Req : tail[q] # b
  /\ h \in 0 .. reusable[r] /\ h % Align = 0 /\ h < target[r]
  /\ status' = [status EXCEPT ![r] = "running"]
  /\ computed' = [computed EXCEPT ![r] = h]
  /\ tail' = [tail EXCEPT ![r] = b]
  /\ pool' = [pool EXCEPT ![r] =
       [j \in PoolId |-> IF PoolLast(j) < h THEN pool[r][j] ELSE Unwritten]]
  /\ UNCHANGED <<target, reusable, ring>>

(* sparse_attn_indexer_kpool on one batch: the decode rows of the requests *)
(* in D (rows[r] = <<tokens, accepted>>) and the prefill chunks.           *)
Batch(D, rows, m, order, start) ==
  LET P == {order[c] : c \in 1 .. m}
  IN
  /\ D # {} \/ m > 0
  /\ D \cap P = {}
  /\ \A r \in D : DecodeRow(r, rows[r][1], rows[r][2])
  /\ PrefillRows(m, order, start)
  /\ pool' = [r \in Req |->
       IF r \in D
       THEN [j \in PoolId |-> DecodeWrite(r, rows[r][1], rows[r][2], j)]
       ELSE IF r \in P
       THEN [j \in PoolId |-> CompressInsert(m, order, start, r, j)]
       ELSE pool[r]]
  /\ ring' = [b \in Block |->
       IF \E r \in D : tail[r] = b
       THEN LET r == CHOOSE r \in D : tail[r] = b
            IN  StashThrough(r, rows[r][2], computed[r] + rows[r][1] - 1)
       ELSE IF m = 0 THEN ring[b]
       ELSE SeedTail(m, order, start, b)]
  /\ computed' = [r \in Req |->
       IF r \in D THEN computed[r] + rows[r][2]
       ELSE IF r \in P
       THEN computed[r] + ChunkLen(start, CHOOSE c \in 1 .. m : order[c] = r)
       ELSE computed[r]]
  /\ UNCHANGED <<status, target, reusable, tail>>

(* <<tokens, accepted>> of a decode row.                                   *)
RowSizes == {p \in (1 .. DecodeThreshold) \X (1 .. DecodeThreshold) : p[2] <= p[1]}

Orders(P) ==
  {f \in [1 .. Cardinality(P) -> P] : \A c, d \in DOMAIN f : c # d => f[c] # f[d]}

Forward ==
  \E D \in SUBSET {r \in Req : Running(r)} :
  \E rows \in [D -> RowSizes] :
  \E P \in SUBSET ({r \in Req : Prefilling(r)} \ D) :
  \E order \in Orders(P) :
  \E start \in Starts[Cardinality(P)] :
    Batch(D, rows, Cardinality(P), order, start)

(* The scheduler frees r's blocks; r will recompute the tokens it has, the *)
(* sampled token whose key is not computed yet included.                   *)
Preempt(r) ==
  /\ Running(r) /\ computed[r] < MaxLen
  /\ status' = [status EXCEPT ![r] = "waiting"]
  /\ target' = [target EXCEPT ![r] = IF Prefilling(r) THEN @ ELSE computed[r] + 1]
  /\ reusable' = [reusable EXCEPT ![r] = computed[r]]
  /\ computed' = [computed EXCEPT ![r] = 0]
  /\ tail' = [tail EXCEPT ![r] = NoBlock]
  /\ UNCHANGED <<ring, pool>>

(* r ends, and with it what the cache holds of it.                        *)
Finish(r) ==
  /\ Decoding(r)
  /\ status' = [status EXCEPT ![r] = "finished"]
  /\ computed' = [computed EXCEPT ![r] = 0]
  /\ tail' = [tail EXCEPT ![r] = NoBlock]
  /\ pool' = [pool EXCEPT ![r] = [j \in PoolId |-> Unwritten]]
  /\ UNCHANGED <<target, reusable, ring>>

Next ==
  \/ \E r \in Req, b \in Block, h \in 0 .. MaxLen : Admit(r, b, h)
  \/ Forward
  \/ \E r \in Req : Preempt(r)
  \/ \E r \in Req : Finish(r)

Spec == Init /\ [][Next]_vars

-----------------------------------------------------------------------------
TypeOK ==
  /\ status \in [Req -> {"waiting", "running", "finished"}]
  /\ target \in [Req -> 1 .. MaxLen]
  /\ computed \in [Req -> 0 .. MaxLen]
  /\ reusable \in [Req -> 0 .. MaxLen]
  /\ tail \in [Req -> Block \cup {NoBlock}]
  /\ ring \in [Block -> [Slot -> KeySet]]
  /\ pool \in [Req -> [PoolId -> [Offset -> KeySet]]]

-----------------------------------------------------------------------------
(* The index as its readers see it: the complete pools of a running        *)
(* request's committed prefix, and of what a preempted one left behind.    *)
HeldLen(r) == CASE status[r] = "running"  -> computed[r]
                [] status[r] = "waiting"  -> reusable[r]
                [] status[r] = "finished" -> 0
HeldPools(r) == {j \in PoolId : PoolLast(j) < HeldLen(r)}

Promise == INSTANCE KpoolSpec WITH
  phase <- status,
  length <- [r \in Req |-> HeldLen(r)],
  prompt <- target,
  index <- [r \in Req |-> [j \in HeldPools(r) |-> pool[r][j]]]

(* Through rings, reused blocks, rejected drafts, preemptions and prefix   *)
(* hits, the write side behaves as the append-only index of KpoolSpec: a   *)
(* batch adds an entry for every pool it completes, the prompt's from      *)
(* exactly their own keys, and leaves every entry that was already there   *)
(* as it was, for the requests of the batch and for all the others.        *)
ImplementsIndex == Promise!Spec

(* Every complete pool of a request's committed prefix was compressed from *)
(* that pool's own keys, each in its place, or, where a later batch's      *)
(* stash ran over the ring before the pool was full, from drafts of the    *)
(* same request that were rejected: never from another request's token,    *)
(* from a left-over of the ring's last owner, from an earlier position, or *)
(* from a slot nobody wrote.  With at most one draft no ring is run over.  *)
CommittedPoolsOwn ==
  \A r \in Req : \A j \in PoolId :
    Running(r) /\ PoolLast(j) < computed[r] => Promise!MayHold(r, j, pool[r][j])

(* What the comment on the prefill tail asks, that the decode side "can    *)
(* compress the boundary pool correctly": every complete pool comes from   *)
(* exactly its own committed keys.  True of the source with at most one    *)
(* draft, and not with more.                                               *)
CommittedPoolsFaithful ==
  \A r \in Req : \A j \in PoolId :
    Running(r) /\ PoolLast(j) < computed[r] => pool[r][j] = TruePool(r, j)

(* The keys in a decoding request's ring, where the decode kernel will     *)
(* read those of the unfinished pool: the token's own, or that of a        *)
(* rejected draft whole turns of the ring ahead of it, less than NumSpec   *)
(* past the committed prefix.                                              *)
RingMayHold(r, y, n) ==
  {Key(r, y, TRUE)} \cup
  {Key(r, p, FALSE) : p \in {p \in y + 1 .. n + NumSpec - 1 : p % KPool = y % KPool}}

BoundaryKeysOwn ==
  \A r \in Req : \A y \in Pos :
    /\ Running(r)
    /\ PoolStart(computed[r]) <= y /\ y < computed[r]
    => ring[tail[r]][y % KPool] \in RingMayHold(r, y, computed[r])

(* The inductive invariant behind them.  Tail blocks have one owner, a     *)
(* request still prefilling stands at a pool boundary, and what a          *)
(* preempted request left in the prefix cache is its own.                  *)
TailOwned ==
  /\ \A r \in Req : tail[r] # NoBlock <=> Running(r)
  /\ \A r, q \in Req : Running(r) /\ Running(q) /\ r # q => tail[r] # tail[q]

PrefillAligned == \A r \in Req : Prefilling(r) => computed[r] % KPool = 0

ReusableOwn ==
  \A r \in Req : \A j \in PoolId :
    status[r] = "waiting" /\ PoolLast(j) < reusable[r] => Promise!MayHold(r, j, pool[r][j])

IInv ==
  /\ TypeOK /\ TailOwned /\ PrefillAligned /\ ReusableOwn
  /\ CommittedPoolsOwn /\ BoundaryKeysOwn
=============================================================================
