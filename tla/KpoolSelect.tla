----------------------------- MODULE KpoolSelect ------------------------------
(***************************************************************************)
(* The read side of sparse_attn_indexer_kpool: one forward fills           *)
(* topk_indices_buffer, which the sparse attention reads afterwards, with  *)
(* the positions every token attends to.  The tokens of the batch are      *)
(* flat, decode requests first; a request's tokens are consecutive.        *)
(* Pools are scored, the best TopK \div KPool of them are expanded to      *)
(* their tokens, and the tokens of the unfinished pool are added.          *)
(*                                                                         *)
(* Decode requests may have different numbers of tokens (a short prefill   *)
(* chunk counts as decode), and are then laid out in a padded grid.  The   *)
(* buffer is shared by every layer and forward: rows start out stale.      *)
(* A row is the set of its indices; -1 is left out.                        *)
(*                                                                         *)
(* With the overlay of docs/patch_sm121_mla.py the buffer is no wider than *)
(* TopK, and the last pool of the kernel's list is cut to make room for    *)
(* the tail.  The kernels do not promise an order for that list.           *)
(***************************************************************************)
EXTENDS Integers, Sequences, SequencesExt, FiniteSets, FiniteSetsExt

CONSTANTS
  KPool,        (* index_kpool                                             *)
  TopK,         (* topk_tokens                                             *)
  BlockN,       (* sparse_topk_block_n                                     *)
  DecodeRows,   (* [pos, len]: a decode request's first position, tokens   *)
  PrefillRows,  (* the same of a prefill chunk                             *)
  Scores,       (* pool -> its place in the kernels' order, for a batch    *)
  MaxRequests,  (* bound: requests of each kind                            *)
  MaxPad,       (* bound: rows of hidden_states past the tokens            *)
  MaxRows       (* max_num_batched_tokens                                  *)

ASSUME SelectAssumption ==
  /\ KPool \in Nat \ {0, 1} /\ TopK \in Nat \ {0} /\ TopK % KPool = 0
  /\ BlockN \in Nat \ {0}
  /\ DecodeRows \cup PrefillRows \subseteq [pos : Nat, len : Nat \ {0}]
  /\ MaxRequests \in Nat /\ MaxPad \in Nat /\ MaxRows \in Nat
  /\ \A s \in Scores : \A p, q \in DOMAIN s : s[p] \in Int /\ (s[p] = s[q] => p = q)
  /\ \A s \in Scores, r \in DecodeRows \cup PrefillRows :
       0 .. (r.pos + r.len) \div KPool - 1 \subseteq DOMAIN s

VARIABLES
  trim,       (* "none", or the overlay and the pool of a list that comes  *)
              (* last in it: its "best" or its "worst"                     *)
  dec, pre,   (* the requests of the batch                                 *)
  pad,        (* hidden_states.shape[0] - num_tokens                       *)
  score,
  buffer,     (* topk_indices_buffer                                       *)
  pc

vars == <<trim, dec, pre, pad, score, buffer, pc>>
-----------------------------------------------------------------------------
Positions(rows) ==
  FlattenSeq([r \in DOMAIN rows |-> [t \in 1 .. rows[r].len |-> rows[r].pos + t - 1]])
Lens(rows) == [r \in DOMAIN rows |-> rows[r].len]
CumSum(lens) ==
  LET sum[r \in 0 .. Len(lens)] == IF r = 0 THEN 0 ELSE sum[r - 1] + lens[r] IN sum
Total(lens) == CumSum(lens)[Len(lens)]

positions       == Positions(dec) \o Positions(pre)
NumDecodeTokens == Total(Lens(dec))
NumTokens       == NumDecodeTokens + Total(Lens(pre))
select_k        == TopK \div KPool

(* Rounded up to whole blocks of the attention kernel; the overlay leaves  *)
(* the tail out of it.                                                     *)
BufferWidth ==
  LET extra == IF trim = "none" THEN KPool - 1 ELSE 0
  IN  ((TopK + extra + BlockN - 1) \div BlockN) * BlockN

(* Flat decode token -> its request and its index in the request.          *)
ReqStart(lens, r) == CumSum(lens)[r - 1]
ScatterIndices(lens) ==
  [i \in 1 .. Total(lens) |->
     LET r == CHOOSE q \in DOMAIN lens : ReqStart(lens, q) < i /\ i <= ReqStart(lens, q) + lens[q]
     IN  <<r, i - ReqStart(lens, r)>>]

(* Flat tokens in a padded grid, and the flat tokens back from a grid.     *)
Scatter(tokens, pad_value, n, lmax, idx) ==
  [r \in 1 .. n |-> [t \in 1 .. lmax |->
     IF \E i \in DOMAIN idx : idx[i] = <<r, t>>
     THEN tokens[CHOOSE i \in DOMAIN idx : idx[i] = <<r, t>>] ELSE pad_value]]
Unpack(grid, lens) ==
  LET idx == ScatterIndices(lens) IN [i \in DOMAIN idx |-> grid[idx[i][1]][idx[i][2]]]

BatchSize == Len(dec)
NextN     == Max({dec[r].len : r \in DOMAIN dec})
RequiresPadding == \E r \in DOMAIN dec : dec[r].len # NextN

(* Rows of the grid, numbered row by row; the pools the paged logits see.  *)
GridRows  == 1 .. BatchSize * NextN
RowReq(i) == (i - 1) \div NextN + 1
RowTok(i) == ((i - 1) % NextN) + 1

(* mutant: the pools of the request, not of the row.                       *)
RowPoolsOfRequest(i) == dec[RowReq(i)].pos \div KPool

RowPools(i) == (dec[RowReq(i)].pos + RowTok(i)) \div KPool

(* mutants: rows taken from the flat positions; the pool-granular seq_lens.*)
FlatSeqLens == [i \in GridRows |-> IF i <= Len(positions) THEN positions[i] + 1 ELSE 0]
PoolSeqLens == [i \in GridRows |-> RowPools(i)]

(* Token-granular sequence length of every row; 0 in padded rows.          *)
DecodeTopkSeqLens ==
  IF ~RequiresPadding THEN [i \in GridRows |-> positions[i] + 1]
  ELSE LET grid == Scatter(positions, -1, BatchSize, NextN, ScatterIndices(Lens(dec)))
       IN  [i \in GridRows |-> grid[RowReq(i)][RowTok(i)] + 1]

(* mutant: one pool too many.                                              *)
TopPoolsOffByOne(n) ==
  {p \in 0 .. n - 1 : Cardinality({q \in 0 .. n - 1 : score[q] > score[p]}) <= select_k}

(* The best select_k of the first n pools.                                 *)
TopPools(n) ==
  {p \in 0 .. n - 1 : Cardinality({q \in 0 .. n - 1 : score[q] > score[p]}) < select_k}

(* mutant: the list is expanded whole.                                     *)
ListedUntrimmed(n) == TopPools(n)

(* pool_ids[:, : select_k - 1]: of a full list the overlay drops one.      *)
Listed(n) ==
  LET P == TopPools(n)
      last == CHOOSE p \in P : \A q \in P : IF trim = "best" THEN score[p] >= score[q]
                                                            ELSE score[p] <= score[q]
  IN  IF trim = "none" \/ Cardinality(P) < select_k THEN P ELSE P \ {last}

(* expand_pools_and_append_tail: the pools' tokens and the unfinished pool.*)
ExpandAndTail(pools, seq_len) ==
  (UNION {p * KPool .. p * KPool + KPool - 1 : p \in pools})
    \cup (seq_len \div KPool) * KPool .. seq_len - 1

DecodeRow(i) == ExpandAndTail(Listed(RowPools(i)), DecodeTopkSeqLens[i])

DecodeOut ==
  IF ~RequiresPadding THEN [i \in GridRows |-> DecodeRow(i)]
  ELSE Unpack([b \in 1 .. BatchSize |-> [t \in 1 .. NextN |-> DecodeRow((b - 1) * NextN + t)]],
              Lens(dec))

(* mutant: one short request makes the prefill short.                      *)
ShortPrefillAny == \E r \in DOMAIN pre : pre[r].pos + pre[r].len <= TopK

(* Every prefill request's whole context fits TopK.                        *)
ShortPrefill == Max({pre[r].pos + pre[r].len : r \in DOMAIN pre}) <= TopK

(* Flat prefill token i: everything up to its position, or its top pools.  *)
PrefillRow(i) ==
  IF ShortPrefill THEN {c \in 0 .. BufferWidth - 1 : c <= positions[i]}
  ELSE ExpandAndTail(Listed((positions[i] + 1) \div KPool), positions[i] + 1)
-----------------------------------------------------------------------------
Cleared == NumTokens + pad

Reset ==
  /\ pc = "reset"
  /\ buffer' = [i \in DOMAIN buffer |-> IF i <= Cleared THEN {} ELSE buffer[i]]
  /\ pc' = "prefill"
  /\ UNCHANGED <<trim, dec, pre, pad, score>>

Prefill ==
  /\ pc = "prefill"
  /\ buffer' = [i \in DOMAIN buffer |->
                  IF i > NumDecodeTokens /\ i <= NumTokens THEN PrefillRow(i) ELSE buffer[i]]
  /\ pc' = "decode"
  /\ UNCHANGED <<trim, dec, pre, pad, score>>

Decode ==
  /\ pc = "decode"
  /\ buffer' = IF dec = <<>> THEN buffer
               ELSE LET out == DecodeOut IN
                    [i \in DOMAIN buffer |-> IF i <= Len(out) THEN out[i] ELSE buffer[i]]
  /\ pc' = "done"
  /\ UNCHANGED <<trim, dec, pre, pad, score>>

(* Any batch; the rows hold what an earlier forward left.                  *)
Batches(rows) == UNION {[1 .. n -> rows] : n \in 0 .. MaxRequests}
Init ==
  /\ trim \in {"none", "best", "worst"}
  /\ dec \in Batches(DecodeRows) /\ pre \in Batches(PrefillRows)
  /\ pad \in 0 .. MaxPad /\ score \in Scores
  /\ NumTokens \in 1 .. MaxRows - pad
  /\ buffer = [i \in 1 .. MaxRows |-> 0 .. BufferWidth - 1]
  /\ pc = "reset"

Next == Reset \/ Prefill \/ Decode

Spec == Init /\ [][Next]_vars

-----------------------------------------------------------------------------
(* Rows fit the buffer, with or without the overlay.                       *)
TypeOK ==
  /\ trim \in {"none", "best", "worst"}
  /\ dec \in Batches(DecodeRows) /\ pre \in Batches(PrefillRows)
  /\ pad \in 0 .. MaxPad /\ score \in Scores
  /\ DOMAIN buffer = 1 .. MaxRows
  /\ \A i \in DOMAIN buffer : IsFiniteSet(buffer[i]) /\ Cardinality(buffer[i]) <= BufferWidth
  /\ pc \in {"reset", "prefill", "decode", "done"}

(* After a forward no token attends past its own position, where another   *)
(* request's blocks or none are, and rows without a token attend nothing,  *)
(* whatever the buffer held and however the batch was padded.              *)
RowsStayInSequence ==
  pc = "done" => \A i \in 1 .. NumTokens + pad :
    \A c \in buffer[i] : i <= NumTokens /\ c <= positions[i]

(* The unfinished pool has no entry in the pool cache: its tokens are      *)
(* attended always, the token itself among them.                           *)
TailAlwaysAttended ==
  pc = "done" => \A i \in 1 .. NumTokens :
    ((positions[i] + 1) \div KPool) * KPool .. positions[i] \subseteq buffer[i]

(* Selection is exact while it can be: a context of at most TopK tokens is *)
(* attended whole, in decode and prefill, whatever shares the batch, and a *)
(* longer one in TopK tokens besides its tail.  The overlay cuts a pool of *)
(* a full list: contexts shorter than TopK stay whole, one of TopK tokens  *)
(* on the short path only, and a scored one of TopK or more loses a pool.  *)
ShortContextDense ==
  pc = "done" => \A i \in 1 .. NumTokens :
    LET n == positions[i] + 1
        scored == i <= NumDecodeTokens \/ ~ShortPrefill
        cut == IF trim # "none" /\ scored THEN KPool ELSE 0
    IN  IF n < TopK \/ (n = TopK /\ cut = 0) THEN 0 .. positions[i] \subseteq buffer[i]
        ELSE Cardinality(buffer[i]) = TopK - cut + (n % KPool)

(* What a token does not attend scores below what it does: with the        *)
(* overlay it is the lowest-ranked pool that is dropped.                   *)
LowestPoolsDropped ==
  pc = "done" => \A i \in 1 .. NumTokens :
    \A p, q \in 0 .. (positions[i] + 1) \div KPool - 1 :
      p * KPool \in buffer[i] /\ q * KPool \notin buffer[i] => score[p] > score[q]

(* The same of kernels that do not list their best pool last, in every     *)
(* layout and whatever requests the batch mixes.                           *)
RankedListsDropLowest == trim # "best" => LowestPoolsDropped
=============================================================================
