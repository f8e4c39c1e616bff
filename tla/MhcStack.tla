------------------------------- MODULE MhcStack -------------------------------
(***************************************************************************)
(* One forward of the GLM-5 next decoder stack                             *)
(* (patches/glm5next_model.py) on the ranks of a tensor-parallel group.    *)
(* With mHC a token is carried by several residual streams: a sublayer     *)
(* (attention, then the MLP) reads a mix of them (hc_pre) and hc_post puts *)
(* its output back.  hc_post is never run where it belongs: it is fused    *)
(* with the next sublayer's hc_pre, across layers too, so between two      *)
(* layers the streams exist only as (x, residual, post, comb).  DFlash2    *)
(* captures hidden states in between.  With sequence parallelism each rank *)
(* holds a chunk of the tokens outside attention.                          *)
(*                                                                         *)
(* A row is named by what it stands for: <<kind, token, k>> is the token's *)
(* hidden state, streams, ... with the first k sublayers applied.          *)
(* Combining rows that do not belong together gives Bad.                   *)
(***************************************************************************)
EXTENDS Integers, Sequences, SequencesExt

CONSTANTS
  NumLayers,   (* num_hidden_layers                                        *)
  TPSize,      (* tensor-parallel ranks                                    *)
  StackTokens  (* bound: tokens of the forward                             *)

ASSUME StackAssumption ==
  NumLayers \in Nat \ {0} /\ TPSize \in Nat \ {0} /\ StackTokens \in Nat \ {0}

VARIABLES
  shape,     (* mhc, sp: is_sequence_parallel, dense: layers with an MLP,  *)
             (* aux: aux_hidden_state_layers, n: the number of tokens      *)
  idx,       (* layers run                                                 *)
  carry,     (* rank -> hidden_states, residual, post, comb                *)
  captured,  (* rank -> aux_hidden_states                                  *)
  final      (* rank -> the forward's hidden states, <<>> before           *)

stackVars == <<shape, idx, carry, captured, final>>

Ranks == 1 .. TPSize
None  == <<>>
Bad   == <<"bad", 0, 0>>
Pad   == <<"pad", 0, 0>>          \* the rows that fill the last SP chunk

Row(kind, t, k) == <<kind, t, k>>
-----------------------------------------------------------------------------
(* The operators of a sublayer, row by row.                                *)
ExpandRow(x) == IF x[1] = "hidden" /\ x[3] = 0 THEN Row("streams", x[2], 0) ELSE Bad

PostRow(x, residual, mix) ==
  IF residual[1] = "streams" /\ x = Row("out", residual[2], residual[3])
     /\ mix = Row("mix", residual[2], residual[3])
  THEN Row("streams", residual[2], residual[3] + 1) ELSE Bad

ContractRow(s) == IF s[1] = "streams" THEN Row("hidden", s[2], s[3]) ELSE Bad

(* hc_pre with the parameters of sublayer k: the mix and the layer's input.*)
MixRow(s, k) == IF s[1] = "streams" /\ s[3] = k THEN Row("mix", s[2], k) ELSE Bad
InRow(s, k)  == IF s[1] = "streams" /\ s[3] = k THEN Row("in", s[2], k) ELSE Bad

HcExpand(x)   == [i \in DOMAIN x |-> ExpandRow(x[i])]
HcContract(s) == [i \in DOMAIN s |-> ContractRow(s[i])]
HcPre(s, k)   == [x |-> [i \in DOMAIN s |-> InRow(s[i], k)], residual |-> s,
                  mix |-> [i \in DOMAIN s |-> MixRow(s[i], k)]]
HcPost(c)     == [i \in DOMAIN c.x |-> PostRow(c.x[i], c.residual[i], c.mix[i])]
HcFusedPostPre(c, k) == HcPre(HcPost(c), k)
-----------------------------------------------------------------------------
(* Collectives over X, rank -> rows.                                       *)
ChunkRows(n) == (n + TPSize - 1) \div TPSize
PadTo(x, n)  == x \o [i \in 1 .. n - Len(x) |-> Pad]
Chunk(x, r)  == LET m == ChunkRows(Len(x))
                IN  SubSeq(PadTo(x, m * TPSize), (r - 1) * m + 1, r * m)

SpShard(X)     == [r \in Ranks |-> Chunk(X[r], r)]
SpAllGather(X) == [r \in Ranks |-> FlattenSeq([q \in Ranks |-> X[q]])]
Narrow(X, n)   == [r \in Ranks |-> SubSeq(X[r], 1, n)]

(* The sum over the ranks is whole where all of them worked on one row.    *)
SumRow(X, i) ==
  IF \A r \in Ranks : i \in DOMAIN X[r] /\ X[r][i] = X[1][i] /\ X[r][i][1] = "part"
  THEN Row("out", X[1][i][2], X[1][i][3]) ELSE Bad
AllReduce(X)       == [r \in Ranks |-> [i \in DOMAIN X[r] |-> SumRow(X, i)]]
SpReduceScatter(X) == SpShard(AllReduce(X))
-----------------------------------------------------------------------------
(* Attention: a rank has its own heads, so its projection is a partial sum *)
(* that o_proj reduces, unless sequence parallelism leaves that to the     *)
(* reduce_scatter of the layer.  It needs all the tokens, in order.        *)
Heads(x, k) ==
  [i \in DOMAIN x |-> IF Len(x) = shape.n /\ \A j \in 1 .. i : x[j] = Row("in", j, k)
                      THEN Row("part", i, k) ELSE Bad]
SelfAttn(X, k) == LET P == [r \in Ranks |-> Heads(X[r], k)]
                  IN  IF shape.sp THEN P ELSE AllReduce(P)

(* Dense MLP: the weights are split over the ranks, down_proj all-reduces. *)
MlpRow(x, kind) == IF x[1] = "in" THEN Row(kind, x[2], x[3]) ELSE x
DenseMLP(X) ==
  AllReduce([r \in Ranks |-> [i \in DOMAIN X[r] |-> MlpRow(X[r][i], "part")]])

(* MoE: experts take any rows; without the caller's sharding the rows are  *)
(* sharded around them.                                                    *)
Experts(X) == [r \in Ranks |-> [i \in DOMAIN X[r] |-> MlpRow(X[r][i], "out")]]
MoE(X, already) == IF shape.sp /\ ~already
                   THEN Narrow(SpAllGather(Experts(SpShard(X))), Len(X[1]))
                   ELSE Experts(X)

Mlp(X, layer, already) == IF layer \in shape.dense THEN DenseMLP(X) ELSE MoE(X, already)
-----------------------------------------------------------------------------
Carry(x, residual, mix) == [x |-> x, residual |-> residual, mix |-> mix]
Xs(C) == [r \in Ranks |-> C[r].x]

(* Without mHC: an ordinary residual, summed at the layer's end.           *)
AddRow(x, residual) ==
  IF residual[1] = "hidden" /\ x = Row("out", residual[2], residual[3])
  THEN Row("hidden", residual[2], residual[3] + 1) ELSE Bad
Added(X, R)  == [r \in Ranks |-> [i \in DOMAIN X[r] |-> AddRow(X[r][i], R[r][i])]]
Normed(X, k) == [r \in Ranks |-> [i \in DOMAIN X[r] |->
  IF X[r][i][1] = "hidden" /\ X[r][i][3] = k THEN Row("in", X[r][i][2], k) ELSE Bad]]

PlainLayer(C, layer) ==
  LET k == 2 * layer
      R == Added(SelfAttn(Normed(Xs(C), k), k), Xs(C))
      Y == Added(Mlp(Normed(R, k + 1), layer, FALSE), R)
  IN  [r \in Ranks |-> Carry(Y[r], R[r], None)]

(* Into the attention: the pending hc_post is fused with hc_pre.           *)
AttnPre(c, layer) ==
  IF c.mix = None
  THEN HcPre(IF layer = 0 THEN HcExpand(c.x) ELSE c.x, 2 * layer)
  ELSE HcFusedPostPre(c, 2 * layer)

MhcLayer(C, layer) ==
  LET A == [r \in Ranks |-> AttnPre(C[r], layer)]
      G == IF shape.sp THEN Narrow(SpAllGather(Xs(A)), shape.n) ELSE Xs(A)
      O == SelfAttn(G, 2 * layer)
      S == IF shape.sp THEN SpReduceScatter(O) ELSE O
      F == [r \in Ranks |-> HcFusedPostPre([A[r] EXCEPT !.x = S[r]], 2 * layer + 1)]
      M == Mlp(Xs(F), layer, shape.sp)
      E == [r \in Ranks |-> [F[r] EXCEPT !.x = M[r]]]
  IN  IF layer = NumLayers - 1
      THEN [r \in Ranks |-> Carry(HcContract(HcPost(E[r])), None, None)]
      ELSE E

DecoderLayer(C, layer) == IF shape.mhc THEN MhcLayer(C, layer) ELSE PlainLayer(C, layer)
-----------------------------------------------------------------------------
(* mutant: mid-stack the layer's own output is captured                    *)
CaptureOutput(C) == Xs(C)

(* What DFlash2 is given after a layer.                                    *)
CaptureRows(C) ==
  LET H == [r \in Ranks |-> IF C[r].mix = None THEN C[r].x ELSE HcContract(HcPost(C[r]))]
  IN  IF shape.sp THEN Narrow(SpAllGather(H), shape.n) ELSE H

Embedded == [r \in Ranks |-> [t \in 1 .. shape.n |-> Row("hidden", t, 0)]]

(* Every layer count, model and batch; not sequence parallelism with dense *)
(* or without mHC layers (README, "Not modelled").                         *)
StackShapes == {s \in [mhc : BOOLEAN, sp : BOOLEAN, dense : SUBSET (0 .. NumLayers - 1),
                       aux : SUBSET (1 .. NumLayers), n : 1 .. StackTokens] :
                  s.sp => s.mhc /\ s.dense = {}}

(* The forward of the first (and only) pipeline rank up to the layers.     *)
StackInit ==
  /\ shape \in StackShapes
  /\ idx = 0
  /\ carry = LET X == IF shape.sp THEN SpShard(Embedded) ELSE Embedded
             IN  [r \in Ranks |-> Carry(X[r], None, None)]
  /\ captured = [r \in Ranks |-> <<>>]
  /\ final = [r \in Ranks |-> <<>>]

(* mutant: target_layer_ids are taken for layer outputs as they are        *)
LayerCaptureById ==
  /\ idx < NumLayers
  /\ LET C == DecoderLayer(carry, idx) IN
     /\ carry' = C
     /\ captured' = IF idx \in shape.aux
                    THEN [r \in Ranks |-> Append(captured[r], CaptureRows(C)[r])]
                    ELSE captured
  /\ idx' = idx + 1
  /\ UNCHANGED <<shape, final>>

Layer ==
  /\ idx < NumLayers
  /\ LET C == DecoderLayer(carry, idx) IN
     /\ carry' = C
     /\ captured' = IF idx + 1 \in shape.aux
                    THEN [r \in Ranks |-> Append(captured[r], CaptureRows(C)[r])]
                    ELSE captured
  /\ idx' = idx + 1
  /\ UNCHANGED <<shape, final>>

StackReturn ==
  /\ idx = NumLayers /\ final[1] = <<>>
  /\ final' = IF shape.sp THEN Narrow(SpAllGather(Xs(carry)), shape.n) ELSE Xs(carry)
  /\ UNCHANGED <<shape, idx, carry, captured>>

StackNext == Layer \/ StackReturn
StackSpec == StackInit /\ [][StackNext]_stackVars
-----------------------------------------------------------------------------
(* What is deferred, materialised: the rank's rows as the plain stack      *)
(* would hold them, without the rows of padding.                           *)
Materialised(c) ==
  IF c.mix # None THEN HcContract(HcPost(c))
  ELSE c.x
WholeRows(C) ==
  LET H == [r \in Ranks |-> Materialised(C[r])]
  IN  IF shape.sp THEN Narrow(SpAllGather(H), shape.n) ELSE H

(* What all ranks hold alike.                                              *)
Common(X) == IF \A r \in Ranks : X[r] = X[1] THEN X[1] ELSE Bad

Plain == INSTANCE PlainStack WITH
  tokens <- shape.n, aux <- shape.aux, depth <- idx,
  hidden <- Common(WholeRows(carry)), taken <- Common(captured), result <- Common(final)

(* Fusion, deferral and sequence parallelism are invisible: on every rank  *)
(* the forward is the plain stack of PlainStack, layer by layer, and       *)
(* every captured state is that stack's hidden state after its layer, of   *)
(* all tokens, whatever is captured in between.                            *)
ImplementsPlainStack == Plain!PlainSpec
=============================================================================
