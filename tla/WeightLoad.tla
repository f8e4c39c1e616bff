------------------------------ MODULE WeightLoad ------------------------------
(***************************************************************************)
(* Glm5NextModel.load_weights (patches/glm5next_model.py).  The tensors of *)
(* the checkpoint arrive one by one, in the order of its files.  Several   *)
(* checkpoint projections are shards of one fused parameter.  A projection *)
(* the model keeps in BF16 but the checkpoint stores as block-FP8 comes as *)
(* two tensors, the weight and its block scales, in either order and with  *)
(* any tensors in between: the first of them waits in _pending_wk_fp8.     *)
(* One the model keeps in FP8 has a parameter for its scales as well, and  *)
(* its two tensors are loaded as they come.  A weight whose scales do not  *)
(* fit it raises.  AutoWeightsLoader calls load_weights once for every run *)
(* of consecutive tensors of the model, and the pending halves live as     *)
(* long as one call.                                                       *)
(*                                                                         *)
(* A tensor is [layer, proj, part]; the data of a projection is its rows,  *)
(* each with the scales it was multiplied by: their layer, their row and   *)
(* the column of scales of each of its columns.                            *)
(***************************************************************************)
EXTENDS Integers, Sequences, FiniteSets

CONSTANTS
  BaseLayers,  (* the layers of the model                                  *)
  SpecLayers,  (* the multi-token-prediction layers after them             *)
  KvRope,      (* kv_a_pad_size: qk_rope_head_dim if mla_nope, or 0        *)
  Block,       (* rows and columns a block scale covers                    *)
  RowsOf,      (* projection -> its rows in the checkpoint                 *)
  ColsOf,      (* projection -> its columns                                *)
  Checkpoints  (* pairs [fp8, kept]: the projections stored as FP8, and    *)
               (* those of them the model has a weight_scale_inv for       *)

(* The checkpoint's projections and the parameter and shard each goes to;  *)
(* norm stands for every parameter loaded as it is.                        *)
Stacked == [gate |-> <<"gate_up", 0>>, up |-> <<"gate_up", 1>>,
            q_a  |-> <<"fused_qkv_a", 0>>, kv_a |-> <<"fused_qkv_a", 1>>,
            wk   |-> <<"wk_weights", 0>>, weights |-> <<"wk_weights", 1>>,
            q_b |-> <<"q_b", 0>>, o |-> <<"o", 0>>, norm |-> <<"norm", 0>>]

Projs  == DOMAIN RowsOf
Fp8Attn == {"q_a", "kv_a", "q_b", "o"}          \* _FP8_ATTN_PROJS
HalfProjs == Fp8Attn \cup {"wk"}
Shards == BaseLayers \X Projs \X {"weight", "scale"}
Empty  == <<>>

ASSUME LoadAssumption ==
  /\ BaseLayers \cap SpecLayers = {}
  /\ KvRope \in Nat /\ Block \in Nat \ {0}
  /\ Projs \subseteq DOMAIN Stacked /\ DOMAIN ColsOf = Projs
  /\ \A p \in Projs : RowsOf[p] \in Nat \ {0} /\ ColsOf[p] \in Nat \ {0, 1}
  /\ \A c \in Checkpoints : /\ c.fp8 \subseteq HalfProjs /\ c.kept \subseteq c.fp8 \cap Fp8Attn
                            /\ KvRope > 0 => "kv_a" \notin c.kept

Tensor(l, p, part) == [layer |-> l, proj |-> p, part |-> part]
Tensors(fp8, P) ==
  {Tensor(l, p, "bf16") : l \in BaseLayers, p \in P \ fp8}
    \cup {Tensor(l, p, h) : l \in BaseLayers, p \in P \cap fp8, h \in {"fp8", "scale"}}
    \cup {Tensor(l, p, "bf16") : l \in SpecLayers, p \in P}

VARIABLES
  ckpt,     (* the checkpoint and params_dict: one of Checkpoints          *)
  todo,     (* tensors still to come                                       *)
  pending,  (* _pending_wk_fp8: the halves that wait                       *)
  shards,   (* what each shard of a parameter holds                        *)
  reported, (* loaded_params, of all calls                                 *)
  failed,   (* the load has raised                                         *)
  dropped,  (* ghost: the halves that were pending when a call ended       *)
  writes    (* ghost: how often each shard was written                     *)

loadVars == <<ckpt, todo, pending, shards, reported, failed, dropped, writes>>
-----------------------------------------------------------------------------
(* _dequant_fp8_block and scaled_dequantize: the weight padded to whole    *)
(* blocks times the scales of its blocks.  The block size is taken from    *)
(* the number of scale columns; scaled_dequantize pads nothing.            *)
CeilDiv(n, b) == (n + b - 1) \div b
ScaleRows(p)  == CeilDiv(RowsOf[p], Block)
ScaleCols(p)  == CeilDiv(ColsOf[p], Block)
BlockSize(p)  == ColsOf[p] \div ScaleCols(p)
ScalesFit(p)  == LET b == BlockSize(p) IN
  /\ CeilDiv(RowsOf[p], b) = ScaleRows(p) /\ CeilDiv(ColsOf[p], b) = ScaleCols(p)
  /\ p = "wk" => RowsOf[p] % b = 0 /\ ColsOf[p] % b = 0
Scaled(p, l, b) ==
  [i \in 1 .. RowsOf[p] |-> <<i, l, (i - 1) \div b, [j \in 1 .. ColsOf[p] |-> (j - 1) \div b]>>]
Dequant(p, scale) == Scaled(p, scale.layer, BlockSize(p))
AsStored(p, part) == [i \in 1 .. (IF part = "scale" THEN ScaleRows(p) ELSE RowsOf[p]) |-> <<i>>]
Zeros             == [i \in 1 .. KvRope |-> <<0>>]

(* NoPE: kv_a lacks the rope rows of the parameter.                        *)
PadRope(p, rows) == IF p = "kv_a" THEN rows \o Zeros ELSE rows

(* The shard a tensor goes to; both halves of one the model keeps in BF16  *)
(* go to its weight.                                                       *)
Into(t) == <<t.layer, t.proj,
             IF t.part = "scale" /\ t.proj \in ckpt.kept THEN "scale" ELSE "weight">>
Param(s) == <<s[1], Stacked[s[2]][1], s[3]>>

PutShard(s, rows) ==
  /\ shards' = [shards EXCEPT ![s] = rows]
  /\ writes' = [writes EXCEPT ![s] = @ + 1]
  /\ reported' = reported \cup {Param(s)}
Nothing == UNCHANGED <<shards, writes, reported>>

(* get_spec_layer_idx_from_weight_name: not the main model's.              *)
Skip(t) ==
  /\ t.layer \in SpecLayers
  /\ Nothing /\ UNCHANGED pending

(* _try_load_fp8_indexer_wk, _try_load_fp8_attn_proj: a half waits for the *)
(* other one of its layer and projection, then both become the shard.      *)
IsHalf(t)  == t.part # "bf16" /\ t.proj \in HalfProjs \ ckpt.kept
Other(t)   == [t EXCEPT !.part = IF t.part = "scale" THEN "fp8" ELSE "scale"]
Join(t, u) == PutShard(Into(t), PadRope(t.proj, Dequant(t.proj, IF t.part = "scale" THEN t ELSE u)))

(* mutants: the indexer's halves are kept by projection only, so that a    *)
(* scale meets another layer's weight; the halves of a layer share one     *)
(* entry whatever their projection.                                        *)
HalvesOfAnyLayer(t) ==
  /\ t.layer \in BaseLayers /\ IsHalf(t)
  /\ LET mates == {u \in pending : u.proj = t.proj /\ u.part # t.part}
     IN  IF mates = {} THEN pending' = pending \cup {t} /\ Nothing
         ELSE LET u == CHOOSE v \in mates : TRUE IN pending' = pending \ {u} /\ Join(t, u)
HalvesOfAnyProj(t) ==
  /\ t.layer \in BaseLayers /\ IsHalf(t)
  /\ IF Other(t) \in pending
     THEN pending' = pending \ {Other(t)} /\ Join(t, Other(t))
     ELSE /\ pending' = {u \in pending : u.layer # t.layer \/ u.part # t.part} \cup {t}
          /\ Nothing

LoadHalf(t) ==
  /\ t.layer \in BaseLayers /\ IsHalf(t)
  /\ IF Other(t) \in pending
     THEN ScalesFit(t.proj) /\ pending' = pending \ {Other(t)} /\ Join(t, Other(t))
     ELSE pending' = pending \cup {t} /\ Nothing

(* stacked_params_mapping, the expert mapping or the parameter itself.     *)
LoadWhole(t) ==
  /\ t.layer \in BaseLayers /\ ~IsHalf(t)
  /\ PutShard(Into(t), PadRope(t.proj, AsStored(t.proj, t.part)))
  /\ UNCHANGED pending

LoadTensor(t) ==
  /\ ~failed /\ t \in todo /\ todo' = todo \ {t}
  /\ Skip(t) \/ LoadHalf(t) \/ LoadWhole(t)
  /\ UNCHANGED <<ckpt, failed, dropped>>

(* The scales do not broadcast to the weight: the load ends there.         *)
LoadRaises(t) ==
  /\ ~failed /\ t \in todo /\ t.layer \in BaseLayers /\ IsHalf(t)
  /\ Other(t) \in pending /\ ~ScalesFit(t.proj)
  /\ failed' = TRUE
  /\ Nothing /\ UNCHANGED <<ckpt, todo, pending, dropped>>

(* A tensor of another module comes next: load_weights returns, and is     *)
(* called anew for what follows.                                           *)
NextCall ==
  /\ ~failed /\ todo # {} /\ pending # {}
  /\ dropped' = dropped \cup pending /\ pending' = {}
  /\ UNCHANGED <<ckpt, todo, shards, reported, failed, writes>>

LoadInit ==
  /\ ckpt \in Checkpoints /\ todo = Tensors(ckpt.fp8, Projs)
  /\ pending = {} /\ dropped = {} /\ reported = {} /\ failed = FALSE
  /\ shards = [s \in Shards |-> Empty] /\ writes = [s \in Shards |-> 0]

LoadNext == NextCall \/ \E t \in todo : LoadTensor(t) \/ LoadRaises(t)
LoadSpec == LoadInit /\ [][LoadNext]_loadVars
-----------------------------------------------------------------------------
(* The shards of the model, and what each must hold: what was stored, or   *)
(* the rows each with its own layer's scales of its own block; with the    *)
(* rope rows the checkpoint lacks.                                         *)
Slots == {s \in Shards : s[3] = "weight" \/ s[2] \in ckpt.kept}
TrueShard(s) ==
  IF s[3] = "scale" THEN AsStored(s[2], "scale")
  ELSE IF s[2] \in ckpt.fp8 \ ckpt.kept THEN PadRope(s[2], Scaled(s[2], s[1], Block))
  ELSE PadRope(s[2], AsStored(s[2], "bf16"))
WholeCols(p) == ColsOf[p] % Block = 0

(* Whatever the order of the tensors, no shard is ever half loaded, paired *)
(* with another layer's scales, scaled by the wrong block, short of its    *)
(* rope rows or written twice: for weights whose columns are whole blocks, *)
(* as long as their rows may be.                                           *)
ShardsRight ==
  \A s \in Slots :
    /\ writes[s] <= 1
    /\ shards[s] # Empty /\ WholeCols(s[2]) => shards[s] = TrueShard(s)

(* Once the tensors have all come every shard is loaded and its parameter  *)
(* reported as loaded, unless a call ended between the two halves of that  *)
(* shard; whatever was dropped, no other shard suffers from it.  And the   *)
(* load raises only over partial columns, or partial rows of indexer.wk.   *)
LoadComplete ==
  /\ todo = {} => \A s \in Slots :
       IF shards[s] = Empty THEN \E u \in dropped : Into(u) = s ELSE Param(s) \in reported
  /\ failed => \E p \in ckpt.fp8 \ ckpt.kept :
                 ~WholeCols(p) \/ (p = "wk" /\ RowsOf[p] % Block # 0)
=============================================================================
