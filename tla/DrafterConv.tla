----------------------------- MODULE DrafterConv ------------------------------
(***************************************************************************)
(* One layer of the DFlash2 drafter (patches/qwen3_dflash2.py) and the     *)
(* candidate selector.  The query tokens of all requests are one flat      *)
(* tensor; a request has 1 + num_speculative_tokens rows of it, and the    *)
(* grouped convolutions, which know nothing of requests, mix neighbouring  *)
(* rows.  A row is abstracted to the set of input rows it depends on.      *)
(***************************************************************************)
EXTENDS Integers

CONSTANTS
  SpecTokens,   (* num_speculative_tokens                                  *)
  Taps,         (* conv_kernel_size                                        *)
  MaxDraftReqs, (* bound: requests of the batch                            *)
  MaxGraphPad   (* bound: rows the captured graph has past the last one    *)

ASSUME ConvAssumption ==
  /\ SpecTokens \in Nat /\ Taps \in Nat \ {0}
  /\ MaxDraftReqs \in Nat \ {0} /\ MaxGraphPad \in Nat

VARIABLES
  reqs, tailpad,  (* the batch: requests, rows of padding                  *)
  reach,    (* row -> the input rows it depends on                         *)
  coef,     (* row -> what the coefficients kept by prepare depend on      *)
  edges,    (* request, step -> rows its transition scores depend on       *)
  stage

convVars == <<reqs, tailpad, reach, coef, edges, stage>>

QueryLen  == 1 + SpecTokens
BlockSize == QueryLen                          \* DFlashGroupedConv.block_size
RowsTotal == reqs * QueryLen + tailpad
RequestOf(i) == i \div QueryLen
RowsOfReq(b) == b * QueryLen .. b * QueryLen + SpecTokens

(* mutants: the mask is dropped; blocks of the mask tokens only.           *)
WindowUnmasked(i) == {tap \in 0 .. Taps - 1 : tap <= i}
WindowOfMasks(i)  == {tap \in 0 .. Taps - 1 : tap <= i /\ (tap = 0 \/ i % SpecTokens >= tap)}

(* The taps of _grouped_conv that count at row i: rows shifted in from     *)
(* before the tensor are zero, rows from before the block are masked.      *)
Window(i) == {tap \in 0 .. Taps - 1 : tap <= i /\ (tap = 0 \/ i % BlockSize >= tap)}

GroupedConv(x, delta) ==
  [i \in DOMAIN x |-> delta[i] \cup UNION {x[i - tap] : tap \in Window(i)}]

(* Each half of a layer is a convolution, the sublayer, a convolution; the *)
(* coefficients of both are projected from the first one's input.          *)
Prepare ==
  /\ stage \in {"attention_conv", "mlp_conv"}
  /\ reach' = GroupedConv(reach, reach) /\ coef' = reach
  /\ stage' = IF stage = "attention_conv" THEN "self_attn" ELSE "mlp"
  /\ UNCHANGED <<reqs, tailpad, edges>>

(* Attention is over the request's own context and query rows.             *)
DrafterAttn ==
  /\ stage = "self_attn"
  /\ reach' = [i \in DOMAIN reach |->
                 IF RequestOf(i) < reqs THEN UNION {reach[j] : j \in RowsOfReq(RequestOf(i))}
                                        ELSE reach[i]]
  /\ stage' = "attention_finish"
  /\ UNCHANGED <<reqs, tailpad, coef, edges>>

DrafterMlp == stage = "mlp" /\ stage' = "mlp_finish" /\ UNCHANGED <<reqs, tailpad, reach, coef, edges>>

Finish ==
  /\ stage \in {"attention_finish", "mlp_finish"}
  /\ reach' = GroupedConv(reach, coef)
  /\ stage' = IF stage = "attention_finish" THEN "mlp_conv" ELSE "select"
  /\ UNCHANGED <<reqs, tailpad, coef, edges>>

(* Candidates and unary logits of step l are those of the request's row l. *)
(* The edge scores of step l go from the anchor token, read back from the  *)
(* request's first input row, or from the candidates of step l - 1, to     *)
(* those of step l.                                                        *)
SelectorRow(b, l) == reach[b * QueryLen + l]
AnchorIndex(b)    == b * QueryLen
Predecessors(b, l) == IF l = 1 THEN {AnchorIndex(b)} ELSE SelectorRow(b, l - 1)
ScoreEdges ==
  /\ stage = "select"
  /\ edges' = [s \in (0 .. reqs - 1) \X (1 .. SpecTokens) |->
                 SelectorRow(s[1], s[2]) \cup Predecessors(s[1], s[2])]
  /\ stage' = "done"
  /\ UNCHANGED <<reqs, tailpad, reach, coef>>

ConvInit ==
  /\ reqs \in 1 .. MaxDraftReqs /\ tailpad \in 0 .. MaxGraphPad
  /\ reach = [i \in 0 .. RowsTotal - 1 |-> {i}]
  /\ coef = [i \in 0 .. RowsTotal - 1 |-> {}]
  /\ edges = <<>> /\ stage = "attention_conv"

ConvNext == Prepare \/ DrafterAttn \/ DrafterMlp \/ Finish \/ ScoreEdges
ConvSpec == ConvInit /\ [][ConvNext]_convVars
-----------------------------------------------------------------------------
(* A request's drafts depend on its own rows only, whoever it is batched   *)
(* with and however the batch is padded: no tap of a convolution, which    *)
(* runs over the flat batch, reaches into the request before it.           *)
DraftsOfOwnRows ==
  /\ \A b \in 0 .. reqs - 1 : \A i \in RowsOfReq(b) : reach[i] \cup coef[i] \subseteq RowsOfReq(b)
  /\ \A s \in DOMAIN edges : edges[s] \subseteq RowsOfReq(s[1])

(* The first convolution is causal and as wide as it was trained: row k of *)
(* a request sees exactly the Taps - 1 rows before it that the request has.*)
ConvWindowWhole ==
  stage = "self_attn" => \A b \in 0 .. reqs - 1 : \A i \in RowsOfReq(b) :
    reach[i] = {j \in RowsOfReq(b) : i - Taps < j /\ j <= i}
=============================================================================
