----------------------------- MODULE GateDispatch -----------------------------
(***************************************************************************)
(* GateLinear (patches/gate_linear.py): the router GEMM of the experts     *)
(* picks one of six kernels.  What the gate may use is settled when it is  *)
(* built, from the device, the shape, the bias and the weight's dtype; the *)
(* output dtype may be known only later (set_out_dtype), and some of it is *)
(* settled then.  Every forward chooses by the tokens and their dtype.     *)
(* With the patch a GB10 (family 120) may use cuBLAS.                      *)
(***************************************************************************)
EXTENDS Integers

CONSTANT GateTokens     \* numbers of tokens of a forward

Devices == {"hopper", "blackwell", "gb10", "rocm", "other"}
Dtypes  == {"bf16", "fp32"}
NoDtype == "unset"
(* The shape's kernels: the DSV3 one, the fp32 one, and whether the hidden *)
(* size is a multiple of 8.  GLM-5's (6144, 256) has all of them.          *)
Shapes  == {s \in [dsv3 : BOOLEAN, fp32 : BOOLEAN, by8 : BOOLEAN] : s.dsv3 \/ s.fp32 => s.by8}

VARIABLES
  args,    (* device, shape, bias, params_dtype, force: force_fp32_compute,*)
           (* bf16x3: enable_bf16x3_router_gemm, cute: ll_bf16 available   *)
  gate,    (* the gate's attributes                                        *)
  call     (* the last forward: tokens, their dtype, the output dtype set, *)
           (* the kernel, the dtypes it sums in and returns                *)

gateVars == <<args, gate, call>>

NoCall == [n |-> 0, x |-> NoDtype, want |-> NoDtype, by |-> "none", sums |-> NoDtype, out |-> NoDtype]

Specialized == args.device \in {"hopper", "blackwell"} /\ ~args.bias
WeightDtype == IF args.force /\ ~Specialized THEN "fp32" ELSE args.params

CublasCapable == args.device \in {"hopper", "blackwell", "gb10", "rocm"} /\ ~args.bias

(* What depends on the output dtype, at the time it is settled.            *)
AllowCublas(out) == CublasCapable /\ WeightDtype = "bf16" /\ out = "fp32"
AllowLL(out)     == Specialized /\ WeightDtype = "bf16" /\ out = "fp32" /\ args.cute

AllowDSV3   == Specialized /\ WeightDtype = "bf16" /\ args.shape.dsv3
AllowFp32   == ~args.bias /\ WeightDtype = "fp32" /\ args.device \in {"hopper", "blackwell"} /\ args.shape.fp32
AllowBf16x3 == ~args.bias /\ WeightDtype = "fp32" /\ args.device = "blackwell" /\ args.shape.by8 /\ args.bf16x3
DSV3MaxBatch == IF args.device = "hopper" THEN 16 ELSE 8

Attributes(out) == [out |-> out, cublas |-> AllowCublas(out), ll |-> AllowLL(out)]

(* mutant: set_out_dtype only records the dtype.                           *)
SetOutDtypeOnly(out) ==
  /\ gate.out = NoDtype
  /\ gate' = [gate EXCEPT !.out = out]
  /\ UNCHANGED <<args, call>>

(* A second call raises.                                                   *)
SetOutDtype(out) ==
  /\ gate.out = NoDtype
  /\ gate' = [out |-> out,
              cublas |-> gate.cublas \/ AllowCublas(out),
              ll |-> IF Specialized THEN AllowLL(out) ELSE gate.ll]
  /\ UNCHANGED <<args, call>>
-----------------------------------------------------------------------------
(* The kernel of a forward on n tokens of dtype x.                         *)
Kernel(g, n, x) ==
  IF g.ll /\ n <= 16 /\ x = "bf16" THEN "ll_bf16"
  ELSE IF AllowDSV3 /\ n <= DSV3MaxBatch THEN "dsv3"
  ELSE IF AllowFp32 /\ n <= 32 THEN "fp32"
  ELSE IF AllowBf16x3 /\ x = "bf16" THEN "bf16x3"
  ELSE IF AllowFp32 THEN "fp32_linear"
  ELSE IF g.cublas /\ x = "bf16" THEN "cublas"
  ELSE "linear"

(* mutant: the generic path leaves the input's dtype.                      *)
LinearRaw(g, x) == [sums |-> x, out |-> x]

(* F.linear wants one dtype: the input is cast to the weight's if an       *)
(* output dtype is set, and so is the output afterwards.                   *)
Linear(g, x) ==
  IF g.out # NoDtype THEN [sums |-> WeightDtype, out |-> g.out]
  ELSE IF x = WeightDtype THEN [sums |-> x, out |-> x]
  ELSE [sums |-> "mismatch", out |-> "mismatch"]

(* The dtype the logits are rounded to by the GEMM, and that they leave in.*)
Result(g, n, x) ==
  LET k == Kernel(g, n, x) IN
  CASE k \in {"ll_bf16", "fp32", "bf16x3", "fp32_linear", "cublas"} -> [sums |-> "fp32", out |-> "fp32"]
    [] k = "dsv3" -> [sums |-> "fp32", out |-> IF g.out = NoDtype THEN "bf16" ELSE g.out]
    [] k = "linear" -> Linear(g, x)

Forward(n, x) ==
  /\ call' = [n |-> n, x |-> x, want |-> gate.out, by |-> Kernel(gate, n, x),
              sums |-> Result(gate, n, x).sums, out |-> Result(gate, n, x).out]
  /\ UNCHANGED <<args, gate>>

GateArgs == [device : Devices, shape : Shapes, bias : BOOLEAN, params : Dtypes, force : BOOLEAN,
             bf16x3 : BOOLEAN, cute : BOOLEAN]
GateInit ==
  /\ args \in GateArgs
  /\ \E out \in Dtypes \cup {NoDtype} : gate = Attributes(out)
  /\ call = NoCall

GateNext ==
  \/ \E out \in Dtypes : SetOutDtype(out)
  \/ \E n \in GateTokens, x \in Dtypes : Forward(n, x)
GateSpec == GateInit /\ [][GateNext]_gateVars
-----------------------------------------------------------------------------
(* When the output dtype became known makes no difference: a gate told     *)
(* later may use exactly what one built with it may, on every device.      *)
DeferredAsBuilt == gate = Attributes(gate.out)

(* On the GB10 the router's logits leave in the dtype asked for, and a     *)
(* bf16 gate asked for fp32 logits sums bf16 tokens in fp32, not rounding  *)
(* them to bf16 first, for every number of tokens and however it was told. *)
Gb10LogitsExact ==
  args.device = "gb10" /\ call.want # NoDtype =>
    /\ call.out = call.want
    /\ call.want = "fp32" /\ call.x = "bf16" /\ ~args.bias => call.sums = "fp32"
=============================================================================
