------------------------------ MODULE JitWarmup ------------------------------
(***************************************************************************)
(* What a worker compiles before it serves: the mHC kernels                *)
(* (patches/deepseek_v4_mhc_warmup.py) and those of speculative decoding   *)
(* (patches/spec_decode_rejection_warmup.py).  A kernel is compiled anew   *)
(* for every specialisation; a batch that needs one which was not warmed   *)
(* compiles it while serving.  A warm-up of the second file that raises is *)
(* skipped with a warning, an mHC one ends the boot; any of them returns   *)
(* without a word when the worker lacks an object it reads.                *)
(***************************************************************************)
EXTENDS Integers, Sequences, FiniteSets, FiniteSetsExt

CONSTANTS
  WarmSetups,  (* the workers that boot, see setup                         *)
  Scheduled,   (* tokens a batch may schedule for its longest request      *)
  Forwards,    (* tokens of a forward                                      *)
  Splits       (* number of tokens -> n_splits of the mHC kernels          *)

VARIABLES
  setup,     (* method, spec: num_speculative_tokens, model: model_type,   *)
             (* reject: rejection_sample_method, tokens: max_tokens,       *)
             (* capture: cudagraph_capture_sizes, tables: dimensions of    *)
             (* the block tables, absent: objects the worker lacks         *)
  due,       (* warm-ups still to run, in order                            *)
  compiled,  (* specialisations compiled before serving                    *)
  raised,    (* warm-ups that raised                                       *)
  batch      (* specialisations the last batch needed                      *)

warmVars == <<setup, due, compiled, raised, batch>>
-----------------------------------------------------------------------------
MinOf(a, b) == IF a < b THEN a ELSE b
Powers == {1, 2, 4, 8, 16, 32, 64, 128, 256}
NextPowerOf2(n) == Min({p \in Powers : p >= n})

AutoMax == 16384
Objects == {"layer", "head", "speculator", "groups", "tables", "states", "sampler", "buffers",
            "input_tables"}

ASSUME WarmAssumption ==
  /\ WarmSetups \subseteq [method : STRING, spec : Nat, model : STRING, reject : STRING,
                           tokens : Nat \ {0}, capture : SUBSET Nat, tables : Seq(Nat),
                           absent : SUBSET Objects]
  /\ Scheduled \subseteq Nat \ {0} /\ Forwards \subseteq Nat \ {0}

(* _prepare_dflash_inputs_kernel: BLOCK_SIZE of a batch, the next power of *)
(* 2 but 256 at most, and the ladder.                                      *)
QueryPerReq == 1 + setup.spec
PrepareBlock(scheduled) == NextPowerOf2(MinOf(256, scheduled + QueryPerReq))
Ladder == [i \in 1 .. 5 |-> PrepareBlock(<<1, 16, 32, 64, 128>>[i])]

(* mHC: standalone hc_pre always fuses the norm; the fused post and pre    *)
(* does for more than 16 tokens and is another kernel below.               *)
MhcPre(n)   == <<"mhc_pre", Splits[n]>>
MhcFused(n) == IF n > 16 THEN <<"mhc_pre", Splits[n]>> ELSE <<"mhc_fused", Splits[n]>>
MhcHead(n)  == <<"hc_head", Splits[n]>>

Candidates == {1, 2, 4, 8, 16, 32, 48, 64, 128, 256, 512, 1024, 2048, 4096, 8192, 16384}

(* mutant: the largest batch is left to the candidates.                    *)
MhcSizesOfCandidates == {s \in Candidates \cup setup.capture : s <= MinOf(setup.tokens, AutoMax)}

MhcSizes ==
  LET max == MinOf(setup.tokens, AutoMax)
  IN  {s \in Candidates \cup setup.capture \cup {max} : 1 <= s /\ s <= max}

(* What each warm-up compiles.  GLM runs hc_pre and the fused kernel, DSV4 *)
(* hc_pre and hc_post and the head; another model's layers have no mHC.    *)
MhcVariants ==
  CASE setup.model = "glm"  -> {MhcPre(n) : n \in MhcSizes} \cup {MhcFused(n) : n \in MhcSizes}
    [] setup.model = "dsv4" -> {MhcPre(n) : n \in MhcSizes}
                                 \cup {MhcHead(n) : n \in IF "head" \in setup.absent THEN {} ELSE MhcSizes}
    [] OTHER -> {}

(* Rejection: dtypes of target and draft logits and of idx_mapping, and    *)
(* the method.  The run-time shapes are warmed for the plain one only.     *)
LogitDtypes == {"model", "fp32"}
Reject(target, draft, idx, method) == <<"reject", target, draft, idx, method>>
PairVariants    == {Reject(t, d, "int32", setup.reject) : t \in LogitDtypes, d \in LogitDtypes}
RuntimeVariants == {Reject(t, "cache", "int64", "plain") : t \in LogitDtypes}
PrepareVariants == IF setup.method = "dflash" THEN {<<"prepare", Ladder[i]>> : i \in 1 .. 5} ELSE {}
CopyVariants    == {<<"copy", i>> : i \in {j \in DOMAIN setup.tables : setup.tables[j] = 2}}

Variants(w) == CASE w = "mhc" -> MhcVariants
                 [] w = "pairs" -> PairVariants
                 [] w = "runtime" -> RuntimeVariants
                 [] w = "prepare" -> PrepareVariants
                 [] w = "copy" -> CopyVariants

(* The objects a warm-up reads; without one it returns at once.            *)
Reads(w) == CASE w = "mhc" -> {"layer"}
              [] w = "pairs" -> {}
              [] w = "runtime" -> {"speculator", "sampler"}
              [] w = "prepare" -> {"speculator", "groups", "tables", "states", "sampler", "buffers"}
              [] w = "copy" -> {"input_tables"}
Returns(w) == Reads(w) \cap setup.absent # {}

SpecWarmups == IF setup.method = "none" THEN <<>>
               ELSE IF setup.spec = 0 THEN <<"prepare">>
               ELSE <<"pairs", "runtime", "prepare", "copy">>
-----------------------------------------------------------------------------
(* mutant: the first warm-up that raises ends them all.                    *)
WarmUntilRaise ==
  /\ due # <<>>
  /\ LET w == Head(due) IN
     \/ /\ compiled' = compiled \cup (IF Returns(w) THEN {} ELSE Variants(w))
        /\ due' = Tail(due) /\ UNCHANGED raised
     \/ /\ ~Returns(w) /\ raised' = raised \cup {w}
        /\ due' = <<>> /\ UNCHANGED compiled
  /\ UNCHANGED <<setup, batch>>

(* One warm-up: nothing at all, all it is for, or an exception: what it    *)
(* had compiled by then is not counted on.                                 *)
Warm ==
  /\ due # <<>>
  /\ LET w == Head(due) IN
     \/ /\ compiled' = compiled \cup (IF Returns(w) THEN {} ELSE Variants(w))
        /\ due' = Tail(due) /\ UNCHANGED raised
     \/ /\ ~Returns(w) /\ raised' = raised \cup {w}
        /\ due' = IF w = "mhc" THEN <<>> ELSE Tail(due)
        /\ UNCHANGED compiled
  /\ UNCHANGED <<setup, batch>>

(* A forward of n tokens, q of them of its longest request, whose target   *)
(* logits have dtype t.                                                    *)
Needs(n, q, t) ==
  (IF setup.model = "glm" THEN {MhcPre(n), MhcFused(n)} ELSE {})
    \cup (IF setup.model = "dsv4" THEN {MhcPre(n), MhcHead(n)} ELSE {})
    \cup (IF setup.method = "dflash" THEN {<<"prepare", PrepareBlock(q)>>} ELSE {})
    \cup (IF setup.method = "none" THEN {} ELSE CopyVariants)
    \cup (IF setup.method = "none" \/ setup.spec = 0 THEN {}
          ELSE {Reject(t, "cache", "int64", setup.reject)})

Serve(n, q, t) ==
  /\ due = <<>> /\ "mhc" \notin raised
  /\ q <= n /\ n <= setup.tokens
  /\ batch' = Needs(n, q, t)
  /\ UNCHANGED <<setup, due, compiled, raised>>

WarmInit ==
  /\ setup \in WarmSetups
  /\ due \in {<<"mhc">> \o SpecWarmups, Append(SpecWarmups, "mhc")}
  /\ compiled = {} /\ raised = {} /\ batch = {}

WarmNext == Warm \/ \E n \in Forwards, q \in Scheduled, t \in LogitDtypes : Serve(n, q, t)
WarmSpec == WarmInit /\ [][WarmNext]_warmVars
-----------------------------------------------------------------------------
(* What the second file leaves to serving: blocks between the ladder's     *)
(* lowest step and 32, of which there are none from 7 drafts on, rejection *)
(* by blocks or synthetic, and copies where nothing is drafted.            *)
LeftToServing ==
  {<<"prepare", b>> : b \in {p \in Powers : PrepareBlock(1) < p /\ p < 32}}
    \cup (IF setup.reject = "plain" THEN {}
          ELSE {Reject(t, "cache", "int64", setup.reject) : t \in LogitDtypes})
    \cup (IF setup.spec = 0 THEN CopyVariants ELSE {})

(* A warm-up that raised, or found an object missing.                      *)
Failed(w) == w \in raised \/ Returns(w)

(* No batch compiles a kernel of speculative decoding while serving,       *)
(* whatever its tokens and the warm-ups that failed before the one it      *)
(* needs, but those LeftToServing: as far as the files name what a kernel  *)
(* is specialised on.                                                      *)
SpecDecodeWarm ==
  \A v \in batch \ compiled : v[1] \in {"prepare", "reject", "copy"} =>
    v \in LeftToServing \/ \E w \in {"runtime", "prepare", "copy"} : Failed(w) /\ v \in Variants(w)

(* Nor an mHC kernel: the sizes warmed have one of every number of splits, *)
(* on each side of 16 tokens.                                              *)
MhcWarm ==
  \A v \in batch \ compiled :
    v[1] \in {"mhc_pre", "mhc_fused", "hc_head"} =>
      Returns("mhc") \/ (v[1] = "hc_head" /\ "head" \in setup.absent)
=============================================================================
