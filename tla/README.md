# A verification project for the GLM-5.3-Flash 2x DGX Spark recipe

The repository serves GLM-5.3-Flash (W4A16) with the DFlash2 speculative drafter
on two DGX Spark nodes, tensor parallel over both. It holds Python files mounted
over those of a vLLM image (`patches/`, and two generators in `docs/`) and shell
scripts that boot, tune, bench and A/B-test the cluster. vLLM itself is not in
the repository: its scheduler, cache manager and CUDA kernels are modelled from
how the code here uses them, and marked external in PROJECT.json.

## The system

| Component | State it keeps | Operations | Hard parts | What makes it correct |
|---|---|---|---|---|
| kpool indexer, write side (`patches/sparse_attn_indexer_kpool.py` 57-102, 352-423, 592-737) | index-K cache (one entry per pool of `index_kpool` tokens), tail ring per request | compress a prefill, seed the tail, stash and compress decode tokens | pools cut by chunk, prefill/decode and verify-batch boundaries; rejected drafts; blocks reused; preemption | every complete pool of a committed prefix is compressed from its own keys; with one draft exactly, with more except for rejected drafts of the same request that ran over the ring |
| kpool indexer, read side (105-219, 435-590, 738-892) | `topk_indices_buffer`, shared by layers and forwards | reset, short prefill, scored prefill, decode top-k, expansion | padded decode grids, pool- and token-granular lengths, stale rows | no token attends outside its own sequence; tail always, short contexts whole |
| DFlash2 speculator (`patches/dflash2_speculator.py`) | `draft_logits` and cached candidates per state slot | propose, cache, verify | slots and row order change between proposal and verify | rejection reads the scores its own walk wrote |
| acceptance probe (same file, 406-575) | counters, the last proposal | classify first rejections | rows without all their drafts | counts are those of the rejections that happened |
| drafter model (`patches/qwen3_dflash2.py`) | none between forwards | grouped convolutions, attention, MLP, candidates, edges | the convolution knows no requests, only flat rows in blocks of 1 + K | a request's drafts depend on its own rows |
| hybrid prefix hit (`docs/patch_hybrid_prefix_hit.py`) | per-group hit lengths and blocks | fixed-point search over groups | a group left out of the minimum; EAGLE's dropped block | the hit is the longest reusable prefix; the drafter's blocks cover it or there are none |
| cluster boot (`start.sh`, `launch-*.sh`) | containers, images, env files and a generated overlay per node | start, restart, stop | every remote call may fail; nodes remember earlier boots | each thing a boot went on past costs its ranks one agreement, and nothing else does |
| unattended A/B (`docker/unattended-onward.sh`, `bench/bench_config.sh`) | `.env`, best result, result files | four trials, keep or drop | kills, failed benches, stale results | trials isolated, only measured wins kept |
| SM121 overlay generator (`docs/patch_sm121_mla.py`, run by `launch-*.sh`) | extracted and patched files, kept between launches | extract, patch, write, verify | kills anywhere, another image, a base indexer from the host | what is mounted is six patched files of this launch |
| GLM-5 stack (`patches/glm5next_model.py`) | residual streams and deferred post steps | forward on the ranks of a tensor-parallel group | `hc_post` deferred across layers, captures in between, padding chunks | equals the plain stack |
| GLM-5 weight loading (same file, 771-930 and 1130-1283) | parameters, halves of FP8 tensors that wait | load a tensor | any order; two tensors for one shard; a call per run of tensors; partial blocks | every shard its own data, once |
| router gate (`patches/gate_linear.py`) | what it may use, its output dtype | build, `set_out_dtype`, forward | part of the choice is settled late | logits in the dtype asked for, not rounded on the way |
| JIT warm-ups (`patches/spec_decode_rejection_warmup.py`, `patches/deepseek_v4_mhc_warmup.py`) | compiled kernels | warm | ladders of sizes; a warm-up that raises, or returns for want of an object | a batch compiles only what no warm-up is for |
| linear hook, build, host tools, benches | little or none | - | - | - |

They meet as follows. The scheduler hands the indexer batches that mix decode
and prefill rows; the write side fills the caches that the read side scores in
the same forward. The speculator's drafts become the verify batches the write
side stashes, and rejection decides which of them were committed. The drafter
window takes part in the prefix-hit search that decides where a request's
prefill starts. `start.sh` copies the checkout, `.env` included, to the worker
and starts one `launch-*.sh` per node, which mounts the patched files; the
unattended A/B edits `.env` and calls `start.sh` once per trial. The launch also
generates the SM121 overlay, which replaces the indexer by one that keeps a pool
less (`KpoolSelect`'s `trim`). The worker then loads the weights, builds the
gates and warms its kernels; in every engine step the prefix lookup precedes the
decoder stack, whose captured states feed the drafter. These steps hand results
on but share no state.

## Modules

| Module | Models | Checked by | Proofs |
|---|---|---|---|
| `KpoolTail` | the write side | `kpool_tail`, `kpool_source_ring` | `KpoolTailProofs` |
| `KpoolSpec` | abstract: the index its readers may assume | implemented by `KpoolTail` in `kpool_tail` | `KpoolTailProofs` |
| `KpoolSelect` | the read side | `serving_step`, `overlay_trim` | `KpoolSelectProofs` |
| `MhcStack` | the decoder stack's forward | `serving_step` | `ServingProofs` |
| `PlainStack` | abstract: layers applied one by one | implemented by `MhcStack` in `serving_step` | `ServingProofs` |
| `DrafterConv` | a drafter layer and the selector's rows | `serving_step` | `ServingProofs` |
| `HybridPrefixHit` | the prefix-cache lookup | `serving_step` | `ServingProofs` |
| `DFlashDraft` | speculator and probe | `draft_uniform`, `draft_mixed` | `DFlashDraftProofs` |
| `OverlayGen` | the overlay generator and its launches | `worker_boot`, `overlay_image` | `WorkerBootProofs` |
| `WeightLoad` | `load_weights` | `worker_boot` | `WorkerBootProofs` |
| `GateDispatch` | `GateLinear` | `worker_boot` | `WorkerBootProofs` |
| `JitWarmup` | both warm-up files and what serving needs | `worker_boot` | `WorkerBootProofs` |
| `ClusterBoot` | `start.sh`, `launch-*.sh` | `cluster_boot`, `cluster_ranks` | `ClusterBootProofs` |
| `UnattendedAB` | the A/B script | `ab_sweep`, `ab_keep` | `UnattendedABProofs` |

`SharedFacts` holds the lemmas on `%`, `\div`, sets of numbers, induction and
flattened sequences that several proofs cite.

The `MC*` modules give constants their values. `MCKpoolTail` runs `KpoolTail` in two
shapes, one of which rests. `MCServing` and `MCWorkerBoot`
besides put components that share no state into one TLC instance: `part` names
the component that runs in a behaviour, from any of its initial states, while
the others rest in a state in which their properties hold. A conjunction of
independent specifications would multiply their states and show nothing more,
as no action of one reads a variable of another.

Operators introduced by a comment "mutant" are faulty versions of the definition
that follows them, which the properties are tried against; no specification uses
them.

### KpoolTail

A key stands for the token it was computed from (request, position, committed
or rejected draft), a compressed entry for the tuple of its keys, so "the right
bytes" becomes "the right tuple". `Forward` is one forward of the model: the
decode rows of the running requests, any subset and each with up to `NumSpec`
drafts, and the prefill chunks in any order, handled as the code does: prefill
pools are compressed from the flat batch, the tail is seeded by comparing tail
blocks `KPool` tokens ahead in the flat batch, decode tokens are stashed in
position order and complete pools as they pass. `Preempt`, `Finish` and `Admit`
are vLLM's: a request loses its ring and may find a prefix of its pools cached
when it returns; the ring it gets holds another request's keys.

A ring has `KPool` slots, as in the source (`sparse_attn_indexer_kpool.py:700`),
so a verify batch runs over it: the key of a rejected draft at `y + KPool` takes
the slot of the committed key at `y`. What then holds is stated exactly.
`CommittedPoolsOwn`: in every complete pool each key is the pool's own or a
rejected draft of the same request, whole turns of the ring ahead and at most
`NumSpec - 1` past the pool's end; the last key is always its own.
`BoundaryKeysOwn` says the same of the slots that the decode kernel will read for
the unfinished pool. `CommittedPoolsFaithful`, which the code's comments ask for,
lets no draft in: it is true with one draft and false with two.

`KpoolSpec` is what the component promises: per running request, an append-only
index of its own complete pools, resumed after a preemption from at most what it
kept. Pools of the prompt hold exactly the prompt's keys, those that decoding
completes what `MayHold` allows. It has no rings, blocks or batches. `Promise` in
`KpoolTail` maps the index-K cache, cut at the committed prefix, to that index,
and `ImplementsIndex` is its specification under the map.

- `kpool_tail` (457,868 states) runs two instances, one at a time: two requests,
  two blocks, pools of two, prefill and decode mixed, preemption and prefix hits
  with two drafts; and the same with one draft, where `CommittedPoolsFaithful`
  holds (`OneDraftFaithful`).
- `kpool_source_ring`: the same claim with two drafts. A rejected draft overwrites
  a committed key, and the boundary pool is compressed from it. The recipe runs
  with 7 drafts and `index_kpool` 4, where most keys of a pool can be so replaced.

The bounds with two drafts: `KPool` 2, prefill chunks aligned to `Align` 4 and
lengths up to 6, so that a prompt comes in two chunks, the second ends inside a
pool, and decode completes that pool; `MaxBatch` 9 lets a whole chunk of one
request share a batch with a decode row, or a chunk of the other; two drafts are
the fewest that go once round the ring. With one draft, chunks of an odd length
and of another share a batch, so that seeding starts inside a ring.

### KpoolSelect

One forward over any batch: `Reset`, `Prefill`, `Decode` in the order of the
code, from a buffer full of stale indices. Rows are sets of positions. The
padded layout is computed as the code computes it (`repeat_interleave` and
`cumsum` become `ScatterIndices`, then `Scatter` and `Unpack`), and
`DecodeTopkSeqLens` has its two layouts. The metadata path that flattens decode
into one row per token is the case of requests with one token. Logits are a
strict order on pools, as `SelectAssumption` says; two orders are tried, newest
and oldest first.

`trim` is the change the SM121 overlay makes: rows of the buffer are `TopK`
instead of `TopK + KPool - 1` wide before rounding, so the last entry of a full
list is cut off (`patch_sm121_mla.py:415`). The kernels that write the list are
outside the repository and nothing in it states their order: the entry that goes
is the worst pool of the list (`trim = "worst"`) or the best (`"best"`). `TypeOK` says that what
is selected fits the row.

`ShortContextDense` is exact on both sides of the boundary: without the overlay a
context of up to `TopK` tokens is attended whole and a longer one in `TopK` tokens
and its tail; with it, on the scored path, a context of exactly `TopK` tokens or
more loses exactly one pool. Which pool is the other question. The patch says the
lowest-ranked one (39-41): `LowestPoolsDropped`. It holds of kernels that do not
list their best pool last (`RankedListsDropLowest`, in `serving_step`), and
`overlay_trim` shows that of others it does not.

`serving_step` covers every batch of up to two decode requests (four positions
around pool and top-k boundaries, one to three tokens) and up to two prefill
chunks (both sides of the short-prefill limit), with and without padding rows.
The whole of `serving_step`, with the next three modules, is 183,040 states.

### MhcStack and PlainStack

A row of a tensor is named by what it stands for (hidden state, streams, mix,
partial sum, of which token after how many sublayers), and an operator applied
to rows that do not belong together gives `Bad`. `Layer` is one decoder layer on
all ranks: with mHC the pending `hc_post` of the layer before is fused with this
layer's `hc_pre`, and its own is left pending, except in the last layer. With
sequence parallelism a rank holds a chunk of the tokens, padded to equal size.

`PlainStack` applies the layers one by one and takes the hidden states asked
for. `Materialised` runs what is deferred; under that map `ImplementsPlainStack`
is `PlainStack`'s specification. A capture in the middle of the stack thus sees
the state after its layer although the streams do not exist at that moment.
`serving_step` tries three layers on two ranks with up to three tokens, every
set of dense layers and of captures: a first, a middle and a last layer, and an
odd chunk that needs padding.

### DrafterConv

A row of the drafter's flat batch is the set of input rows it depends on, which
is all that matters for mixing requests. `Prepare` and `Finish` are the two
convolutions around attention and around the MLP, `ScoreEdges` the selector's
rows, the first of which scores edges from the anchor token, read back from the
request's first input row (`AnchorIndex`). Three requests, taps as wide as a request and up to two rows of graph
padding let a tap reach into the neighbour and past it.

### HybridPrefixHit

The loop over the groups is vLLM's, external and modelled as far as the patch
replaces its body: `Visit` is that body, `EagleIds` the groups the patch makes
EAGLE's. `cached` is arbitrary for mamba and the drafter's window, and
prefix-closed for full attention. `serving_step` tries every content up to three
blocks, the groups in four orders. Fairness: `WF_hitVars(HitNext)`, the loop is
one call that nothing interrupts; `LookupReturns` holds because a pass that does
not end the loop has shortened the hit.

### OverlayGen

One action per step of a launch with `GLM53_SM121_MLA=1`; the work directory
outlives launches. A file's text is its origin and what the patch finds in it
(`stock`, `drift`, `ported`, `unmarked`, `half`), or a text cut short by a kill:
before an anchor (`cut`), inside a statement after all of them (`torn`), or
between two statements (`short`). `MCOverlayGen` has an image whose `cuda.py`
lost an anchor and one with two of the changes already made.

- `worker_boot` (1,208,020 states with the next three modules): three launches,
  killed anywhere. `MountedPatched` and
  `AnchorErrorWritesNothing` hold. A `short` pristine file compiles, has its
  anchors, and is mounted: verify has nothing to know it by, and the property
  says so. A verify that fails leaves the rejected files where they are
  (`patch_sm121_mla.py:525-527`, against the docstring's 51-52); the launcher
  aborts, and the next launch writes all six again.
- `overlay_image`: pristine files are never refreshed, so a second image gets the
  first one's files.

### WeightLoad

A tensor is a layer, a projection and a part (whole, FP8 weight or its scales).
`LoadTensor` takes any tensor still to come: skipped, held until its other half
comes, or put in its shard; where the model keeps a projection in FP8 (a
`weight_scale_inv` in `params_dict`) both tensors have shards of their own.
Rows carry the scales they were multiplied by, by layer, block row and block
column, so a wrong pairing and a wrong block are seen. `LoadRaises` ends the load
where the scales do not broadcast to the weight. `NextCall` ends the call of
`load_weights` and its pending halves with it; when vLLM's loader does that is
external and may be at any point.

`worker_boot` loads two layers, one multi-token-prediction layer and three
projections in every order: one padded with rope rows and with a partial block of
rows, one with partial columns, and the indexer's; none, some or all as FP8, one
of them kept so. `ShardsRight` is about weights with whole columns, as the
checkpoint's are (multiples of 128), and any number of rows. With partial columns
the block size is computed too small (line 1265): mostly the scales then do not
broadcast and the load raises, which `LoadComplete` allows. Where the shapes still
agree a row takes the scales of another block (5 rows and 6 columns in blocks of
4: size 3), against the "tolerates a non-divisible (partial last block) shape" of
1190-1193; `ShardsRight` leaves partial columns out for that.

The kept branch is not one the model as built takes, since `quant_config` is None
for these projections (`glm5next_model.py:335`); it is modelled because the code
has it. If `kv_a` were kept together with NoPE's rope rows, the padding of 849-858
would give its scales as many rows more as its weight; `LoadAssumption` leaves
that pair out.

### GateDispatch

What the gate may use when it is built and what `set_out_dtype` adds to it,
then the choice of one of six kernels per forward. All devices, shapes, dtypes
and flags are tried, with numbers of tokens on both sides of each threshold.

### JitWarmup

A compiled kernel is a tuple of what it is specialised on; `Warm` runs the next
warm-up, which compiles its variants, returns at once because the worker lacks an
object it reads (`Reads`, `Returns`), or raises; `Serve` runs a batch. What a
batch needs (`Needs`) is external, from what the comments of both files name.

`SpecDecodeWarm`: a batch compiles a kernel of speculative decoding only if the
warm-up for it failed or it is one of `LeftToServing`: blocks between the ladder's
first and 32, the block and synthetic methods of rejection (the run-time shapes
are warmed for the plain one only, line 312), and the copies of a worker without
drafts. `worker_boot` tries 0, 1, 4, 7 and 15 drafts, every model type, both
orders of the two files, a missing object of each kind, and limits of a forward
that are and are not powers of two.

`LeftToServing` is not empty of blocks for every worker `DFLASH_TOKENS` allows:
with 4 drafts the ladder is 8, 32, 64, 128, 256, and a batch of 5 scheduled tokens
needs 16, against the file's 119-120 and 129. From 7 drafts on, which the recipe
runs, there is no gap.

`MhcWarm` is about one function `Splits` from tokens to numbers of splits that
changes only after a candidate size. The function is DeepGEMM's and nothing in
the repository shows its values, so this is model-checked for that one and not
proved. Two more limits: the rejection kernels are specialised here on what the
file names (dtypes and method), while the repository's README (108) measured one
`_rejection_kernel` compilation left on the first request, on something the file
does not name; and a warm-up that raised is taken to have compiled nothing.

### DFlashDraft

`GenerateDraft` proposes for a batch of slots, `Verify` samples and observes.
Logits are `High`, `Low` or `NegInf`: what matters is where they are finite and
which candidate is on top. `MixedBatches` allows rows with fewer drafts than
`NumSpec`, which vLLM schedules (a prefill row, or drafts cut to the budget).

- `draft_uniform`: all properties hold when every row has all its drafts
  (82,523 states): two requests, two slots, three rounds, so that a slot changes
  hands and rows change order.
- `draft_mixed`: with short rows the probe books a round that rejected nothing
  and reads the next row's token as its draft (`walk_hit_verify_reject`, which
  the source expects to stay at 0).

### ClusterBoot

One action per step of `start.sh`; an action's parameters are the outcomes of
its remote calls. `Launch` is `launch-*.sh` on a node; it may fail before it
touches anything, or (exit 3, lines 218-221) with the image and the coordinator
overlay settled and the old container still there. An env file is the image it
names and a revision of the rest; the operator may edit `.env` at any time, during
a boot as well. Containers remember the boot, env file, contents, image and
overlay they were started with, and whether they have already served a head
(`joined`): the tensor-parallel rendezvous cannot take a second one. `past` is a
ghost: what the running boot has gone on past (`skip`, `pull`, `sync`, `launch`,
`edit`).

- `cluster_boot`: two commands, an edit, one image besides the fallback, two
  revisions (2,734,661 states). `OkRanksAgree` gives each thing gone past its
  price: the head's rank is always this boot's own; the worker's is unless its
  launch was not seen to succeed; two own ranks have read the same contents unless
  the copy failed or `.env` was edited meanwhile; and then both run the image named
  unless the pull was skipped or did not bring it. `EveryBootEnds` holds as well.
- `cluster_ranks`: what the script's own words promise of the same failures,
  `RanksServeTheSame`, does not hold. TLC shows the shortest way: a failed pull on
  the worker reads as success and nothing is shipped. The other clauses fail each
  in its own way, longer by a step or more: the relaunch of the worker does not
  pass `ENV_FILE` (144); the check after it accepts an earlier boot's container
  (147); a failed copy leaves the worker on its old files (122); an edit reaches
  one rank only; and the coordinator overlay, generated once per node, is mounted
  over any later image, that of a relaunch in the same boot included (`launch-*.sh`
  170, against its 163-164).

Two commands are enough for everything a node remembers of an earlier one, two
polls for one that goes on and one that gives up. `MCClusterBoot` starts from two
env files of different revisions: equal ones only hide disagreements.

Fairness: `WF_vars(Script)`. `start.sh` is one process that does not wait for
anything but the calls it makes. `ConnectTimeout` bounds connecting; that an
established ssh session, a pull or `curl` returns is an assumption. No fairness
is assumed of the operator, of containers or of `/health`.

### UnattendedAB

One action per step of a trial; `Killed` ends the script anywhere, a failed
restart ends it because of `set -e`, and `RunAgain` starts it anew from whatever
`.env` it left, taking the image found there for the stock one. `SetTrial` chooses
which results of an earlier run are under the label. `served` is what each rank
was started from, each from its own node's `.env`, or from another image than
that names. Two ghosts separate what was decided from what was left behind:
`chosen` has the settings whose trial value the operator set or a run kept,
`clean` says that the run found no other trial value in `.env`.

- `ab_sweep`: two runs (9,120,643 states). `TrialIsolated`: in a run that
  started `clean`, while copies succeed and no node falls back, a trial is decided
  with both ranks running the trial, what was chosen, and the base of everything
  else. `KeptChainImproves`: while soaks are measured, each kept trial beats the
  baseline and all kept before it. Two soak speeds over a baseline of 4 with 25
  percent to beat: the first beats the baseline, the second the first, and equal
  ones lose.
- `ab_keep`: `KeepsOnlyMeasuredWins` fails first where a soak without a number lets
  the six-request aggregate, or nothing but an old file, win the comparison. Its
  other clauses fail too, in longer behaviours: after a run that died in the image
  trial (`set -e`, or a kill), a run that finishes drops the trial image and
  restores it, as its stock image is that one (such a run is not `clean`); and
  after the last trial is dropped the final restart does not copy `.env`, so the
  worker serves the dropped value. While a script stands ended in between, `.env`
  has the trial value; the property asks only what a run that finishes makes of it.

## What is proved

With TLAPS, for every value of the constants that the named assumptions allow:
all invariants of the passing runs but `MhcWarm`, both refinements, and the
measures that bound the two loops whose end is checked as liveness. A theorem under a condition
of its own names it.

| Component | Theorems | Condition | Inductive invariant |
|---|---|---|---|
| write side | `CommittedPoolsAreOwn`, `BoundaryKeysAreOwn`, `TypeCorrect`, `WriteSideImplementsIndex` | - | `IInv` |
| write side, exact pools | `OneDraftIsFaithful` | `NumSpec <= 1` | `IInv` |
| read side | `RowsAlwaysStayInSequence`, `TailsAreAttended`, `SelectionIsDense`, `RankedListsKeepBest`, `SelectTypeOK` | - | `SelectInv` |
| decoder stack | `StackIsPlain` | - | `StackInv` |
| drafter model | `DraftsStayOwn`, `WindowIsWhole` | - | `ConvInv` |
| prefix hit | `HitIsExact`, `DrafterAlwaysCovers`, `LookupAdvances` | - | `HitInv` |
| speculator, probe | `RejectionAlwaysReadsTheWalk`, `DraftTypeOK` | - | `DraftIInv`, `ProbeIInv` |
| probe's counts | `ProbeCountsAreTrue`, `WalkHitsAreAccepted` | `~MixedBatches` | `ProbeIInv` |
| overlay | `OverlayMountsPatched`, `AbortWritesNothing` | - | `OverlayInv` |
| weight loading | `ShardsAlwaysRight`, `LoadEndsComplete` | - | `LoadInv` |
| router gate | `DeferralMakesNoDifference`, `Gb10Exact` | - | `GateInv` |
| warm-ups | `SpecDecodeIsWarm` | - | `WarmInv` |
| cluster boot | `OkBootsAgree`, `BootTypeOK`, `BootsGetNearer` | - | `BootInv` |
| A/B | `TrialsAreIsolated`, `KeptTrialsImprove`, `ABTypeOK` | - | `ABInv` |

**Write side** (`KpoolTailProofs`), with the source's ring and any number of drafts.
`CommittedPoolsOwn` is not inductive: what a decode batch compresses into a pool
is the request's own only if its ring held no other keys, which is so only if
seeding or a stash put them there since the block changed hands. `IInv` therefore
adds to it: `BoundaryKeysOwn`; that running requests own different blocks
(`TailOwned`); that prefill progress is at a pool boundary until the prompt ends,
so that chunks begin at one (`PrefillAligned`); and that what a preempted request
may reuse is its own (`ReusableOwn`). The main steps are one per action; `Forward`
is split into what prefill compression, seeding, stashing and decode compression
leave in the two caches, each a lemma. How far a draft may run over the ring is
arithmetic: the next batch starts after the last committed token, so a rejected
draft in a slot of the boundary pool lies less than `NumSpec` past the committed
prefix, in a multiple of `KPool` from the key it replaced. `OneDraftIsFaithful`
reads off that with one draft that leaves no place; `kpool_source_ring` shows that
the condition cannot be dropped. `WriteSideImplementsIndex`: a batch leaves
complete entries alone and adds those the index allows (`BatchPools`); prefill
adds exact ones; the other actions only change how much of an index is held.

**Read side** (`KpoolSelectProofs`). `SelectInv` says what each row of the buffer
holds once the step that writes it has run: padding rows nothing, prefill rows
`PrefillRow`, decode rows `AttendRow` of their own length. Most of the proof is
about operators. `CumSumFacts` to `GridPlace` say which request and which offset
a flat row and a row of the padded grid belong to; from them `DecodeOutIs` shows
that scattering into the grid, computing there and unpacking gives the flat rows
back. `TopPoolsCount` to `RowSize` count what a row selects, which `SelectionIsDense`
and the width of the buffer need: the k best of n pools are k.

**Decoder stack** (`ServingProofs`). `StackIsPlain` is the refinement of
`PlainStack`: every layer of the ranks is a layer of the plain stack under
`Materialised`. `CarryHolds` is the invariant: after d layers every rank's rows
stand for the states after 2d sublayers or, inside an mHC stack, for what the
pending `hc_post` will turn into them; outside it nothing is pending. With
sequence parallelism a rank holds its own chunk: `ChunkIs` and `GatherIs` say
which rows, padding included, and `FlattenEqual` that gathering undoes chunking.
A capture is right because running what is pending gives the plain state at any
depth (`InvHidden`). Sequence parallelism is proved where `StackShapes` has it:
with mHC and without dense layers.

**Drafter model** (`ServingProofs`), under `ConvAssumption`. `ConvInv` adds to the
two properties that rows of requests and of padding are where they should be
and, before the first convolution, untouched. The step is arithmetic: a tap of
row `i` with `tap <= i % BlockSize` stays in the block, and blocks are requests
because `BlockSize` is `QueryLen`; `RowFacts` states that once.

**Prefix hit** (`ServingProofs`). `HitInv` relates the current hit to the groups
visited: no reusable prefix is longer (`NoneMissed`); the groups visited in a pass
that has shortened nothing agree (`VisitedAgree`), full attention for good
(`FullAgree`); since a verified drafter group was dropped, every group visited
agreed (`VerifiedAgree`), so that blocks it keeps are those of the final hit
(`KeptFinal`). The last two are what a later group that shortens the hit could
break: the drafter keeps blocks only at a visit that drops none, by then every
other group has agreed with the hit since the visit that did, and so none
shortens it any more. `LookupAdvances` needs no drafter group: a step goes on to
the next group, starts a pass with a strictly shorter hit, or returns.

**Speculator and probe** (`DFlashDraftProofs`). `DraftIInv` relates, for each slot,
`draft_logits` to the cached candidates (finite only there), and for each request
with pending drafts the cached candidates to its own proposal. `ProbeIInv` adds
that the probe's stash holds the candidates of the drafts now pending
(`StashFresh`) and that counts stay within the rounds. `ProbeCountsAreTrue` and
`WalkHitsAreAccepted` assume that every row has all its drafts, `~MixedBatches`;
`draft_mixed` shows the first wrong booking without it.

**Worker's boot** (`WorkerBootProofs`).
Overlay: what the files written so far hold (`WrittenSoFar`), that texts in hand
come from this launch's sources (`TextsMade`), and that nothing is written before
all six are patched (`NothingWrittenYet`).
Weights, under `LoadAssumption`: what is still to come of a projection is either
one whole tensor or halves, as the checkpoint stores it, so that nothing is
written twice (`OneForm`); both halves are outstanding or neither is, and they do
not wait side by side (`Paired`); once a shard is written nothing of it is to come
or waits (`WrittenAtEnd`); a shard is reported and, with whole columns, true, or
it is empty and something of it is outstanding (`ShardsTrue`); and a load has
failed only over partial blocks (`FailedOver`). `BlockSizeIsBlock` is the one
numeric fact: the block size computed from the number of scale columns is the
checkpoint's, if columns are a multiple of it; `WholeColumnsFit`, that the scales
then broadcast, whatever the rows.
Gate: `DeferredAsBuilt` is the invariant `Gb10Exact` needs, since the kernel
depends on both the late and the early part of the gate.
Warm-ups: each warm-up owed is still due, has failed or has compiled its variants
(`Accounted`), and a batch is served with none due (`Serving`). `LadderCovers`:
whatever the drafts, a batch's block is one of the ladder's or a power of two
between its first and 32; `NoGapFromSeven`: from 7 drafts on there is none.
`NeedsOwed` says of everything a batch needs which warm-up is for it.

**Cluster boot** (`ClusterBootProofs`). `Reached` says what a running boot has at
each step, given what it has gone past: the image it sourced is the env file's
(`Sourced`), after the copy the two nodes' env files are the same (`SameCopy`),
after the pulls they have the image (`HasImage`), and a rank of this boot runs the
contents its node has (`WorkerRank`, `HeadRank`). `Older` keeps containers of
earlier boots apart from it. `LaunchFacts` is what a launch leaves, its failures
included. `BootsGetNearer`: the steps left to the report, polls included, are a
natural number that each step of `start.sh` reduces and a dying container does not
change.

**Unattended A/B** (`UnattendedABProofs`). `HeadFollows` gives the head's `.env` by
what has been chosen, exactly in a run that started clean and as a lower bound in
others; `RanksFollow` carries it to the worker and to what the ranks were started
from, while copies succeed; `Measured` says that a decision rests on a soak of the
trial itself, and `BestIsBest` that a kept trial was compared with the best of all
before it.

### Induction and liveness

The library's induction theorems take an operator as a parameter, which the
provers here cannot use. `SetInduction` in `SharedFacts` states induction for
sets of numbers instead (a set that holds 0 and with each number the next one
holds them all), and from it follows what the recursive functions of the models
compute: `CumSum` (`CumSumFacts`) and, through the fold it is defined by, the
community modules' `FlattenSeq` (`FlattenSteps`, `FlattenEqual`).

Only model-checked: `MhcWarm`, for the reason given there, and the liveness
properties `EveryBootEnds` and `LookupReturns`.
The prover has no rule for fairness and ENABLED. What is proved of them is the
argument's other half, that neither loop can go on for ever (`BootsGetNearer`,
`LookupAdvances`); that a step can be taken until the end is TLC's part. The
deviations that the `violation` runs show are counterexamples and have no
theorem.

## Plan

1. Done: the modules and proofs above; every component with control of its own
   is modelled, in whole or in part, and every safety property that a passing run
   checks, `MhcWarm` excepted, is a theorem.
2. Next proofs: that the deviations the `violation` runs show are the only way
   out, as `OneDraftIsFaithful` and uniform batches do for two of them (a node whose
   image never changed mounts an overlay made from it; a run that no step ended
   leaves only chosen values in `.env`).
3. Next models: the probe's payload file and its readers in `bench/`, with a
   kill between two flushes; pipeline stages of `MhcStack`; two `start.sh` at a
   time, which the unattended script can cause.

## Not modelled

- The numbers themselves (quantisation, scores, attention), the walk's choice
  between equal scores, CUDA-graph capture and profiling runs, the MXFP4 cache
  path.
- `MhcStack` leaves out sequence parallelism with dense layers or without mHC.
  Dense layers get their sharded rows without a gather; GLM-5's launch does not
  use the combination and nothing in the repository says that it may.
- `docs/sparse_attn_indexer_kpool_sm121.py` is the kpool indexer again with two
  more comment lines; the map names `patches/` only.
- What the SM121 patches do inside attention: it is arithmetic, and what other
  modules meet of it is `trim`.
- The linear hook, which logs shapes and calls the original; the native build,
  host tools, download and validation, which call other programs and keep no
  state; load generators and recorded measurements.
- Concurrent invocations of the scripts, and the composition of the `docker run`
  command line.
- Tensor-parallel communication, except the collectives of `MhcStack`, which
  always succeed.
