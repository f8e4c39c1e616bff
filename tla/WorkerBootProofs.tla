-------------------------- MODULE WorkerBootProofs --------------------------
(***************************************************************************)
(* Proofs about what happens before a worker serves: the overlay the       *)
(* launcher generates (OverlayGen: any images, base indexers and number of *)
(* launches), the weights it loads (WeightLoad: any layers, projections,   *)
(* shapes, FP8 choices, and any order and grouping of the tensors), the    *)
(* router gate it settles (GateDispatch: any numbers of tokens), and the   *)
(* kernels it warms (JitWarmup: any sizes, limits and splits of a batch).  *)
(***************************************************************************)
EXTENDS OverlayGen, WeightLoad, GateDispatch, JitWarmup, SharedFacts, SequenceTheorems
-----------------------------------------------------------------------------
(* The overlay generator.                                                  *)

OverlayTypeOK ==
  /\ out \in [FileSet -> {out[f] : f \in FileSet}]
  /\ run.pc \in {"idle", "extract", "patch", "write", "verify"}
  /\ run.at \in DOMAIN Files
  /\ run = [pc |-> run.pc, at |-> run.at, base |-> run.base]

(* The texts in hand are those of this launch's sources.                   *)
TextsMade ==
  run.pc \in {"write", "verify"} => \A f \in FileSet : texts[f] = Patched(Source(f))

(* What is written so far is what was made.                                *)
WrittenSoFar ==
  /\ run.pc = "write" => \A i \in 1 .. run.at - 1 : out[Files[i]] = texts[Files[i]]
  /\ run.pc = "verify" => \A f \in FileSet : out[f] = texts[f]

NothingWrittenYet == run.pc \in {"extract", "patch"} => out = before

(* While the script runs nothing is mounted and no end is recorded.        *)
Running == run.pc # "idle" => exit = "none" /\ mounted = Nowhere

OverlayInv ==
  /\ OverlayTypeOK /\ TextsMade /\ WrittenSoFar /\ NothingWrittenYet /\ Running
  /\ MountedPatched /\ AnchorErrorWritesNothing

LEMMA FilesFacts ==
  /\ Len(Files) = 6 /\ DOMAIN Files = 1 .. 6
  /\ \A i \in 1 .. 6 : Files[i] \in FileSet
  /\ \A f \in FileSet : \E i \in 1 .. 6 : Files[i] = f
BY DEF Files, FileSet

(* A patched text comes from where its source does.                        *)
LEMMA PatchedFrom ==
  ASSUME NEW f \in FileSet
  PROVE  Patched(Source(f)).from \in {pristine[f].from} \cup (IF f = "indexer" THEN {"base"} ELSE {})
<1>1. Patched(Source(f)).from = Source(f).from
  BY DEF Patched, Text
<1>2. CASE f = "indexer" /\ run.base \notin {"none", "foreign"}
  BY <1>1, <1>2 DEF Source, Text
<1>3. CASE ~ (f = "indexer" /\ run.base \notin {"none", "foreign"})
  BY <1>1, <1>3 DEF Source
<1> QED BY <1>2, <1>3

LEMMA LaunchInv ==
  ASSUME OverlayInv, NEW v, NEW base, Launch(v, base)
  PROVE  OverlayInv'
<1>1. run' = [pc |-> "extract", at |-> 1, base |-> base] /\ out' = out /\ before' = out
      /\ exit' = "none" /\ mounted' = Nowhere
  BY DEF Launch
<1> QED BY <1>1, FilesFacts DEF OverlayInv, OverlayTypeOK, TextsMade, WrittenSoFar,
        NothingWrittenYet, Running, MountedPatched, AnchorErrorWritesNothing

(* A script that ends with neither "docker" nor "anchor", or without       *)
(* having written, leaves the invariant.                                   *)
LEMMA EndInv ==
  ASSUME OverlayInv, NEW e, End(e), run.pc # "idle", UNCHANGED <<before, mounted>>,
         out' \in [FileSet -> {out'[f] : f \in FileSet}],
         e \in {"docker", "anchor"} => out' = before
  PROVE  OverlayInv'
<1>1. run' = Idle /\ exit' = e /\ mounted' = Nowhere /\ before' = before
  BY DEF End, OverlayInv, Running
<1> QED BY <1>1, FilesFacts DEF Idle, OverlayInv, OverlayTypeOK, TextsMade, WrittenSoFar,
        NothingWrittenYet, Running, MountedPatched, AnchorErrorWritesNothing

LEMMA ExtractInv ==
  ASSUME OverlayInv, Extract
  PROVE  OverlayInv'
<1>1. out' = out /\ before' = before /\ exit' = exit /\ mounted' = mounted /\ run.pc = "extract"
  BY DEF Extract
<1>2. /\ run'.pc \in {"extract", "patch"} /\ run'.at \in 1 .. 6
      /\ run' = [pc |-> run'.pc, at |-> run'.at, base |-> run'.base]
  <2>1. run = [pc |-> "extract", at |-> run.at, base |-> run.base] /\ run.at \in 1 .. 6
    BY <1>1, FilesFacts DEF OverlayInv, OverlayTypeOK
  <2>2. CASE run.at < Len(Files)
    <3>1. run' = [run EXCEPT !.at = @ + 1]
      BY <2>2 DEF Extract, Next1
    <3>2. run' = [pc |-> "extract", at |-> run.at + 1, base |-> run.base]
      BY <2>1, <3>1
    <3> QED BY <2>1, <2>2, <3>2, FilesFacts
  <2>3. CASE ~ (run.at < Len(Files))
    <3>1. run' = [run EXCEPT !.pc = "patch", !.at = 1]
      BY <2>3 DEF Extract
    <3>2. run' = [pc |-> "patch", at |-> 1, base |-> run.base]
      BY <2>1, <3>1
    <3> QED BY <3>2
  <2> QED BY <2>2, <2>3
<1>3. mounted = Nowhere /\ exit = "none" /\ out = before
  BY <1>1 DEF OverlayInv, Running, NothingWrittenYet
<1> QED BY <1>1, <1>2, <1>3, FilesFacts DEF OverlayInv, OverlayTypeOK, TextsMade, WrittenSoFar,
        NothingWrittenYet, Running, MountedPatched, AnchorErrorWritesNothing

LEMMA PatchInv ==
  ASSUME OverlayInv, Patch
  PROVE  OverlayInv'
<1>1. CASE End("anchor") /\ UNCHANGED <<image, pristine, out, before, launches, mounted>>
  <2>1. out = before /\ run.pc # "idle" /\ out \in [FileSet -> {out[f] : f \in FileSet}]
    BY DEF Patch, OverlayInv, NothingWrittenYet, OverlayTypeOK
  <2> QED BY <1>1, <2>1, EndInv
<1>2. CASE /\ \A f \in FileSet : Anchored(Source(f))
           /\ texts' = [f \in FileSet |-> Patched(Source(f))]
           /\ run' = [run EXCEPT !.pc = "write", !.at = 1]
           /\ UNCHANGED <<image, pristine, out, before, launches, exit, mounted>>
  <2>1. run.pc = "patch"
    BY DEF Patch
  <2>2. run' = [pc |-> "write", at |-> 1, base |-> run.base]
    BY <1>2 DEF OverlayInv, OverlayTypeOK
  <2>3. \A f \in FileSet : Source(f)' = Source(f)
    BY <1>2, <2>2 DEF Source
  <2>4. TextsMade'
    BY <1>2, <2>3 DEF TextsMade, Patched
  <2>5. mounted' = Nowhere /\ exit' = "none"
    BY <1>2, <2>1 DEF OverlayInv, Running
  <2>6. OverlayTypeOK'
    <3>1. out' = out
      BY <1>2
    <3>2. out' \in [FileSet -> {out'[f] : f \in FileSet}]
      BY <3>1 DEF OverlayInv, OverlayTypeOK
    <3>3. run'.pc = "write" /\ run'.at = 1 /\ run'.base = run.base
      BY <2>2
    <3>4. run' = [pc |-> run'.pc, at |-> run'.at, base |-> run'.base]
      BY <2>2, <3>3
    <3> QED BY <3>2, <3>3, <3>4, FilesFacts DEF OverlayTypeOK
  <2>7. WrittenSoFar'
    BY <2>2 DEF WrittenSoFar
  <2>8. NothingWrittenYet' /\ Running' /\ MountedPatched' /\ AnchorErrorWritesNothing'
    BY <2>2, <2>5 DEF NothingWrittenYet, Running, MountedPatched, AnchorErrorWritesNothing
  <2> QED BY <2>4, <2>6, <2>7, <2>8 DEF OverlayInv
<1> QED BY <1>1, <1>2 DEF Patch

LEMMA WriteInv ==
  ASSUME OverlayInv, Write
  PROVE  OverlayInv'
<1>1. /\ run.pc = "write" /\ out' = [out EXCEPT ![Here] = texts[Here]]
      /\ pristine' = pristine /\ texts' = texts /\ before' = before
      /\ exit' = exit /\ mounted' = mounted
  BY DEF Write
<1>2. run.at \in 1 .. 6 /\ Here \in FileSet /\ Here = Files[run.at]
  BY FilesFacts DEF OverlayInv, OverlayTypeOK, Here
<1>3. \A f \in FileSet : out'[f] = IF f = Here THEN texts[f] ELSE out[f]
  BY <1>1, <1>2 DEF OverlayInv, OverlayTypeOK
<1>4. \A i \in 1 .. run.at : out'[Files[i]] = texts[Files[i]]
  BY <1>1, <1>2, <1>3, FilesFacts DEF OverlayInv, WrittenSoFar
<1>5. out' \in [FileSet -> {out'[f] : f \in FileSet}]
  BY <1>1 DEF OverlayInv, OverlayTypeOK
<1>6. mounted = Nowhere /\ exit = "none"
  BY <1>1 DEF OverlayInv, Running
<1>7. run'.base = run.base
  BY DEF Write, Next1, OverlayInv, OverlayTypeOK
<1>8. TextsMade'
  BY <1>1, <1>7 DEF OverlayInv, TextsMade, Source, Patched
<1>9. CASE run.at < 6
  <2>1. run' = [pc |-> "write", at |-> run.at + 1, base |-> run.base]
    BY <1>1, <1>9, FilesFacts DEF Write, Next1, OverlayInv, OverlayTypeOK
  <2>2. run'.at \in 1 .. 6 /\ run'.at - 1 = run.at
    BY <1>2, <1>9, <2>1
  <2>3. WrittenSoFar'
    BY <1>1, <1>4, <2>1, <2>2 DEF WrittenSoFar
  <2> QED BY <1>1, <1>5, <1>6, <1>8, <2>1, <2>2, <2>3, FilesFacts DEF OverlayInv, OverlayTypeOK,
        NothingWrittenYet, Running, MountedPatched, AnchorErrorWritesNothing
<1>10. CASE run.at = 6
  <2>1. run' = [pc |-> "verify", at |-> 1, base |-> run.base]
    <3>1. run' = [run EXCEPT !.pc = "verify", !.at = 1]
      BY <1>10, FilesFacts DEF Write
    <3> QED BY <3>1 DEF OverlayInv, OverlayTypeOK
  <2>2. WrittenSoFar'
    BY <1>1, <1>4, <1>10, <2>1, FilesFacts DEF WrittenSoFar
  <2> QED BY <1>1, <1>5, <1>6, <1>8, <2>1, <2>2, FilesFacts DEF OverlayInv, OverlayTypeOK,
        NothingWrittenYet, Running, MountedPatched, AnchorErrorWritesNothing
<1> QED BY <1>2, <1>9, <1>10

LEMMA VerifyInv ==
  ASSUME OverlayInv, Verify
  PROVE  OverlayInv'
<1>1. /\ run.pc = "verify" /\ run' = Idle /\ out' = out /\ pristine' = pristine /\ before' = before
      /\ exit' \in {"ok", "verify"}
  BY DEF Verify, End
<1>2. CASE Verified
  <2>1. mounted' = out
    BY <1>2 DEF Verify
  <2>2. ASSUME NEW f \in FileSet
        PROVE  /\ out[f].kind \in {"ported", "short"}
               /\ out[f].from \in {pristine[f].from} \cup (IF f = "indexer" THEN {"base"} ELSE {})
    <3>1. out[f] = Patched(Source(f))
      BY <1>1 DEF OverlayInv, WrittenSoFar, TextsMade
    <3>2. out[f].kind \in {"ported", "short"}
      BY <1>2 DEF Verified, Changed
    <3> QED BY <3>1, <3>2, PatchedFrom
  <2>3. MountedPatched'
    BY <1>1, <2>1, <2>2 DEF MountedPatched
  <2> QED BY <1>1, <2>3, FilesFacts DEF Idle, OverlayInv, OverlayTypeOK, TextsMade, WrittenSoFar,
        NothingWrittenYet, Running, AnchorErrorWritesNothing
<1>3. CASE ~ Verified
  <2>1. mounted' = Nowhere
    BY <1>1, <1>3 DEF Verify, OverlayInv, Running
  <2> QED BY <1>1, <2>1, FilesFacts DEF Idle, OverlayInv, OverlayTypeOK, TextsMade, WrittenSoFar,
        NothingWrittenYet, Running, MountedPatched, AnchorErrorWritesNothing
<1> QED BY <1>2, <1>3

LEMMA KilledInv ==
  ASSUME OverlayInv, Killed
  PROVE  OverlayInv'
<1>1. run.pc # "idle" /\ End("killed") /\ UNCHANGED <<before, mounted>>
  BY DEF Killed
<1>2. out' \in [FileSet -> {out'[f] : f \in FileSet}]
  <2>1. out' = out \/ out' = [out EXCEPT ![Here] = Text(texts[Here].from, "cut")]
    BY DEF Killed
  <2> QED BY <2>1 DEF OverlayInv, OverlayTypeOK
<1> QED BY <1>1, <1>2, EndInv

LEMMA InitOverlayInv == OverlayInit => OverlayInv
BY FilesFacts DEF OverlayInit, Idle, Nowhere, OverlayInv, OverlayTypeOK, TextsMade, WrittenSoFar,
   NothingWrittenYet, Running, MountedPatched, AnchorErrorWritesNothing

LEMMA NextOverlayInv == OverlayInv /\ [OverlayNext]_overlayVars => OverlayInv'
<1> SUFFICES ASSUME OverlayInv, [OverlayNext]_overlayVars PROVE OverlayInv'
  OBVIOUS
<1>1. CASE \E v \in Versions, b \in BaseKinds : Launch(v, b)
  BY <1>1, LaunchInv
<1>2. CASE DockerFails
  <2>1. /\ run.pc = "extract" /\ End("docker") /\ UNCHANGED <<before, mounted, out>>
    BY <1>2 DEF DockerFails
  <2>2. out = before /\ out \in [FileSet -> {out[f] : f \in FileSet}]
    BY <2>1 DEF OverlayInv, NothingWrittenYet, OverlayTypeOK
  <2> QED BY <2>1, <2>2, EndInv
<1>3. CASE UNCHANGED overlayVars
  BY <1>3 DEF overlayVars, OverlayInv, OverlayTypeOK, TextsMade, WrittenSoFar, Source,
     NothingWrittenYet, Running, MountedPatched, AnchorErrorWritesNothing
<1> QED BY <1>1, <1>2, <1>3, ExtractInv, PatchInv, WriteInv, VerifyInv, KilledInv DEF OverlayNext

(* Whatever the images, the bases and the launches killed before, a node   *)
(* mounts only files with all their changes that were made by this launch. *)
THEOREM OverlayMountsPatched == OverlaySpec => []MountedPatched
<1>1. OverlayInv => MountedPatched
  BY DEF OverlayInv
<1> QED BY <1>1, InitOverlayInv, NextOverlayInv, PTL DEF OverlaySpec

(* A launch that docker or an anchor stops has written nothing.            *)
THEOREM AbortWritesNothing == OverlaySpec => []AnchorErrorWritesNothing
<1>1. OverlayInv => AnchorErrorWritesNothing
  BY DEF OverlayInv
<1> QED BY <1>1, InitOverlayInv, NextOverlayInv, PTL DEF OverlaySpec
-----------------------------------------------------------------------------
(* Loading the weights.                                                    *)

AllTensors ==
  {t \in [layer : BaseLayers \cup SpecLayers, proj : Projs, part : {"bf16", "fp8", "scale"}] :
     t.part # "bf16" => t.layer \in BaseLayers /\ t.proj \in HalfProjs}
Halves == {t \in AllTensors : t.part # "bf16" /\ t.proj \notin ckpt.kept}
Unread == todo \cup pending \cup dropped      \* not yet in a shard

LoadTypeOK ==
  /\ ckpt \in Checkpoints
  /\ todo \subseteq AllTensors /\ pending \subseteq Halves /\ dropped \subseteq Halves
  /\ todo \cap pending = {} /\ todo \cap dropped = {} /\ pending \cap dropped = {}
  /\ writes \in [Shards -> {0, 1}]
  /\ shards \in [Shards -> {shards[s] : s \in Shards}]

(* A projection comes whole or as weight and scales, as the checkpoint     *)
(* stores it.                                                              *)
OneForm ==
  \A t \in Unread : t.layer \in BaseLayers => (t.part = "bf16" <=> t.proj \notin ckpt.fp8)

(* Both halves of a projection are read together: before, neither is, and  *)
(* they do not wait for each other.                                        *)
Paired ==
  /\ \A t \in Unread : t \in Halves => Other(t) \in Unread
  /\ \A t \in pending : Other(t) \notin pending

WrittenAtEnd ==
  \A s \in Slots : writes[s] = 1 => \A t \in todo \cup pending : Into(t) # s

ShardsTrue ==
  \A s \in Slots :
    IF shards[s] = Empty
    THEN \E t \in Unread : Into(t) = s
    ELSE (WholeCols(s[2]) => shards[s] = TrueShard(s)) /\ Param(s) \in reported

FailedOver ==
  failed => \E p \in ckpt.fp8 \ ckpt.kept :
              ~WholeCols(p) \/ (p = "wk" /\ RowsOf[p] % Block # 0)

LoadInv == LoadTypeOK /\ OneForm /\ Paired /\ WrittenAtEnd /\ ShardsTrue /\ FailedOver
-----------------------------------------------------------------------------
(* The block size computed from the scales of whole columns is the         *)
(* checkpoint's, and they fit.                                             *)
LEMMA BlockSizeIsBlock ==
  ASSUME NEW p \in Projs, WholeCols(p)
  PROVE  BlockSize(p) = Block
<1> DEFINE n == ColsOf[p]
<1>1. n \in Nat \ {0} /\ n % Block = 0 /\ Block \in Nat \ {0}
  BY LoadAssumption DEF WholeCols
<1>2. PICK c \in Nat : n = Block * c
  BY <1>1, Multiple
<1>3. c # 0
  BY <1>1, <1>2
<1>4. (n + Block - 1) \div Block = c
  <2>1. n + Block - 1 = Block * c + (Block - 1) /\ n + Block - 1 \in Nat /\ Block - 1 \in 0 .. Block - 1
    BY <1>1, <1>2
  <2> QED BY <1>1, <2>1, DivModUnique
<1>5. n \div c = Block
  <2>1. n = c * Block + 0 /\ 0 \in 0 .. c - 1
    BY <1>1, <1>2, <1>3
  <2> QED BY <1>1, <1>3, <2>1, DivModUnique
<1> QED BY <1>4, <1>5 DEF BlockSize, ScaleCols, CeilDiv

LEMMA WholeColumnsFit ==
  ASSUME NEW p \in Projs, WholeCols(p), p = "wk" => RowsOf[p] % Block = 0
  PROVE  ScalesFit(p)
BY BlockSizeIsBlock DEF ScalesFit, ScaleRows, ScaleCols, WholeCols

(* A shard with data is not empty, and the rope rows of none are none.     *)
LEMMA RowsNotEmpty ==
  ASSUME NEW p, NEW n \in Nat \ {0}, NEW rows, rows = [i \in 1 .. n |-> rows[i]]
  PROVE  PadRope(p, rows) # Empty /\ (KvRope = 0 => PadRope(p, rows) = rows)
<1>1. KvRope \in Nat
  BY LoadAssumption
<1> DEFINE S == {rows[i] : i \in 1 .. n} \cup {<<0>>}
<1>2. rows \in [1 .. n -> S]
  OBVIOUS
<1>3. rows \in Seq(S) /\ Len(rows) = n
  BY <1>1, <1>2
<1>4. Zeros \in Seq(S) /\ Len(Zeros) = KvRope
  <2>1. Zeros \in [1 .. KvRope -> S]
    BY DEF Zeros
  <2> QED BY <1>1, <2>1 DEF Zeros
<1>5. Len(rows \o Zeros) # 0 /\ (KvRope = 0 => rows \o Zeros = rows)
  BY <1>1, <1>3, <1>4
<1>6. Len(Empty) = 0
  BY DEF Empty
<1> QED BY <1>1, <1>3, <1>5, <1>6 DEF PadRope

LEMMA DequantTrue ==
  ASSUME NEW p \in Projs, NEW l \in BaseLayers, NEW scale, scale.layer = l,
         p \in ckpt.fp8 \ ckpt.kept
  PROVE  /\ PadRope(p, Dequant(p, scale)) # Empty
         /\ WholeCols(p) => PadRope(p, Dequant(p, scale)) = TrueShard(<<l, p, "weight">>)
<1>1. RowsOf[p] \in Nat \ {0}
  BY LoadAssumption
<1>2. PadRope(p, Dequant(p, scale)) # Empty
  BY <1>1, RowsNotEmpty DEF Dequant, Scaled
<1>3. ASSUME WholeCols(p) PROVE Dequant(p, scale) = Scaled(p, l, Block)
  BY <1>3, BlockSizeIsBlock DEF Dequant
<1> QED BY <1>2, <1>3 DEF TrueShard

LEMMA AsStoredTrue ==
  ASSUME LoadTypeOK, OneForm, NEW t \in todo, t.layer \in BaseLayers, ~IsHalf(t)
  PROVE  /\ PadRope(t.proj, AsStored(t.proj, t.part)) # Empty
         /\ PadRope(t.proj, AsStored(t.proj, t.part)) = TrueShard(Into(t))
<1>1. t \in AllTensors /\ t \in Unread /\ t.proj \in Projs /\ t.part \in {"bf16", "fp8", "scale"}
  BY DEF LoadTypeOK, Unread, AllTensors
<1>2. t.part = "bf16" \/ t.proj \in ckpt.kept
  BY <1>1 DEF IsHalf, AllTensors
<1>3. t.part = "bf16" <=> t.proj \notin ckpt.fp8
  BY <1>1 DEF OneForm
<1>4. RowsOf[t.proj] \in Nat \ {0} /\ ScaleRows(t.proj) \in Nat \ {0}
  <2>1. RowsOf[t.proj] \in Nat \ {0} /\ Block \in Nat \ {0}
    BY <1>1, LoadAssumption
  <2>2. PICK r \in Nat \ {0} : r = RowsOf[t.proj]
    BY <2>1
  <2> DEFINE y == r + Block - 1
  <2>3. y \in Nat /\ y >= Block
    BY <2>1
  <2>4. y % Block \in 0 .. Block - 1 /\ y \div Block \in Nat /\ y = Block * (y \div Block) + (y % Block)
    BY <2>1, <2>3, DivMod
  <2>5. y \div Block # 0
    <3> SUFFICES ASSUME y \div Block = 0 PROVE FALSE
      OBVIOUS
    <3>1. Block * (y \div Block) = 0
      BY <2>1
    <3> HIDE DEF y
    <3> QED BY <2>1, <2>3, <2>4, <3>1
  <2> QED BY <2>1, <2>2, <2>4, <2>5 DEF ScaleRows, CeilDiv
<1> DEFINE n == IF t.part = "scale" THEN ScaleRows(t.proj) ELSE RowsOf[t.proj]
           rows == AsStored(t.proj, t.part)
<1>5. n \in Nat \ {0} /\ rows = [i \in 1 .. n |-> rows[i]]
  BY <1>4 DEF AsStored
<1>6. PadRope(t.proj, rows) # Empty /\ (KvRope = 0 => PadRope(t.proj, rows) = rows)
  BY <1>5, RowsNotEmpty
<1>7. CASE t.part = "bf16"
  <2>1. Into(t) = <<t.layer, t.proj, "weight">> /\ t.proj \notin ckpt.fp8
    BY <1>3, <1>7 DEF Into
  <2> QED BY <1>6, <1>7, <2>1 DEF TrueShard
<1>8. CASE t.part = "fp8"
  <2>1. Into(t) = <<t.layer, t.proj, "weight">> /\ t.proj \in ckpt.kept
    BY <1>2, <1>8 DEF Into
  <2>2. rows = AsStored(t.proj, "bf16")
    BY <1>8 DEF AsStored
  <2> QED BY <1>6, <2>1, <2>2 DEF TrueShard
<1>9. CASE t.part = "scale"
  <2>1. Into(t) = <<t.layer, t.proj, "scale">> /\ t.proj \in ckpt.kept
    BY <1>2, <1>9 DEF Into
  <2>2. TrueShard(Into(t)) = rows
    BY <1>9, <2>1 DEF TrueShard
  <2>3. t.proj = "kv_a" => KvRope = 0
    BY <2>1, LoadAssumption DEF LoadTypeOK
  <2>4. PadRope(t.proj, rows) = rows
    BY <1>6, <2>3 DEF PadRope
  <2> QED BY <1>6, <2>2, <2>4
<1> QED BY <1>1, <1>7, <1>8, <1>9

(* The other half, and that a shard made of halves has no third.           *)
LEMMA OtherFacts ==
  ASSUME NEW t \in Halves
  PROVE  /\ Other(t) \in Halves /\ Other(t) # t /\ Other(Other(t)) = t
         /\ Into(t) = <<t.layer, t.proj, "weight">> /\ Into(Other(t)) = Into(t)
         /\ Other(t).layer = t.layer
         /\ \A u \in Halves : Into(u) = Into(t) => u = t \/ u = Other(t)
         /\ IsHalf(t) /\ t.layer \in BaseLayers /\ t.proj \in Projs
<1>1. /\ t = [layer |-> t.layer, proj |-> t.proj, part |-> t.part]
      /\ t.part \in {"fp8", "scale"} /\ t.layer \in BaseLayers /\ t.proj \in HalfProjs /\ t.proj \in Projs
      /\ t.proj \notin ckpt.kept
  BY DEF Halves, AllTensors
<1>2. Other(t) = [layer |-> t.layer, proj |-> t.proj,
                  part |-> IF t.part = "scale" THEN "fp8" ELSE "scale"]
  BY <1>1 DEF Other
<1>3. Other(t) \in Halves
  BY <1>1, <1>2 DEF Halves, AllTensors
<1>4. Other(t) # t /\ Other(t).layer = t.layer
  BY <1>1, <1>2
<1>5. Other(Other(t)) = [layer |-> t.layer, proj |-> t.proj, part |-> t.part]
  <2>1. \A u : Other(u) = [u EXCEPT !.part = IF u.part = "scale" THEN "fp8" ELSE "scale"]
    BY DEF Other
  <2> QED BY <1>1, <1>2, <2>1
<1>6. \A u \in Halves : Into(u) = <<u.layer, u.proj, "weight">>
  BY DEF Halves, Into
<1>7. ASSUME NEW u \in Halves, Into(u) = Into(t)
      PROVE  u = t \/ u = Other(t)
  <2>0. u.layer = t.layer /\ u.proj = t.proj
    BY <1>6, <1>7
  <2>1. u = [layer |-> t.layer, proj |-> t.proj, part |-> u.part] /\ u.part \in {"fp8", "scale"}
    BY <2>0 DEF Halves, AllTensors
  <2>2. CASE u.part = t.part
    BY <1>1, <2>1, <2>2
  <2>3. CASE u.part # t.part
    BY <1>1, <1>2, <2>1, <2>3
  <2> QED BY <2>2, <2>3
<1>8. Into(Other(t)) = Into(t)
  BY <1>2, <1>3, <1>6
<1> QED BY <1>1, <1>3, <1>4, <1>5, <1>6, <1>7, <1>8 DEF IsHalf

(* Every tensor of the model goes to a slot; one loaded whole has its slot *)
(* to itself.                                                              *)
LEMMA IntoSlot ==
  ASSUME NEW t \in AllTensors, t.layer \in BaseLayers
  PROVE  Into(t) \in Slots
BY DEF Into, Slots, Shards, AllTensors

LEMMA WholeAlone ==
  ASSUME LoadTypeOK, OneForm, NEW t \in Unread, t.layer \in BaseLayers, ~IsHalf(t),
         NEW u \in Unread, Into(u) = Into(t)
  PROVE  u = t
<1>1. t \in AllTensors /\ u \in AllTensors
  BY DEF LoadTypeOK, Unread, Halves
<1>2. u.layer = t.layer /\ u.proj = t.proj
  BY DEF Into
<1>3. (t.part = "bf16" <=> t.proj \notin ckpt.fp8) /\ (u.part = "bf16" <=> u.proj \notin ckpt.fp8)
  BY <1>2 DEF OneForm
<1>4. t.part = "bf16" \/ t.proj \in ckpt.kept
  BY <1>1 DEF IsHalf, AllTensors
<1>5. u.part = t.part
  <2>1. t.part \in {"bf16", "fp8", "scale"} /\ u.part \in {"bf16", "fp8", "scale"}
    BY <1>1 DEF AllTensors
  <2>2. CASE t.part = "bf16"
    BY <1>2, <1>3, <2>2
  <2>3. CASE t.part # "bf16"
    <3>1. u.part # "bf16" /\ t.proj \in ckpt.kept /\ u.proj \in ckpt.kept
      BY <1>2, <1>3, <1>4, <2>3
    <3> QED BY <2>1, <2>3, <3>1 DEF Into
  <2> QED BY <2>2, <2>3
<1>6. /\ u = [layer |-> u.layer, proj |-> u.proj, part |-> u.part]
      /\ t = [layer |-> t.layer, proj |-> t.proj, part |-> t.part]
  BY <1>1 DEF AllTensors
<1> QED BY <1>2, <1>5, <1>6
-----------------------------------------------------------------------------
(* What does not depend on the load.                                       *)
LEMMA SameCheckpoint ==
  ASSUME ckpt' = ckpt
  PROVE  /\ Halves' = Halves /\ Slots' = Slots
         /\ \A t : (Into(t))' = Into(t)
         /\ \A s : (TrueShard(s))' = TrueShard(s)
BY DEF Halves, Slots, Into, TrueShard

(* What writing a true shard does, once nothing of it is left to come.     *)
LEMMA PutShardInv ==
  ASSUME LoadInv, NEW t \in todo, t.layer \in BaseLayers, NEW rows, rows # Empty,
         WholeCols(t.proj) => rows = TrueShard(Into(t)),
         PutShard(Into(t), rows), UNCHANGED <<ckpt, failed, dropped>>,
         todo' = todo \ {t}, pending' \subseteq pending,
         \A u \in todo' \cup pending' : Into(u) # Into(t),
         \A u \in Unread : u \in Unread' \/ Into(u) = Into(t),
         \A u \in Unread' : u \in Halves => Other(u) \in Unread'
  PROVE  LoadInv'
<1> DEFINE s == Into(t)
<1>1. /\ shards' = [shards EXCEPT ![s] = rows]
      /\ writes' = [writes EXCEPT ![s] = writes[s] + 1]
      /\ reported' = reported \cup {Param(s)}
  BY DEF PutShard
<1>2. s \in Slots /\ s \in Shards /\ writes[s] = 0 /\ s[2] = t.proj
  <2>1. s \in Slots /\ s \in Shards
    BY IntoSlot DEF LoadInv, LoadTypeOK, Slots
  <2>2. writes[s] # 1
    BY <2>1 DEF LoadInv, WrittenAtEnd
  <2> QED BY <2>1, <2>2 DEF LoadInv, LoadTypeOK, Into
<1>3. writes' = [writes EXCEPT ![s] = 1] /\ writes' \in [Shards -> {0, 1}]
  BY <1>1, <1>2 DEF LoadInv, LoadTypeOK
<1>4. \A r \in Shards : shards'[r] = IF r = s THEN rows ELSE shards[r]
  BY <1>1, <1>2 DEF LoadInv, LoadTypeOK
<1>5. Unread' \subseteq Unread /\ todo' \subseteq todo
  BY DEF Unread
<1>6. Halves' = Halves /\ Slots' = Slots /\ \A u : (Into(u))' = Into(u)
  BY SameCheckpoint
<1>7. \A r : (TrueShard(r))' = TrueShard(r)
  BY SameCheckpoint
<1>8. LoadTypeOK'
  <2>1. shards' \in [Shards -> {shards'[r] : r \in Shards}]
    BY <1>1 DEF LoadInv, LoadTypeOK
  <2> QED BY <1>3, <1>6, <2>1 DEF LoadInv, LoadTypeOK
<1>9. OneForm'
  BY <1>5 DEF LoadInv, OneForm
<1>10. Paired'
  BY <1>6 DEF LoadInv, Paired, Other
<1>11. WrittenAtEnd'
  <2> SUFFICES ASSUME NEW r \in Slots, writes'[r] = 1, NEW u \in todo' \cup pending'
               PROVE  Into(u) # r
    BY <1>6 DEF WrittenAtEnd
  <2>1. CASE r = s
    BY <2>1
  <2>2. CASE r # s
    <3>1. writes[r] = 1
      BY <1>2, <1>3, <2>2 DEF LoadInv, LoadTypeOK, Slots
    <3> QED BY <3>1, <1>5 DEF LoadInv, WrittenAtEnd
  <2> QED BY <2>1, <2>2
<1>12. ShardsTrue'
  <2> SUFFICES ASSUME NEW r \in Slots
               PROVE  IF shards'[r] = Empty
                      THEN \E u \in Unread' : Into(u) = r
                      ELSE (WholeCols(r[2]) => shards'[r] = TrueShard(r)) /\ Param(r) \in reported'
    BY <1>6, <1>7 DEF ShardsTrue
  <2>1. CASE r = s
    BY <1>1, <1>2, <1>4, <2>1
  <2>2. CASE r # s
    <3>1. shards'[r] = shards[r]
      BY <1>4, <2>2 DEF Slots
    <3>2. \A u \in Unread : Into(u) = r => u \in Unread'
      BY <2>2
    <3> QED BY <1>1, <3>1, <3>2 DEF LoadInv, ShardsTrue
  <2> QED BY <2>1, <2>2
<1>13. FailedOver'
  BY DEF LoadInv, FailedOver
<1> QED BY <1>8, <1>9, <1>10, <1>11, <1>12, <1>13 DEF LoadInv

LEMMA SkipInv ==
  ASSUME LoadInv, NEW t \in todo, LoadTensor(t), Skip(t)
  PROVE  LoadInv'
<1>1. /\ todo' = todo \ {t} /\ t.layer \in SpecLayers
      /\ UNCHANGED <<ckpt, failed, pending, shards, reported, dropped, writes>>
  BY DEF LoadTensor, Skip, Nothing
<1>2. t.layer \notin BaseLayers /\ t \notin Halves
  BY <1>1, LoadAssumption DEF LoadInv, LoadTypeOK, AllTensors, Halves
<1>3. Unread' \subseteq Unread /\ Unread \subseteq Unread' \cup {t}
  BY <1>1 DEF Unread
<1>4. Halves' = Halves /\ Slots' = Slots /\ (\A u : (Into(u))' = Into(u))
      /\ \A s : (TrueShard(s))' = TrueShard(s)
  BY <1>1, SameCheckpoint
<1>5. LoadTypeOK'
  BY <1>1, <1>4 DEF LoadInv, LoadTypeOK
<1>6. OneForm'
  BY <1>1, <1>3 DEF LoadInv, OneForm
<1>7. Paired'
  <2>1. ASSUME NEW u \in Unread', u \in Halves PROVE Other(u) \in Unread'
    <3>1. Other(u) \in Unread /\ Other(u) \in Halves
      BY <1>3, <2>1, OtherFacts DEF LoadInv, Paired
    <3> QED BY <1>2, <1>3, <3>1
  <2> QED BY <1>1, <1>4, <2>1 DEF LoadInv, Paired, Other
<1>8. WrittenAtEnd'
  BY <1>1, <1>4 DEF LoadInv, WrittenAtEnd
<1>9. ShardsTrue'
  <2>1. \A s \in Slots : Into(t) # s
    BY <1>2 DEF Slots, Shards, Into
  <2>2. \A s \in Slots : (\E u \in Unread : Into(u) = s) => \E u \in Unread' : Into(u) = s
    BY <1>3, <2>1
  <2> QED BY <1>1, <1>4, <2>2 DEF LoadInv, ShardsTrue
<1>10. FailedOver'
  BY <1>1 DEF LoadInv, FailedOver
<1> QED BY <1>5, <1>6, <1>7, <1>8, <1>9, <1>10 DEF LoadInv

LEMMA LoadHalfInv ==
  ASSUME LoadInv, NEW t \in todo, LoadTensor(t), LoadHalf(t)
  PROVE  LoadInv'
<1>1. todo' = todo \ {t} /\ UNCHANGED <<ckpt, failed, dropped>>
  BY DEF LoadTensor
<1>2. t \in Halves /\ t.layer \in BaseLayers /\ t.proj \in Projs /\ IsHalf(t)
  BY DEF LoadHalf, IsHalf, LoadInv, LoadTypeOK, Halves, AllTensors
<1>3. /\ Other(t) \in Halves /\ Other(t) # t /\ Other(Other(t)) = t
      /\ Into(t) = <<t.layer, t.proj, "weight">> /\ Into(Other(t)) = Into(t)
      /\ Other(t).layer = t.layer
      /\ \A u \in Halves : Into(u) = Into(t) => u = t \/ u = Other(t)
  BY <1>2, OtherFacts
<1>4. t \notin pending /\ t \notin dropped /\ t \in Unread
  BY DEF LoadInv, LoadTypeOK, Unread
<1>5. t.proj \in ckpt.fp8 \ ckpt.kept
  BY <1>2, <1>4 DEF LoadInv, OneForm, Halves
<1>6. CASE Other(t) \in pending
  <2> DEFINE scale == IF t.part = "scale" THEN t ELSE Other(t)
             rows == PadRope(t.proj, Dequant(t.proj, scale))
  <2>1. pending' = pending \ {Other(t)} /\ PutShard(Into(t), rows)
    BY <1>6 DEF LoadHalf, Join
  <2>2. rows # Empty /\ (WholeCols(t.proj) => rows = TrueShard(Into(t)))
    <3>1. scale.layer = t.layer
      BY <1>3
    <3> QED BY <1>2, <1>3, <1>5, <3>1, DequantTrue
  <2>3. Other(t) \notin todo /\ Other(t) \notin dropped
    BY <1>6 DEF LoadInv, LoadTypeOK
  <2>4. ASSUME NEW u \in todo' \cup pending', Into(u) = Into(t) PROVE FALSE
    <3>1. u # t /\ u # Other(t) /\ u \in Unread
      BY <1>1, <1>4, <2>1, <2>3 DEF Unread
    <3>2. u \in Halves
      <4>1. u \in AllTensors /\ u.layer = t.layer /\ u.proj = t.proj
        BY <2>4, <3>1 DEF LoadInv, LoadTypeOK, Unread, Halves, Into
      <4>2. u.part # "bf16"
        BY <1>2, <1>5, <3>1, <4>1 DEF LoadInv, OneForm
      <4> QED BY <1>5, <4>1, <4>2 DEF Halves
    <3> QED BY <1>3, <2>4, <3>1, <3>2
  <2>5. Unread' = Unread \ {t, Other(t)}
    BY <1>1, <1>4, <2>1, <2>3 DEF Unread
  <2>6. \A u \in Unread : u \in Unread' \/ Into(u) = Into(t)
    BY <1>3, <2>5
  <2>7. ASSUME NEW u \in Unread', u \in Halves PROVE Other(u) \in Unread'
    <3>1. u \in Unread /\ u # t /\ u # Other(t)
      BY <2>5, <2>7
    <3>2. Other(u) \in Unread /\ Other(Other(u)) = u
      BY <2>7, <3>1, OtherFacts DEF LoadInv, Paired
    <3>3. Other(u) # t /\ Other(u) # Other(t)
      BY <1>3, <3>1, <3>2
    <3> QED BY <2>5, <3>2, <3>3
  <2>8. pending' \subseteq pending
    BY <2>1
  <2> HIDE DEF rows
  <2> QED BY <1>1, <1>2, <2>1, <2>2, <2>4, <2>6, <2>7, <2>8, PutShardInv
<1>7. CASE Other(t) \notin pending
  <2>1. pending' = pending \cup {t} /\ UNCHANGED <<shards, writes, reported>>
    BY <1>7 DEF LoadHalf, Nothing
  <2>2. Unread' = Unread
    BY <1>1, <2>1 DEF Unread
  <2>3. Halves' = Halves /\ Slots' = Slots /\ (\A u : (Into(u))' = Into(u))
        /\ \A s : (TrueShard(s))' = TrueShard(s)
    BY <1>1, SameCheckpoint
  <2>4. LoadTypeOK'
    BY <1>1, <1>2, <1>4, <2>1, <2>3 DEF LoadInv, LoadTypeOK
  <2>5. OneForm'
    BY <1>1, <2>2 DEF LoadInv, OneForm
  <2>6. Paired'
    <3>1. ASSUME NEW u \in pending' PROVE Other(u) \notin pending'
      <4>1. CASE u = t
        BY <1>3, <1>7, <2>1, <4>1
      <4>2. CASE u # t
        <5>1. u \in pending /\ u \in Halves
          BY <2>1, <4>2 DEF LoadInv, LoadTypeOK
        <5>2. Other(u) \notin pending /\ Other(Other(u)) = u
          BY <5>1, OtherFacts DEF LoadInv, Paired
        <5>3. Other(u) # t
          BY <1>7, <5>1, <5>2
        <5> QED BY <2>1, <5>2, <5>3
      <4> QED BY <4>1, <4>2
    <3> QED BY <2>2, <2>3, <3>1 DEF LoadInv, Paired, Other
  <2>7. WrittenAtEnd'
    BY <1>1, <2>1, <2>3 DEF LoadInv, WrittenAtEnd
  <2>8. ShardsTrue'
    BY <2>1, <2>2, <2>3 DEF LoadInv, ShardsTrue
  <2>9. FailedOver'
    BY <1>1 DEF LoadInv, FailedOver
  <2> QED BY <2>4, <2>5, <2>6, <2>7, <2>8, <2>9 DEF LoadInv
<1> QED BY <1>6, <1>7

LEMMA LoadWholeInv ==
  ASSUME LoadInv, NEW t \in todo, LoadTensor(t), LoadWhole(t)
  PROVE  LoadInv'
<1>1. todo' = todo \ {t} /\ pending' = pending /\ UNCHANGED <<ckpt, failed, dropped>>
  BY DEF LoadTensor, LoadWhole
<1>2. t.layer \in BaseLayers /\ ~IsHalf(t) /\ t \in Unread /\ t \notin Halves
  BY OtherFacts DEF LoadWhole, Unread
<1> DEFINE rows == PadRope(t.proj, AsStored(t.proj, t.part))
<1>3. PutShard(Into(t), rows) /\ rows # Empty /\ rows = TrueShard(Into(t))
  BY <1>2, AsStoredTrue DEF LoadWhole, LoadInv
<1>4. \A u \in Unread : Into(u) = Into(t) => u = t
  BY <1>2, WholeAlone DEF LoadInv
<1>5. t \notin pending /\ Unread' = Unread \ {t}
  BY <1>1 DEF LoadInv, LoadTypeOK, Unread
<1>6. \A u \in todo' \cup pending' : Into(u) # Into(t)
  BY <1>1, <1>4, <1>5 DEF Unread
<1>7. ASSUME NEW u \in Unread', u \in Halves PROVE Other(u) \in Unread'
  <2>1. Other(u) \in Unread /\ Other(u) \in Halves
    BY <1>5, <1>7, OtherFacts DEF LoadInv, Paired
  <2> QED BY <1>2, <1>5, <2>1
<1>8. \A u \in Unread : u \in Unread' \/ Into(u) = Into(t)
  BY <1>5
<1> HIDE DEF rows
<1> QED BY <1>1, <1>2, <1>3, <1>6, <1>7, <1>8, PutShardInv

(* The load raises only over a projection whose scales do not fit.         *)
LEMMA LoadRaisesInv ==
  ASSUME LoadInv, NEW t \in todo, LoadRaises(t)
  PROVE  LoadInv'
<1>1. UNCHANGED <<ckpt, todo, pending, shards, reported, dropped, writes>>
  BY DEF LoadRaises, Nothing
<1>2. t \in Unread /\ t \in AllTensors /\ t.layer \in BaseLayers /\ IsHalf(t) /\ ~ScalesFit(t.proj)
  BY DEF LoadRaises, Unread, LoadInv, LoadTypeOK
<1>3. t.proj \in ckpt.fp8 \ ckpt.kept /\ t.proj \in Projs
  BY <1>2 DEF IsHalf, LoadInv, OneForm, AllTensors
<1>4. ~WholeCols(t.proj) \/ (t.proj = "wk" /\ RowsOf[t.proj] % Block # 0)
  BY <1>2, <1>3, WholeColumnsFit
<1>5. FailedOver'
  BY <1>1, <1>3, <1>4 DEF FailedOver
<1>6. Unread' = Unread /\ Halves' = Halves /\ Slots' = Slots /\ (\A u : (Into(u))' = Into(u))
      /\ \A s : (TrueShard(s))' = TrueShard(s)
  BY <1>1, SameCheckpoint DEF Unread
<1>7. LoadTypeOK' /\ OneForm'
  BY <1>1, <1>6 DEF LoadInv, LoadTypeOK, OneForm
<1>8. Paired'
  BY <1>1, <1>6 DEF LoadInv, Paired, Other
<1>9. WrittenAtEnd' /\ ShardsTrue'
  BY <1>1, <1>6 DEF LoadInv, WrittenAtEnd, ShardsTrue
<1> QED BY <1>5, <1>7, <1>8, <1>9 DEF LoadInv

LEMMA NextCallInv ==
  ASSUME LoadInv, NextCall
  PROVE  LoadInv'
<1>1. /\ dropped' = dropped \cup pending /\ pending' = {}
      /\ UNCHANGED <<ckpt, todo, shards, reported, failed, writes>>
  BY DEF NextCall
<1>2. Unread' = Unread /\ Halves' = Halves /\ Slots' = Slots /\ (\A u : (Into(u))' = Into(u))
      /\ \A s : (TrueShard(s))' = TrueShard(s)
  BY <1>1, SameCheckpoint DEF Unread
<1>3. LoadTypeOK' /\ OneForm'
  BY <1>1, <1>2 DEF LoadInv, LoadTypeOK, OneForm
<1>4. Paired'
  BY <1>1, <1>2 DEF LoadInv, Paired, Other
<1>5. WrittenAtEnd' /\ ShardsTrue' /\ FailedOver'
  BY <1>1, <1>2 DEF LoadInv, WrittenAtEnd, ShardsTrue, FailedOver
<1> QED BY <1>3, <1>4, <1>5 DEF LoadInv

LEMMA InitLoadInv == LoadInit => LoadInv
<1> SUFFICES ASSUME LoadInit PROVE LoadInv
  OBVIOUS
<1>1. ckpt \in Checkpoints /\ todo = Tensors(ckpt.fp8, Projs)
  BY DEF LoadInit
<1>2. ckpt.fp8 \subseteq HalfProjs /\ ckpt.kept \subseteq ckpt.fp8
  BY <1>1, LoadAssumption
<1>3. pending = {} /\ dropped = {} /\ Unread = todo
  BY DEF LoadInit, Unread
<1>4. \A t \in todo :
        /\ t \in AllTensors
        /\ t.layer \in BaseLayers => (t.part = "bf16" <=> t.proj \notin ckpt.fp8)
  BY <1>1, <1>2, LoadAssumption DEF Tensors, Tensor, AllTensors
<1>5. LoadTypeOK
  BY <1>1, <1>3, <1>4 DEF LoadInit, LoadTypeOK
<1>6. OneForm
  BY <1>3, <1>4 DEF OneForm
<1>7. Paired
  <2> SUFFICES ASSUME NEW t \in todo, t \in Halves PROVE Other(t) \in todo
    BY <1>3 DEF Paired
  <2>1. t.proj \in ckpt.fp8 \cap Projs /\ t.layer \in BaseLayers
    BY <1>4 DEF Halves, AllTensors
  <2>2. Other(t) = [layer |-> t.layer, proj |-> t.proj,
                    part |-> IF t.part = "scale" THEN "fp8" ELSE "scale"]
    BY DEF Halves, AllTensors, Other
  <2> QED BY <1>1, <2>1, <2>2 DEF Tensors, Tensor
<1>8. WrittenAtEnd
  BY DEF LoadInit, WrittenAtEnd, Slots
<1>9. ShardsTrue
  <2> SUFFICES ASSUME NEW s \in Slots
               PROVE  shards[s] = Empty /\ \E t \in todo : Into(t) = s
    BY <1>3 DEF ShardsTrue
  <2>1. shards[s] = Empty
    BY DEF LoadInit, Slots
  <2>2. PICK l \in BaseLayers, p \in Projs, w \in {"weight", "scale"} : s = <<l, p, w>>
    BY DEF Slots, Shards
  <2>3. w = "scale" => p \in ckpt.kept
    BY <2>2 DEF Slots
  <2>4. CASE p \in ckpt.fp8
    <3> DEFINE t == Tensor(l, p, IF w = "scale" THEN "scale" ELSE "fp8")
    <3>1. t \in todo
      BY <1>1, <2>4 DEF Tensors
    <3>2. Into(t) = s
      BY <2>2, <2>3 DEF Into, Tensor
    <3> QED BY <2>1, <3>1, <3>2
  <2>5. CASE p \notin ckpt.fp8
    <3>1. Tensor(l, p, "bf16") \in todo
      BY <1>1, <2>5 DEF Tensors
    <3>2. Into(Tensor(l, p, "bf16")) = s
      BY <1>2, <2>2, <2>3, <2>5 DEF Into, Tensor
    <3> QED BY <2>1, <3>1, <3>2
  <2> QED BY <2>4, <2>5
<1>10. FailedOver
  BY DEF LoadInit, FailedOver
<1> QED BY <1>5, <1>6, <1>7, <1>8, <1>9, <1>10 DEF LoadInv

LEMMA NextLoadInv == LoadInv /\ [LoadNext]_loadVars => LoadInv'
<1> SUFFICES ASSUME LoadInv, [LoadNext]_loadVars PROVE LoadInv'
  OBVIOUS
<1>1. ASSUME NEW t \in todo, LoadTensor(t) PROVE LoadInv'
  BY <1>1, SkipInv, LoadHalfInv, LoadWholeInv DEF LoadTensor
<1>2. ASSUME NEW t \in todo, LoadRaises(t) PROVE LoadInv'
  BY <1>2, LoadRaisesInv
<1>3. CASE UNCHANGED loadVars
  <2>1. UNCHANGED <<ckpt, todo, pending, shards, reported, failed, dropped, writes>>
    BY <1>3 DEF loadVars
  <2>2. Unread' = Unread /\ Halves' = Halves /\ Slots' = Slots /\ (\A u : (Into(u))' = Into(u))
        /\ \A s : (TrueShard(s))' = TrueShard(s)
    BY <2>1, SameCheckpoint DEF Unread
  <2>3. LoadTypeOK' /\ OneForm'
    BY <2>1, <2>2 DEF LoadInv, LoadTypeOK, OneForm
  <2>4. Paired'
    BY <2>1, <2>2 DEF LoadInv, Paired, Other
  <2>5. WrittenAtEnd' /\ ShardsTrue' /\ FailedOver'
    BY <2>1, <2>2 DEF LoadInv, WrittenAtEnd, ShardsTrue, FailedOver
  <2> QED BY <2>3, <2>4, <2>5 DEF LoadInv
<1> QED BY <1>1, <1>2, <1>3, NextCallInv DEF LoadNext

LEMMA InvShardsRight == LoadInv => ShardsRight
<1> SUFFICES ASSUME LoadInv, NEW s \in Slots
             PROVE  /\ writes[s] <= 1
                    /\ shards[s] # Empty /\ WholeCols(s[2]) => shards[s] = TrueShard(s)
  BY DEF ShardsRight
<1>1. writes[s] \in {0, 1}
  BY DEF LoadInv, LoadTypeOK, Slots
<1>2. writes[s] <= 1
  BY <1>1
<1>3. shards[s] # Empty /\ WholeCols(s[2]) => shards[s] = TrueShard(s)
  BY DEF LoadInv, ShardsTrue
<1> QED BY <1>2, <1>3

LEMMA InvLoadComplete == LoadInv => LoadComplete
<1> SUFFICES ASSUME LoadInv PROVE LoadComplete
  OBVIOUS
<1>1. ASSUME todo = {}, NEW s \in Slots
      PROVE  IF shards[s] = Empty THEN \E u \in dropped : Into(u) = s ELSE Param(s) \in reported
  <2>1. CASE shards[s] # Empty
    BY <2>1 DEF LoadInv, ShardsTrue
  <2>2. CASE shards[s] = Empty
    <3>1. PICK t \in Unread : Into(t) = s
      BY <2>2 DEF LoadInv, ShardsTrue
    <3>2. t \in pending \cup dropped
      BY <1>1, <3>1 DEF Unread
    <3>3. CASE t \in pending
      <4>1. t \in Halves
        BY <3>3 DEF LoadInv, LoadTypeOK
      <4>2. Other(t) \in Unread /\ Other(t) \notin pending
        BY <3>1, <3>3, <4>1 DEF LoadInv, Paired
      <4>3. Other(t) \in dropped
        BY <1>1, <4>2 DEF Unread
      <4>4. Into(Other(t)) = Into(t)
        BY <4>1, OtherFacts
      <4> QED BY <2>2, <3>1, <4>3, <4>4
    <3> QED BY <2>2, <3>1, <3>2, <3>3
  <2> QED BY <2>1, <2>2
<1> QED BY <1>1 DEF LoadComplete, LoadInv, FailedOver

(* No shard whose columns are whole blocks is ever half loaded, scaled by  *)
(* another layer or block, short of its rope rows, or written twice.       *)
THEOREM ShardsAlwaysRight == LoadSpec => []ShardsRight
BY InvShardsRight, InitLoadInv, NextLoadInv, PTL DEF LoadSpec

(* A shard still empty when the tensors have all come lost a half to the   *)
(* end of a load_weights call; the load raises only over partial columns,  *)
(* or partial rows of indexer.wk.                                          *)
THEOREM LoadEndsComplete == LoadSpec => []LoadComplete
BY InvLoadComplete, InitLoadInv, NextLoadInv, PTL DEF LoadSpec
-----------------------------------------------------------------------------
(* The router gate.                                                        *)

GateTypeOK ==
  /\ args \in GateArgs
  /\ gate.out \in Dtypes \cup {NoDtype}
GateInv == GateTypeOK /\ DeferredAsBuilt /\ Gb10LogitsExact

(* A gate that has not been told its output dtype uses none of the kernels *)
(* that depend on it, so that set_out_dtype settles them from nothing.     *)
LEMMA UnsetAllowsNone ==
  ~ AllowCublas(NoDtype) /\ ~ AllowLL(NoDtype)
BY DEF AllowCublas, AllowLL, NoDtype

LEMMA AllowIsBoolean ==
  ASSUME NEW dtype, args \in GateArgs
  PROVE  AllowCublas(dtype) \in BOOLEAN /\ AllowLL(dtype) \in BOOLEAN
BY DEF AllowCublas, AllowLL, GateArgs, CublasCapable, Specialized

LEMMA SetOutDtypeInv ==
  ASSUME GateInv, NEW dtype \in Dtypes, SetOutDtype(dtype)
  PROVE  GateInv'
<1>1. args' = args /\ call' = call
  BY DEF SetOutDtype
<1>2. gate'.out = dtype
  BY DEF SetOutDtype
<1>3. GateTypeOK'
  BY <1>1, <1>2 DEF GateInv, GateTypeOK
<1>4. ~ gate.cublas /\ ~ gate.ll
  BY UnsetAllowsNone DEF GateInv, DeferredAsBuilt, SetOutDtype, Attributes
<1>5. gate' = Attributes(dtype)
  <2>1. (gate.cublas \/ AllowCublas(dtype)) = AllowCublas(dtype)
    BY <1>4, AllowIsBoolean DEF GateInv, GateTypeOK
  <2>2. gate.ll = FALSE
    <3>1. gate.ll = AllowLL(NoDtype)
      BY DEF GateInv, DeferredAsBuilt, SetOutDtype, Attributes
    <3>2. AllowLL(NoDtype) = FALSE
      BY UnsetAllowsNone, AllowIsBoolean DEF GateInv, GateTypeOK
    <3> QED BY <3>1, <3>2
  <2>3. (IF Specialized THEN AllowLL(dtype) ELSE gate.ll) = AllowLL(dtype)
    <3>1. CASE Specialized
      BY <3>1
    <3>2. CASE ~ Specialized
      BY <3>2, <2>2 DEF AllowLL
    <3> QED BY <3>1, <3>2
  <2> QED BY <2>1, <2>3 DEF SetOutDtype, Attributes
<1>6. Attributes(dtype)' = Attributes(dtype)
  BY <1>1 DEF Attributes, AllowCublas, AllowLL, CublasCapable, Specialized, WeightDtype
<1>7. DeferredAsBuilt'
  BY <1>2, <1>5, <1>6, <1>1 DEF DeferredAsBuilt, Attributes, AllowCublas, AllowLL,
        CublasCapable, Specialized, WeightDtype
<1>8. Gb10LogitsExact'
  BY <1>1 DEF GateInv, Gb10LogitsExact
<1> QED BY <1>3, <1>7, <1>8 DEF GateInv

(* On a GB10 a forward takes cuBLAS, the fp32 linear path or none of the   *)
(* specialised kernels.                                                    *)
LEMMA Gb10Kernel ==
  ASSUME GateInv, args.device = "gb10", NEW n, NEW x
  PROVE  /\ Kernel(gate, n, x) = IF gate.cublas /\ x = "bf16" THEN "cublas" ELSE "linear"
         /\ WeightDtype = "bf16" /\ ~args.bias /\ gate.out = "fp32" => gate.cublas
         /\ gate.cublas => gate.out = "fp32"
<1>1. ~ Specialized
  BY DEF Specialized
<1>2. ~ AllowFp32 /\ ~ AllowBf16x3 /\ ~ AllowDSV3
  BY <1>1 DEF AllowFp32, AllowBf16x3, AllowDSV3
<1>3. gate.ll = AllowLL(gate.out) /\ gate.cublas = AllowCublas(gate.out)
  BY DEF GateInv, DeferredAsBuilt, Attributes
<1>4. ~ gate.ll
  BY <1>1, <1>3 DEF AllowLL
<1>5. Kernel(gate, n, x) = IF gate.cublas /\ x = "bf16" THEN "cublas" ELSE "linear"
  BY <1>2, <1>4 DEF Kernel
<1>6. WeightDtype = "bf16" /\ ~args.bias /\ gate.out = "fp32" => gate.cublas
  BY <1>3 DEF AllowCublas, CublasCapable
<1>7. gate.cublas => gate.out = "fp32"
  BY <1>3 DEF AllowCublas
<1> QED BY <1>5, <1>6, <1>7

LEMMA ForwardInv ==
  ASSUME GateInv, NEW n \in GateTokens, NEW x \in Dtypes, Forward(n, x)
  PROVE  GateInv'
<1>1. args' = args /\ gate' = gate
  BY DEF Forward
<1>2. GateTypeOK' /\ DeferredAsBuilt'
  BY <1>1 DEF GateInv, GateTypeOK, DeferredAsBuilt, Attributes, AllowCublas, AllowLL,
        CublasCapable, Specialized, WeightDtype
<1>3. Gb10LogitsExact'
  <2> SUFFICES ASSUME args.device = "gb10", gate.out # NoDtype
               PROVE  /\ call'.out = gate.out
                      /\ gate.out = "fp32" /\ x = "bf16" /\ ~args.bias => call'.sums = "fp32"
    BY <1>1 DEF Gb10LogitsExact, Forward
  <2>1. /\ Kernel(gate, n, x) = IF gate.cublas /\ x = "bf16" THEN "cublas" ELSE "linear"
        /\ WeightDtype = "bf16" /\ ~args.bias /\ gate.out = "fp32" => gate.cublas
        /\ gate.cublas => gate.out = "fp32"
    BY Gb10Kernel
  <2>2. CASE gate.cublas /\ x = "bf16"
    <3>1. Result(gate, n, x) = [sums |-> "fp32", out |-> "fp32"]
      BY <2>1, <2>2 DEF Result
    <3> QED BY <2>1, <2>2, <3>1 DEF Forward
  <2>3. CASE ~ (gate.cublas /\ x = "bf16")
    <3>1. Result(gate, n, x) = [sums |-> WeightDtype, out |-> gate.out]
      BY <2>1, <2>3 DEF Result, Linear
    <3>2. WeightDtype \in Dtypes
      BY DEF GateInv, GateTypeOK, GateArgs, WeightDtype, Dtypes
    <3> QED BY <2>1, <2>3, <3>1, <3>2 DEF Forward, Dtypes
  <2> QED BY <2>2, <2>3
<1> QED BY <1>2, <1>3 DEF GateInv

LEMMA InitGateInv == GateInit => GateInv
<1> SUFFICES ASSUME GateInit PROVE GateInv
  OBVIOUS
<1>1. PICK dtype \in Dtypes \cup {NoDtype} : gate = Attributes(dtype)
  BY DEF GateInit
<1>2. gate.out = dtype
  BY <1>1 DEF Attributes
<1> QED BY <1>1, <1>2 DEF GateInit, GateInv, GateTypeOK, DeferredAsBuilt, Gb10LogitsExact, NoCall

LEMMA NextGateInv == GateInv /\ [GateNext]_gateVars => GateInv'
<1> SUFFICES ASSUME GateInv, [GateNext]_gateVars PROVE GateInv'
  OBVIOUS
<1>1. CASE \E dtype \in Dtypes : SetOutDtype(dtype)
  BY <1>1, SetOutDtypeInv
<1>2. CASE \E n \in GateTokens, x \in Dtypes : Forward(n, x)
  BY <1>2, ForwardInv
<1>3. CASE UNCHANGED gateVars
  BY <1>3 DEF gateVars, GateInv, GateTypeOK, DeferredAsBuilt, Gb10LogitsExact, Attributes,
       AllowCublas, AllowLL, CublasCapable, Specialized, WeightDtype
<1> QED BY <1>1, <1>2, <1>3 DEF GateNext

(* A gate told its output dtype later may use exactly the kernels of one   *)
(* built with it, whatever device, shape, bias and dtypes.                 *)
THEOREM DeferralMakesNoDifference == GateSpec => []DeferredAsBuilt
<1>1. GateInv => DeferredAsBuilt
  BY DEF GateInv
<1> QED BY <1>1, InitGateInv, NextGateInv, PTL DEF GateSpec

(* On a GB10 the router's logits leave in the dtype asked for, and fp32    *)
(* logits of bf16 tokens are summed in fp32, for any number of tokens.     *)
THEOREM Gb10Exact == GateSpec => []Gb10LogitsExact
<1>1. GateInv => Gb10LogitsExact
  BY DEF GateInv
<1> QED BY <1>1, InitGateInv, NextGateInv, PTL DEF GateSpec

-----------------------------------------------------------------------------
(* The warm-ups.                                                           *)

(* No power of two lies between h and p.                                   *)
Follows(h, p) == p \in Powers /\ \A y \in Powers : y <= h \/ y >= p

LEMMA PowerFacts ==
  /\ Powers \subseteq Nat
  /\ Follows(0, 1) /\ Follows(1, 2) /\ Follows(2, 4) /\ Follows(4, 8) /\ Follows(8, 16)
  /\ Follows(16, 32) /\ Follows(32, 64) /\ Follows(64, 128) /\ Follows(128, 256)
BY DEF Powers, Follows

LEMMA PowerAbove ==
  ASSUME NEW x \in Nat, NEW h \in Nat, NEW p \in Nat, Follows(h, p), h < x, x <= p
  PROVE  NextPowerOf2(x) = p
<1> DEFINE T == {y \in Powers : y >= x}
<1>1. p \in T /\ \A y \in T : p <= y /\ y \in Nat
  BY PowerFacts DEF Follows
<1> HIDE DEF T
<1>2. \A y \in T : (\A z \in T : y <= z) => y = p
  BY <1>1
<1>3. Min(T) = p
  BY <1>1, <1>2 DEF Min
<1> QED BY <1>3 DEF NextPowerOf2, T

(* The block size of x tokens.                                             *)
SmallBlock(x) == IF x <= 1 THEN 1 ELSE IF x <= 2 THEN 2 ELSE IF x <= 4 THEN 4 ELSE IF x <= 8 THEN 8 ELSE 16
BlockOf(x) == IF x <= 16 THEN SmallBlock(x) ELSE IF x <= 32 THEN 32 ELSE IF x <= 64 THEN 64
              ELSE IF x <= 128 THEN 128 ELSE 256

LEMMA BlockIs ==
  ASSUME NEW x \in Nat \ {0}
  PROVE  NextPowerOf2(MinOf(256, x)) = BlockOf(x)
<1>1. x <= 256 => MinOf(256, x) = x
  BY DEF MinOf
<1>2. CASE x <= 16
  <2>1. NextPowerOf2(x) = SmallBlock(x)
    <3>1. CASE x <= 1
      BY <3>1, PowerFacts, PowerAbove DEF SmallBlock
    <3>2. CASE 1 < x /\ x <= 2
      BY <3>2, PowerFacts, PowerAbove DEF SmallBlock
    <3>3. CASE 2 < x /\ x <= 4
      BY <3>3, PowerFacts, PowerAbove DEF SmallBlock
    <3>4. CASE 4 < x /\ x <= 8
      BY <3>4, PowerFacts, PowerAbove DEF SmallBlock
    <3>5. CASE 8 < x /\ x <= 16
      BY <3>5, PowerFacts, PowerAbove DEF SmallBlock
    <3> QED BY <1>2, <3>1, <3>2, <3>3, <3>4, <3>5
  <2> QED BY <1>1, <1>2, <2>1 DEF BlockOf
<1>3. CASE 16 < x /\ x <= 32
  <2>1. NextPowerOf2(x) = 32
    BY <1>3, PowerFacts, PowerAbove
  <2> QED BY <1>1, <1>3, <2>1 DEF BlockOf
<1>4. CASE 32 < x /\ x <= 64
  <2>1. NextPowerOf2(x) = 64
    BY <1>4, PowerFacts, PowerAbove
  <2> QED BY <1>1, <1>4, <2>1 DEF BlockOf
<1>5. CASE 64 < x /\ x <= 128
  <2>1. NextPowerOf2(x) = 128
    BY <1>5, PowerFacts, PowerAbove
  <2> QED BY <1>1, <1>5, <2>1 DEF BlockOf
<1>6. CASE 128 < x
  <2>1. PICK y \in Nat : y = MinOf(256, x) /\ 128 < y /\ y <= 256
    BY <1>6 DEF MinOf
  <2>2. NextPowerOf2(y) = 256
    BY <2>1, PowerFacts, PowerAbove
  <2> QED BY <1>6, <2>1, <2>2 DEF BlockOf
<1> QED BY <1>2, <1>3, <1>4, <1>5, <1>6

(* Every block of a batch is a step of the ladder, whose steps are at most *)
(* as far apart as the powers of two from 32 on, or lies in the gap below. *)
LEMMA LadderCovers ==
  ASSUME NEW q \in Nat \ {0}, setup.spec \in Nat
  PROVE  \/ \E i \in 1 .. 5 : PrepareBlock(q) = Ladder[i]
         \/ PrepareBlock(q) \in Powers /\ PrepareBlock(1) < PrepareBlock(q) /\ PrepareBlock(q) < 32
<1> DEFINE s == setup.spec
<1>1. \A l \in Nat \ {0} : PrepareBlock(l) = BlockOf(l + (1 + s))
  <2> TAKE l \in Nat \ {0}
  <2>1. PICK x \in Nat \ {0} : x = l + (1 + s)
    OBVIOUS
  <2>2. PrepareBlock(l) = NextPowerOf2(MinOf(256, x))
    BY <2>1 DEF PrepareBlock, QueryPerReq
  <2> QED BY <2>1, <2>2, BlockIs
<1>2. /\ Ladder[1] = PrepareBlock(1) /\ Ladder[2] = PrepareBlock(16) /\ Ladder[3] = PrepareBlock(32)
      /\ Ladder[4] = PrepareBlock(64) /\ Ladder[5] = PrepareBlock(128)
  BY DEF Ladder
<1>3. PICK t \in Nat \ {0} : t = 1 + s
  OBVIOUS
<1> HIDE DEF s
<1>4. /\ Ladder[1] = BlockOf(1 + t) /\ Ladder[2] = BlockOf(16 + t) /\ Ladder[3] = BlockOf(32 + t)
      /\ Ladder[4] = BlockOf(64 + t) /\ Ladder[5] = BlockOf(128 + t)
  BY <1>1, <1>2, <1>3
<1>5. PrepareBlock(q) = BlockOf(q + t) /\ PrepareBlock(1) = BlockOf(1 + t)
  BY <1>1, <1>3
<1>6. CASE q + t <= 16
  <2>1. BlockOf(q + t) \in {1, 2, 4, 8, 16} /\ BlockOf(1 + t) \in {1, 2, 4, 8, 16}
        /\ BlockOf(1 + t) <= BlockOf(q + t)
    BY <1>6 DEF BlockOf, SmallBlock
  <2>2. BlockOf(q + t) \in Powers /\ BlockOf(q + t) < 32
    BY <2>1 DEF Powers
  <2> QED BY <1>4, <1>5, <2>1, <2>2
<1>7. CASE 16 < q + t
  <2>1. BlockOf(q + t) \in {Ladder[1], Ladder[2], Ladder[3], Ladder[4], Ladder[5]}
    <3>1. \A x \in Nat : 16 < x => BlockOf(x) = IF x <= 32 THEN 32 ELSE IF x <= 64 THEN 64
                                              ELSE IF x <= 128 THEN 128 ELSE 256
      BY DEF BlockOf
    <3>2. CASE t <= 15
      <4>1. Ladder[2] = 32 /\ Ladder[3] = 64 /\ Ladder[4] = 128 /\ Ladder[5] = 256
        BY <1>4, <3>1, <3>2
      <4> QED BY <1>7, <3>1, <4>1
    <3>3. CASE ~(t <= 15)
      <4>1. /\ Ladder[1] = IF t <= 31 THEN 32 ELSE IF t <= 63 THEN 64 ELSE IF t <= 127 THEN 128 ELSE 256
            /\ Ladder[2] = IF t <= 16 THEN 32 ELSE IF t <= 48 THEN 64 ELSE IF t <= 112 THEN 128 ELSE 256
            /\ Ladder[3] = IF t <= 32 THEN 64 ELSE IF t <= 96 THEN 128 ELSE 256
            /\ Ladder[4] = IF t <= 64 THEN 128 ELSE 256
            /\ Ladder[5] = 256
        BY <1>4, <3>1, <3>3
      <4> QED BY <1>7, <3>1, <3>3, <4>1
    <3> QED BY <3>2, <3>3
  <2> QED BY <1>5, <2>1
<1> QED BY <1>6, <1>7

(* With 7 drafts or more the ladder has no gap.                            *)
LEMMA NoGapFromSeven ==
  ASSUME setup.spec \in Nat, setup.spec >= 7
  PROVE  {p \in Powers : PrepareBlock(1) < p /\ p < 32} = {}
<1>1. PICK x \in Nat \ {0} : x = 1 + (1 + setup.spec) /\ x >= 9
  OBVIOUS
<1>2. PrepareBlock(1) = BlockOf(x)
  BY <1>1, BlockIs DEF PrepareBlock, QueryPerReq
<1>3. BlockOf(x) \in Nat /\ BlockOf(x) >= 16
  BY <1>1 DEF BlockOf, SmallBlock
<1>4. \A p \in Powers : p \in Nat /\ (p <= 16 \/ p >= 32)
  BY PowerFacts DEF Follows
<1> QED BY <1>2, <1>3, <1>4

-----------------------------------------------------------------------------
(* The warm-ups a worker owes, and where each of them has gone: still to   *)
(* run, run, raised, or returned for want of an object.                    *)
WarmupNames == {"mhc", "pairs", "runtime", "prepare", "copy"}

Owed == {"mhc"} \cup {SpecWarmups[i] : i \in DOMAIN SpecWarmups}

InDue(w) == \E i \in 1 .. Len(due) : due[i] = w

Accounted ==
  "mhc" \in raised \/ \A w \in Owed : InDue(w) \/ Failed(w) \/ Variants(w) \subseteq compiled

(* A worker that serves has nothing more to warm, and batches need what    *)
(* its warm-ups are for, or what they leave to serving.                    *)
Serving == batch # {} => due = <<>> /\ "mhc" \notin raised

Served(v) ==
  v[1] \in {"prepare", "reject", "copy"} =>
    v \in LeftToServing \/ \E w \in Owed \cap {"runtime", "prepare", "copy"} : v \in Variants(w)

WarmInv ==
  /\ setup \in WarmSetups /\ due \in Seq(WarmupNames)
  /\ Accounted /\ Serving
  /\ \A v \in batch : Served(v)

LEMMA SetupFacts ==
  ASSUME setup \in WarmSetups
  PROVE  /\ setup.spec \in Nat
         /\ SpecWarmups \in Seq(WarmupNames)
         /\ setup.method # "none" => "prepare" \in Owed
         /\ setup.method # "none" /\ setup.spec # 0 => {"runtime", "copy"} \subseteq Owed
<1>1. setup.spec \in Nat
  BY WarmAssumption
<1>2. CASE setup.method = "none"
  BY <1>1, <1>2 DEF SpecWarmups
<1>3. CASE setup.method # "none" /\ setup.spec = 0
  <2>1. SpecWarmups = <<"prepare">>
    BY <1>3 DEF SpecWarmups
  <2>2. SpecWarmups \in Seq(WarmupNames) /\ 1 \in DOMAIN SpecWarmups /\ SpecWarmups[1] = "prepare"
    BY <2>1 DEF WarmupNames
  <2> QED BY <1>1, <1>3, <2>2 DEF Owed
<1>4. CASE setup.method # "none" /\ setup.spec # 0
  <2>1. SpecWarmups = <<"pairs", "runtime", "prepare", "copy">>
    BY <1>4 DEF SpecWarmups
  <2>2. SpecWarmups \in Seq(WarmupNames) /\ DOMAIN SpecWarmups = 1 .. 4
    BY <2>1 DEF WarmupNames
  <2>3. SpecWarmups[2] = "runtime" /\ SpecWarmups[3] = "prepare" /\ SpecWarmups[4] = "copy"
    BY <2>1
  <2> QED BY <1>1, <1>4, <2>2, <2>3 DEF Owed
<1> QED BY <1>2, <1>3, <1>4

(* Every specialisation a batch needs is one of a warm-up owed, or left.   *)
LEMMA NeedsOwed ==
  ASSUME setup \in WarmSetups, NEW n \in Forwards, NEW q \in Scheduled, NEW t \in LogitDtypes,
         NEW v \in Needs(n, q, t)
  PROVE  Served(v)
<1>1. setup.spec \in Nat /\ q \in Nat \ {0}
  BY SetupFacts, WarmAssumption
<1>2. CASE v \in {MhcPre(n), MhcFused(n), MhcHead(n)}
  <2>1. v[1] \in {"mhc_pre", "mhc_fused", "hc_head"}
    BY <1>2 DEF MhcPre, MhcFused, MhcHead
  <2> QED BY <2>1 DEF Served
<1>3. CASE setup.method = "dflash" /\ v = <<"prepare", PrepareBlock(q)>>
  <2>1. CASE \E i \in 1 .. 5 : PrepareBlock(q) = Ladder[i]
    <3>1. v \in Variants("prepare")
      BY <1>3, <2>1 DEF Variants, PrepareVariants
    <3>2. "prepare" \in Owed
      BY <1>3, SetupFacts
    <3> QED BY <3>1, <3>2 DEF Served
  <2>2. CASE PrepareBlock(q) \in Powers /\ PrepareBlock(1) < PrepareBlock(q) /\ PrepareBlock(q) < 32
    <3>1. v \in LeftToServing
      BY <1>3, <2>2 DEF LeftToServing
    <3> QED BY <3>1 DEF Served
  <2> QED BY <1>1, <2>1, <2>2, LadderCovers
<1>4. CASE setup.method # "none" /\ v \in CopyVariants
  <2>1. CASE setup.spec = 0
    <3>1. v \in LeftToServing
      BY <1>4, <2>1 DEF LeftToServing
    <3> QED BY <3>1 DEF Served
  <2>2. CASE setup.spec # 0
    <3>1. v \in Variants("copy")
      BY <1>4 DEF Variants
    <3>2. "copy" \in Owed
      BY <1>4, <2>2, SetupFacts
    <3> QED BY <3>1, <3>2 DEF Served
  <2> QED BY <2>1, <2>2
<1>5. CASE setup.method # "none" /\ setup.spec # 0 /\ v = Reject(t, "cache", "int64", setup.reject)
  <2>1. CASE setup.reject = "plain"
    <3>1. v \in Variants("runtime")
      BY <1>5, <2>1 DEF Variants, RuntimeVariants
    <3>2. "runtime" \in Owed
      BY <1>5, SetupFacts
    <3> QED BY <3>1, <3>2 DEF Served
  <2>2. CASE setup.reject # "plain"
    <3>1. v \in LeftToServing
      BY <1>5, <2>2 DEF LeftToServing
    <3> QED BY <3>1 DEF Served
  <2> QED BY <2>1, <2>2
<1> QED BY <1>2, <1>3, <1>4, <1>5 DEF Needs

LEMMA InitWarmInv == WarmInit => WarmInv
<1> SUFFICES ASSUME WarmInit PROVE WarmInv
  OBVIOUS
<1>1. setup \in WarmSetups /\ batch = {}
  BY DEF WarmInit
<1>2. SpecWarmups \in Seq(WarmupNames)
  BY <1>1, SetupFacts
<1> DEFINE sw == SpecWarmups
<1>3. due = <<"mhc">> \o sw \/ due = Append(sw, "mhc")
  BY DEF WarmInit
<1>4. Owed = {"mhc"} \cup {sw[i] : i \in 1 .. Len(sw)}
  BY <1>2 DEF Owed
<1> HIDE DEF sw
<1>5. /\ due \in Seq(WarmupNames)
      /\ InDue("mhc") /\ \A i \in 1 .. Len(sw) : InDue(sw[i])
  <2>1. sw \in Seq(WarmupNames) /\ Len(sw) \in Nat
        /\ <<"mhc">> \in Seq(WarmupNames) /\ Len(<<"mhc">>) = 1
    <3>1. <<"mhc">> \in Seq(WarmupNames) /\ Len(<<"mhc">>) = 1
      BY DEF WarmupNames
    <3> QED BY <1>2, <3>1 DEF sw
  <2>2. CASE due = <<"mhc">> \o sw
    <3>1. /\ due \in Seq(WarmupNames) /\ Len(due) = 1 + Len(sw)
          /\ \A i \in 1 .. 1 + Len(sw) : due[i] = IF i <= 1 THEN <<"mhc">>[i] ELSE sw[i - 1]
      BY <2>1, <2>2, ConcatProperties
    <3>2. due[1] = "mhc" /\ 1 \in 1 .. Len(due)
      BY <2>1, <3>1
    <3>3. ASSUME NEW i \in 1 .. Len(sw) PROVE due[i + 1] = sw[i] /\ i + 1 \in 1 .. Len(due)
      <4>1. i + 1 \in 1 .. 1 + Len(sw) /\ ~(i + 1 <= 1) /\ (i + 1) - 1 = i
        BY <2>1
      <4> QED BY <3>1, <4>1
    <3> QED BY <3>1, <3>2, <3>3 DEF InDue
  <2>3. CASE due = Append(sw, "mhc")
    <3>1. /\ due \in Seq(WarmupNames) /\ Len(due) = Len(sw) + 1 /\ due[Len(sw) + 1] = "mhc"
          /\ \A i \in 1 .. Len(sw) : due[i] = sw[i]
      BY <2>1, <2>3, AppendProperties
    <3> QED BY <2>1, <3>1 DEF InDue
  <2> QED BY <1>3, <2>2, <2>3
<1>6. \A w \in Owed : InDue(w)
  BY <1>4, <1>5
<1> QED BY <1>1, <1>5, <1>6 DEF WarmInv, Accounted, Serving

(* What depends on the worker only.                                        *)
LEMMA SetupHeld ==
  ASSUME setup' = setup
  PROVE  /\ Owed' = Owed /\ \A x : Variants(x)' = Variants(x) /\ Returns(x)' = Returns(x)
         /\ LeftToServing' = LeftToServing
<1>1. Owed' = Owed
  BY DEF Owed, SpecWarmups
<1>2. \A x : Variants(x)' = Variants(x)
  BY DEF Variants, MhcVariants, MhcSizes, PairVariants, RuntimeVariants, PrepareVariants, CopyVariants,
         Ladder, PrepareBlock, QueryPerReq, MhcPre, MhcFused, MhcHead
<1>3. \A x : Returns(x)' = Returns(x)
  BY DEF Returns
<1>4. LeftToServing' = LeftToServing
  BY DEF LeftToServing, CopyVariants, PrepareBlock, QueryPerReq
<1> QED BY <1>1, <1>2, <1>3, <1>4

(* Taking the first of the warm-ups due leaves the others.                 *)
LEMMA WarmKeeps ==
  ASSUME WarmInv, Warm
  PROVE  WarmInv'
<1> DEFINE w == Head(due)
<1>1. /\ due # <<>> /\ due \in Seq(WarmupNames) /\ setup' = setup /\ batch' = batch
      /\ \/ /\ compiled' = compiled \cup (IF Returns(w) THEN {} ELSE Variants(w))
            /\ due' = Tail(due) /\ raised' = raised
         \/ /\ raised' = raised \cup {w} /\ due' = IF w = "mhc" THEN <<>> ELSE Tail(due)
            /\ compiled' = compiled
  BY DEF Warm, WarmInv
<1>2. batch = {}
  BY <1>1 DEF WarmInv, Serving
<1>3. /\ Tail(due) \in Seq(WarmupNames)
      /\ \A x : InDue(x) => x = w \/ \E i \in 1 .. Len(Tail(due)) : Tail(due)[i] = x
  <2>1. /\ Len(due) \in Nat \ {0} /\ w = due[1] /\ Tail(due) \in Seq(WarmupNames)
        /\ Len(Tail(due)) = Len(due) - 1
        /\ \A i \in 1 .. Len(Tail(due)) : Tail(due)[i] = due[i + 1]
    BY <1>1, HeadTailProperties, EmptySeq
  <2> HIDE DEF w
  <2>2. ASSUME NEW i \in 1 .. Len(due), i # 1
        PROVE  i - 1 \in 1 .. Len(Tail(due)) /\ Tail(due)[i - 1] = due[i]
    <3>1. i - 1 \in 1 .. Len(Tail(due)) /\ (i - 1) + 1 = i
      BY <2>1, <2>2
    <3> QED BY <2>1, <3>1
  <2> QED BY <2>1, <2>2 DEF InDue
<1> HIDE DEF w
<1>4. due' \in Seq(WarmupNames)
  <2>1. <<>> \in Seq(WarmupNames)
    OBVIOUS
  <2> QED BY <1>1, <1>3, <2>1
<1>5. Owed' = Owed /\ \A x : Variants(x)' = Variants(x) /\ Returns(x)' = Returns(x)
  BY <1>1, SetupHeld
<1>6. compiled \subseteq compiled' /\ raised \subseteq raised'
  BY <1>1
<1>7. CASE w = "mhc" /\ w \in raised'
  <2>1. Accounted'
    BY <1>7 DEF Accounted
  <2> QED BY <1>1, <1>2, <1>4, <2>1 DEF WarmInv, Serving
<1>8. CASE ~(w = "mhc" /\ w \in raised')
  <2>1. due' = Tail(due) /\ (w \in raised' \/ Returns(w) \/ Variants(w) \subseteq compiled')
    BY <1>1, <1>8
  <2>2. \A x : InDue(x) => x = w \/ InDue(x)'
    BY <1>3, <2>1 DEF InDue
  <2>3. CASE "mhc" \in raised
    BY <1>1, <1>2, <1>4, <1>6, <2>3 DEF WarmInv, Accounted, Serving
  <2>4. CASE "mhc" \notin raised
    <3>1. \A x \in Owed : InDue(x)' \/ x \in raised' \/ Returns(x) \/ Variants(x) \subseteq compiled'
      BY <1>6, <2>1, <2>2, <2>4 DEF WarmInv, Accounted, Failed
    <3>2. Accounted'
      BY <1>5, <3>1 DEF Accounted, Failed
    <3> QED BY <1>1, <1>2, <1>4, <3>2 DEF WarmInv, Serving
  <2> QED BY <2>3, <2>4
<1> QED BY <1>7, <1>8

LEMMA ServeKeeps ==
  ASSUME WarmInv, NEW n \in Forwards, NEW q \in Scheduled, NEW t \in LogitDtypes,
         Serve(n, q, t)
  PROVE  WarmInv'
<1>1. /\ due = <<>> /\ "mhc" \notin raised /\ q <= n /\ n <= setup.tokens
      /\ batch' = Needs(n, q, t)
      /\ setup' = setup /\ due' = due /\ compiled' = compiled /\ raised' = raised
  BY DEF Serve
<1>2. \A v \in Needs(n, q, t) : Served(v)
  BY <1>1, NeedsOwed DEF WarmInv
<1>3. /\ Owed' = Owed /\ \A x : Variants(x)' = Variants(x) /\ Returns(x)' = Returns(x)
      /\ LeftToServing' = LeftToServing
  BY <1>1, SetupHeld
<1>4. Accounted' /\ Serving'
  <2>1. \A x : InDue(x)' <=> InDue(x)
    BY <1>1 DEF InDue
  <2> QED BY <1>1, <1>3, <2>1 DEF WarmInv, Accounted, Failed, Serving
<1>5. \A v \in batch' : Served(v)'
  BY <1>1, <1>2, <1>3 DEF Served
<1> QED BY <1>1, <1>4, <1>5 DEF WarmInv

LEMMA NextWarmInv == WarmInv /\ [WarmNext]_warmVars => WarmInv'
<1> SUFFICES ASSUME WarmInv, [WarmNext]_warmVars PROVE WarmInv'
  OBVIOUS
<1>1. CASE Warm
  BY <1>1, WarmKeeps
<1>2. CASE \E n \in Forwards, q \in Scheduled, t \in LogitDtypes : Serve(n, q, t)
  BY <1>2, ServeKeeps
<1>3. CASE UNCHANGED warmVars
  <2>1. setup' = setup /\ due' = due /\ compiled' = compiled /\ raised' = raised /\ batch' = batch
    BY <1>3 DEF warmVars
  <2>2. /\ Owed' = Owed /\ \A x : Variants(x)' = Variants(x) /\ Returns(x)' = Returns(x)
        /\ LeftToServing' = LeftToServing
    BY <2>1, SetupHeld
  <2>3. \A x : InDue(x)' <=> InDue(x)
    BY <2>1 DEF InDue
  <2> QED BY <2>1, <2>2, <2>3 DEF WarmInv, Accounted, Failed, Serving, Served
<1> QED BY <1>1, <1>2, <1>3 DEF WarmNext

LEMMA InvSpecDecodeWarm ==
  ASSUME WarmInv
  PROVE  SpecDecodeWarm
<1> SUFFICES ASSUME NEW v \in batch, v \notin compiled, v[1] \in {"prepare", "reject", "copy"},
                    v \notin LeftToServing
             PROVE  \E w \in {"runtime", "prepare", "copy"} : Failed(w) /\ v \in Variants(w)
  BY DEF SpecDecodeWarm
<1>1. due = <<>> /\ "mhc" \notin raised
  BY DEF WarmInv, Serving
<1>2. PICK w \in Owed \cap {"runtime", "prepare", "copy"} : v \in Variants(w)
  BY DEF WarmInv, Served
<1>3. ~InDue(w)
  BY <1>1 DEF InDue
<1>4. Failed(w)
  BY <1>1, <1>2, <1>3 DEF WarmInv, Accounted
<1> QED BY <1>2, <1>4

(* No batch compiles a kernel of speculative decoding that its warm-up     *)
(* (spec_decode_rejection_warmup) was for, whatever its tokens, the drafts *)
(* and the sizes of the worker, and the other warm-ups that raised or      *)
(* returned: what is left to serving is the ladder's gap below 32, which   *)
(* is empty from 7 drafts on, and rejection by another method.             *)
THEOREM SpecDecodeIsWarm == WarmSpec => []SpecDecodeWarm
<1>1. WarmInit => WarmInv
  BY InitWarmInv
<1>2. WarmInv /\ [WarmNext]_warmVars => WarmInv'
  BY NextWarmInv
<1>3. WarmInv => SpecDecodeWarm
  BY InvSpecDecodeWarm
<1> QED BY <1>1, <1>2, <1>3, PTL DEF WarmSpec
=============================================================================
