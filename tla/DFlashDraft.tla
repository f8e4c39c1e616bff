------------------------------ MODULE DFlashDraft ------------------------------
(***************************************************************************)
(* The DFlash2 speculator (patches/dflash2_speculator.py): each round it   *)
(* proposes NumSpec tokens per request, one out of the TopK candidates of  *)
(* each step, and leaves the scores the walk saw in draft_logits, a dense  *)
(* tensor indexed by the request's state slot that the rejection sampler   *)
(* reads one round later.  The tensor is never cleared: the cache kernel   *)
(* erases the candidates it wrote last time before it writes the new ones. *)
(*                                                                         *)
(* The optional acceptance probe watches the rejection sampler and sorts   *)
(* each first rejection into A (target outside the candidates), B (target  *)
(* a candidate, the walk chose another) and C (the walk chose the target,  *)
(* rejected all the same), from a stash of the last proposal.              *)
(*                                                                         *)
(* Requests are greedy (temperature 0), the setting the probe's comments   *)
(* speak of: a draft is accepted iff it is the target's own token.  The    *)
(* model's hidden states and scores are abstracted to the choice of the    *)
(* candidates and of the best of them.                                     *)
(***************************************************************************)
EXTENDS Integers, Sequences, FiniteSets, SequencesExt

CONSTANTS
  Req,          (* requests                                                *)
  Slot,         (* request state slots, max_num_reqs of them               *)
  NoSlot,
  Token,        (* the vocabulary                                          *)
  FirstToken,   (* token id 0                                              *)
  NumSpec,      (* num_speculative_steps                                   *)
  TopK,         (* selector_top_k                                          *)
  MixedBatches, (* rows with fewer than NumSpec drafts share a verify batch *)
  MaxRounds     (* bound: draft rounds the probe may count                 *)

ASSUME SpeculatorAssumption ==
  /\ NumSpec \in Nat \ {0} /\ TopK \in Nat \ {0}
  /\ FirstToken \in Token /\ NoSlot \notin Slot
  /\ MixedBatches \in BOOLEAN /\ MaxRounds \in Nat /\ IsFiniteSet(Req)

VARIABLES
  slot,       (* the state slot of a running request, NoSlot otherwise     *)
  served,     (* requests that have been given a slot                      *)
  last,       (* the last token sampled for a request                      *)
  drafts,     (* the draft tokens a request's next verification checks     *)
  batch,      (* requests between their verification and the next proposal *)
  logits,     (* draft_logits: slot, step -> token -> score                *)
  cached,     (* _cached_candidate_ids: slot, step -> candidate tokens     *)
  stash,      (* probe: slot -> the candidates of the last proposal        *)
  cum,        (* probe: _probe_cum                                         *)
  candidates, (* ghost: what was proposed for the request itself           *)
  truth       (* ghost: rejections by what was proposed for the request    *)

vars == <<slot, served, last, drafts, batch, logits, cached, stash, cum, candidates, truth>>

Step       == 1 .. NumSpec
NegInf     == 0                 (* -float("inf")                            *)
Low        == 1                 (* the score of a candidate...             *)
High       == 2                 (* ... and of the one the walk took        *)
Candidates == {c \in SUBSET Token : Cardinality(c) = TopK}

Running  == {r \in Req : slot[r] # NoSlot}

-----------------------------------------------------------------------------
(* Verification.  rows is the batch in its order, n[r] the number of       *)
(* drafts of r the scheduler kept, sampled[r] the sampler's output: the    *)
(* accepted drafts and then the target model's own token.                  *)

Accepted(r, sampled) == Len(sampled[r]) - 1
TargetToken(r, sampled) == sampled[r][Len(sampled[r])]

Outcomes(r, n) ==
  {SubSeq(drafts[r], 1, x[1]) \o <<x[2]>> :
     x \in {y \in (0 .. n[r]) \X Token : y[1] < n[r] => y[2] # drafts[r][y[1] + 1]}}

(* draft_sampled, flat over the batch: a row's last token, then its drafts *)
FlatDrafts(rows, n) ==
  FlattenSeq([i \in 1 .. Len(rows) |->
                <<last[rows[i]]>> \o SubSeq(drafts[rows[i]], 1, n[rows[i]])])

(* cu_num_logits *)
RowStart(rows, n, i) == Len(FlatDrafts(SubSeq(rows, 1, i - 1), n))

(* mutant: the stash row is looked up by batch position *)
ClassifyByPosition(rows, n, sampled, i) ==
  LET r   == rows[i]
      a   == Accepted(r, sampled)
      idx == RowStart(rows, n, i) + a + 2
      old == SetToSeq(DOMAIN stash)
  IN  IF a >= NumSpec THEN "all"
      ELSE IF idx > Len(FlatDrafts(rows, n)) \/ i > Len(old) THEN "skip"
      ELSE IF TargetToken(r, sampled) \notin stash[old[i]][a + 1] THEN "A"
      ELSE IF FlatDrafts(rows, n)[idx] # TargetToken(r, sampled) THEN "B"
      ELSE "C"

(* mutant: the draft is read at the row's last token, one too early *)
ClassifyOffByOne(rows, n, sampled, i) ==
  LET r   == rows[i]
      a   == Accepted(r, sampled)
      idx == RowStart(rows, n, i) + a + 1
  IN  IF a >= NumSpec THEN "all"
      ELSE IF slot[r] \notin DOMAIN stash THEN "skip"
      ELSE IF TargetToken(r, sampled) \notin stash[slot[r]][a + 1] THEN "A"
      ELSE IF FlatDrafts(rows, n)[idx] # TargetToken(r, sampled) THEN "B"
      ELSE "C"

(* _observe_rejection on row i: what the probe counts the row as.          *)
Classify(rows, n, sampled, i) ==
  LET r   == rows[i]
      a   == Accepted(r, sampled)
      idx == RowStart(rows, n, i) + a + 2
  IN  IF a >= NumSpec THEN "all"
      ELSE IF idx > Len(FlatDrafts(rows, n)) \/ slot[r] \notin DOMAIN stash THEN "skip"
      ELSE IF TargetToken(r, sampled) \notin stash[slot[r]][a + 1] THEN "A"
      ELSE IF FlatDrafts(rows, n)[idx] # TargetToken(r, sampled) THEN "B"
      ELSE "C"

(* What happened to r: its own draft against its own candidates.           *)
TrueClass(r, n, sampled) ==
  LET a == Accepted(r, sampled)
  IN  IF a >= n[r] THEN "none"
      ELSE IF TargetToken(r, sampled) \notin candidates[r][a + 1] THEN "A" ELSE "B"

(* mutant: every position from the first rejection on counts *)
RejectedPositions(rows, n, sampled) ==
  {x \in (1 .. Len(rows)) \X (1 .. NumSpec + 1) : x[2] > Accepted(rows[x[1]], sampled)}

Rejected(rows, n, sampled) ==
  {i \in 1 .. Len(rows) : Classify(rows, n, sampled, i) # "all"}

Observe(rows, n, sampled) ==
  LET count(c) == Cardinality({i \in 1 .. Len(rows) : Classify(rows, n, sampled, i) = c})
      real(c)  == Cardinality({i \in 1 .. Len(rows) : TrueClass(rows[i], n, sampled) = c})
  IN  /\ cum' = [rounds   |-> cum.rounds + Len(rows),
                 rejected |-> cum.rejected + Cardinality(Rejected(rows, n, sampled)),
                 A |-> cum.A + count("A"), B |-> cum.B + count("B"), C |-> cum.C + count("C")]
      /\ truth' = [A |-> truth.A + real("A"), B |-> truth.B + real("B")]

(* RejectionSampler._verify, wrapped by the probe.  A batch without a      *)
(* single draft goes through the plain sampler, which the probe does not   *)
(* see.                                                                    *)
Verify(rows, n, sampled) ==
  /\ batch = <<>> /\ rows # <<>>
  /\ \A i \in 1 .. Len(rows) : rows[i] \in Running
       /\ n[rows[i]] \in 0 .. Len(drafts[rows[i]]) /\ sampled[rows[i]] \in Outcomes(rows[i], n)
  /\ \A i, k \in 1 .. Len(rows) : i # k => rows[i] # rows[k]
  /\ ~MixedBatches => \/ \A i \in 1 .. Len(rows) : n[rows[i]] = NumSpec
                      \/ \A i \in 1 .. Len(rows) : drafts[rows[i]] = <<>>
  /\ IF stash = <<>> \/ \A i \in 1 .. Len(rows) : n[rows[i]] = 0
     THEN UNCHANGED <<cum, truth>>
     ELSE cum.rounds + Len(rows) <= MaxRounds /\ Observe(rows, n, sampled)
  /\ last' = [r \in Req |-> IF \E i \in 1 .. Len(rows) : rows[i] = r
                            THEN TargetToken(r, sampled) ELSE last[r]]
  /\ drafts' = [r \in Req |-> IF \E i \in 1 .. Len(rows) : rows[i] = r
                              THEN <<>> ELSE drafts[r]]
  /\ batch' = rows
  /\ UNCHANGED <<slot, served, logits, cached, stash, candidates>>

-----------------------------------------------------------------------------
(* Proposal.  pick[r][p] = <<candidates, token the walk takes>>.           *)

RowSlots(rows) == {slot[rows[i]] : i \in 1 .. Len(rows)}
OwnerIn(rows, s) == CHOOSE r \in {rows[i] : i \in 1 .. Len(rows)} : slot[r] = s

(* _selector_walk_kernel: the scores of one step as the walk saw them.     *)
RealizedScores(c, chosen) == [t \in c |-> IF t = chosen THEN High ELSE Low]

(* mutant: the erasing store lands after the new scores *)
CacheEraseLast(s, p, c, chosen) ==
  [t \in Token |-> IF t \in cached[s][p] THEN NegInf
                   ELSE IF t \in c THEN RealizedScores(c, chosen)[t]
                   ELSE logits[s][p][t]]

(* _cache_draft_logits_kernel on one (row, step).                          *)
CacheDraftLogits(s, p, c, chosen) ==
  [t \in Token |-> IF t \in c THEN RealizedScores(c, chosen)[t]
                   ELSE IF t \in cached[s][p] THEN NegInf
                   ELSE logits[s][p][t]]

(* _generate_draft for the batch that was just verified.                   *)
GenerateDraft(pick) ==
  /\ batch # <<>>
  /\ drafts' = [r \in Req |-> IF r \in DOMAIN pick
                              THEN [p \in Step |-> pick[r][p][2]] ELSE drafts[r]]
  /\ candidates' = [r \in Req |-> IF r \in DOMAIN pick
                                  THEN [p \in Step |-> pick[r][p][1]] ELSE candidates[r]]
  /\ stash' = [s \in RowSlots(batch) |-> [p \in Step |-> pick[OwnerIn(batch, s)][p][1]]]
  /\ logits' = [s \in Slot |-> IF s \in RowSlots(batch)
       THEN [p \in Step |-> CacheDraftLogits(s, p, pick[OwnerIn(batch, s)][p][1],
                                                   pick[OwnerIn(batch, s)][p][2])]
       ELSE logits[s]]
  /\ cached' = [s \in Slot |-> IF s \in RowSlots(batch)
       THEN [p \in Step |-> pick[OwnerIn(batch, s)][p][1]] ELSE cached[s]]
  /\ batch' = <<>>
  /\ UNCHANGED <<slot, served, last, cum, truth>>

-----------------------------------------------------------------------------
Init ==
  /\ slot = [r \in Req |-> NoSlot]
  /\ served = {}
  /\ last = [r \in Req |-> FirstToken]
  /\ drafts = [r \in Req |-> <<>>]
  /\ batch = <<>>
  /\ logits = [s \in Slot |-> [p \in Step |-> [t \in Token |-> NegInf]]]
  /\ cached = [s \in Slot |-> [p \in Step |-> {FirstToken}]]
  /\ stash = <<>>
  /\ cum = [rounds |-> 0, rejected |-> 0, A |-> 0, B |-> 0, C |-> 0]
  /\ candidates = [r \in Req |-> <<>>]
  /\ truth = [A |-> 0, B |-> 0]

(* The runner gives a request a free state slot.                           *)
Admit(r, s, t) ==
  /\ batch = <<>> /\ r \notin served
  /\ \A q \in Req : slot[q] # s
  /\ slot' = [slot EXCEPT ![r] = s]
  /\ served' = served \cup {r}
  /\ last' = [last EXCEPT ![r] = t]
  /\ UNCHANGED <<drafts, batch, logits, cached, stash, cum, candidates, truth>>

(* A request ends; its slot, whatever it left there, is free again.        *)
Finish(r) ==
  /\ batch = <<>> /\ r \in Running
  /\ slot' = [slot EXCEPT ![r] = NoSlot]
  /\ drafts' = [drafts EXCEPT ![r] = <<>>]
  /\ candidates' = [candidates EXCEPT ![r] = <<>>]
  /\ UNCHANGED <<served, last, batch, logits, cached, stash, cum, truth>>

Rounds        == UNION {[1 .. m -> Running] : m \in 1 .. Cardinality(Running)}
InBatch(rows) == {rows[i] : i \in DOMAIN rows}

(* How many of the pending drafts the scheduler keeps: all of them, unless *)
(* the token budget or the length limit cuts some.                         *)
Kept(rows) ==
  IF MixedBatches
  THEN {n \in [InBatch(rows) -> 0 .. NumSpec] :
          \A r \in InBatch(rows) : n[r] <= Len(drafts[r])}
  ELSE {[r \in InBatch(rows) |-> Len(drafts[r])]}

(* The sampler's outputs, one per row.                                     *)
Samples(rows, n) ==
  LET all == UNION {Outcomes(r, n) : r \in InBatch(rows)}
  IN  {f \in [InBatch(rows) -> all] : \A r \in InBatch(rows) : f[r] \in Outcomes(r, n)}

(* compute_candidates and the walk on one step: candidates and the taken.  *)
Picks == {x \in Candidates \X Token : x[2] \in x[1]}

Next ==
  \/ \E r \in Req, s \in Slot, t \in Token : Admit(r, s, t)
  \/ \E rows \in Rounds : \E n \in Kept(rows) : \E sampled \in Samples(rows, n) :
       Verify(rows, n, sampled)
  \/ \E pick \in [{batch[i] : i \in 1 .. Len(batch)} -> [Step -> Picks]] :
       GenerateDraft(pick)
  \/ \E r \in Req : Finish(r)

Spec == Init /\ [][Next]_vars

-----------------------------------------------------------------------------
TypeOK ==
  /\ slot \in [Req -> Slot \cup {NoSlot}] /\ served \in SUBSET Req
  /\ last \in [Req -> Token]
  /\ drafts \in [Req -> {<<>>} \cup [Step -> Token]]
  /\ batch \in Seq(Req)
  /\ logits \in [Slot -> [Step -> [Token -> {NegInf, Low, High}]]]
  /\ cached \in [Slot -> [Step -> SUBSET Token]]
  /\ DOMAIN stash \in SUBSET Slot
  /\ cum \in [{"rounds", "rejected", "A", "B", "C"} -> 0 .. MaxRounds]
  /\ candidates \in [Req -> {<<>>} \cup [Step -> Candidates]]
  /\ truth \in [{"A", "B"} -> 0 .. MaxRounds]

(* What the rejection sampler reads for a request with drafts pending is   *)
(* the distribution its own walk saw: finite exactly on the candidates     *)
(* proposed for it, with the draft token on top, whoever used the slot     *)
(* before and however often ("so the walk and the rejection that checks it *)
(* read the same distribution").                                           *)
RejectionReadsTheWalk ==
  \A r \in Running : \A p \in Step : drafts[r] # <<>> =>
    /\ {t \in Token : logits[slot[r]][p][t] # NegInf} = candidates[r][p]
    /\ {t \in Token : logits[slot[r]][p][t] = High} = {drafts[r][p]}

(* The inductive invariant behind it: a slot has one owner, only requests  *)
(* with a slot have drafts, the candidates the cache kernel remembers cover *)
(* every finite score, and a request's pending drafts are the last thing   *)
(* written to its slot.                                                    *)
SlotsOwned ==
  /\ slot \in [Req -> Slot \cup {NoSlot}]
  /\ \A r, q \in Req : r # q /\ slot[r] # NoSlot => slot[r] # slot[q]
  /\ \A r \in Req : slot[r] # NoSlot => r \in served

PendingDrafts ==
  /\ drafts \in [Req -> {<<>>} \cup [Step -> Token]]
  /\ candidates \in [Req -> {<<>>} \cup [Step -> Candidates]]
  /\ \A r \in Req \ Running : drafts[r] = <<>>

BatchOfRunning ==
  /\ batch \in Seq(Running)
  /\ \A i, k \in 1 .. Len(batch) : i # k => batch[i] # batch[k]

CacheCoversScores ==
  /\ logits \in [Slot -> [Step -> [Token -> {NegInf, Low, High}]]]
  /\ cached \in [Slot -> [Step -> SUBSET Token]]
  /\ \A s \in Slot : \A p \in Step : \A t \in Token :
       logits[s][p][t] # NegInf => t \in cached[s][p]

DraftIInv ==
  SlotsOwned /\ PendingDrafts /\ BatchOfRunning /\ CacheCoversScores /\ RejectionReadsTheWalk

(* The probe never books a rejection as A or B that was not one, although  *)
(* it looks candidates up by slot in a stash that only the last proposal   *)
(* is in, while slots change hands and batches change their rows.          *)
ProbeCountsTrueRejections == cum.A <= truth.A /\ cum.B <= truth.B

(* "C: walk token == verifier target but still rejected (should be ~0 at   *)
(* temp=0)" (_empty_probe_cum).                                            *)
NoWalkHitIsRejected == cum.C = 0
=============================================================================
