--------------------------- MODULE DFlashDraftProofs ---------------------------
(***************************************************************************)
(* What rejection reads is what the walk wrote, and what the acceptance    *)
(* probe counts is what happened, for every number of requests, slots,     *)
(* speculative steps and candidates.                                       *)
(***************************************************************************)
EXTENDS DFlashDraft, FiniteSetTheorems, SequenceTheorems, SharedFacts

(* One step of the cache kernel: if the remembered candidates cover the    *)
(* finite scores, the new row is finite exactly on the new candidates and  *)
(* the chosen one alone is on top.                                         *)
LEMMA CacheRow ==
  ASSUME CacheCoversScores, NEW s \in Slot, NEW p \in Step, NEW x \in Picks
  PROVE  /\ CacheDraftLogits(s, p, x[1], x[2]) \in [Token -> {NegInf, Low, High}]
         /\ {t \in Token : CacheDraftLogits(s, p, x[1], x[2])[t] # NegInf} = x[1]
         /\ {t \in Token : CacheDraftLogits(s, p, x[1], x[2])[t] = High} = {x[2]}
<1> DEFINE c == x[1]
           chosen == x[2]
           row == CacheDraftLogits(s, p, c, chosen)
<1>1. c \in SUBSET Token /\ chosen \in c
  BY DEF Picks, Candidates
<1>2. row = [t \in Token |-> IF t \in c THEN (IF t = chosen THEN High ELSE Low)
                             ELSE IF t \in cached[s][p] THEN NegInf ELSE logits[s][p][t]]
  BY <1>1 DEF CacheDraftLogits, RealizedScores
<1> HIDE DEF c, chosen, row
<1>3. \A t \in Token : row[t] = IF t \in c THEN (IF t = chosen THEN High ELSE Low) ELSE NegInf
  <2> SUFFICES ASSUME NEW t \in Token, t \notin c PROVE row[t] = NegInf
    BY <1>2
  <2>1. CASE t \in cached[s][p]
    BY <1>2, <2>1
  <2>2. CASE t \notin cached[s][p]
    BY <1>2, <2>2 DEF CacheCoversScores
  <2> QED BY <2>1, <2>2
<1>4. row \in [Token -> {NegInf, Low, High}]
  BY <1>2, <1>3
<1>5. {t \in Token : row[t] # NegInf} = c
  BY <1>1, <1>3 DEF NegInf, Low, High
<1>6. {t \in Token : row[t] = High} = {chosen}
  BY <1>1, <1>3 DEF NegInf, Low, High
<1> QED BY <1>4, <1>5, <1>6 DEF row, c, chosen

(* A batch names the owner of each of its slots.                           *)
LEMMA Owner ==
  ASSUME SlotsOwned, BatchOfRunning, NEW s \in RowSlots(batch)
  PROVE  /\ OwnerIn(batch, s) \in {batch[i] : i \in 1 .. Len(batch)}
         /\ OwnerIn(batch, s) \in Running
         /\ slot[OwnerIn(batch, s)] = s
         /\ \A r \in Running : slot[r] = s => r = OwnerIn(batch, s)
<1>1. \E r \in {batch[i] : i \in 1 .. Len(batch)} : slot[r] = s
  BY DEF RowSlots
<1>2. OwnerIn(batch, s) \in {batch[i] : i \in 1 .. Len(batch)} /\ slot[OwnerIn(batch, s)] = s
  BY <1>1 DEF OwnerIn
<1>3. OwnerIn(batch, s) \in Running
  BY <1>2 DEF BatchOfRunning
<1> QED BY <1>2, <1>3 DEF SlotsOwned, Running

-----------------------------------------------------------------------------
(* Each step keeps the invariant.                                          *)

LEMMA AdmitKeeps ==
  ASSUME DraftIInv, NEW r \in Req, NEW s \in Slot, NEW t \in Token, Admit(r, s, t)
  PROVE  DraftIInv'
<1> USE DEF DraftIInv
<1>1. slot[r] = NoSlot /\ drafts[r] = <<>> /\ batch = <<>>
  BY DEF SlotsOwned, PendingDrafts, Running, Admit
<1>2. slot' \in [Req -> Slot \cup {NoSlot}] /\ slot'[r] = s
      /\ \A q \in Req : q # r => slot'[q] = slot[q] /\ slot[q] # s
  BY DEF SlotsOwned, Admit
<1>3. SlotsOwned'
  BY <1>2, SpeculatorAssumption DEF SlotsOwned, Admit
<1>4. PendingDrafts'
  <2>1. UNCHANGED <<drafts, candidates>> /\ Req \ Running' \subseteq Req \ Running
    BY <1>1, <1>2, SpeculatorAssumption DEF Running, Admit
  <2> QED BY <2>1 DEF PendingDrafts
<1>5. BatchOfRunning'
  BY <1>1 DEF BatchOfRunning, Admit
<1>6. CacheCoversScores'
  BY DEF CacheCoversScores, Admit
<1>7. RejectionReadsTheWalk'
  BY <1>1, <1>2 DEF RejectionReadsTheWalk, Running, Admit
<1> QED BY <1>3, <1>4, <1>5, <1>6, <1>7

LEMMA FinishKeeps ==
  ASSUME DraftIInv, NEW r \in Req, Finish(r)
  PROVE  DraftIInv'
<1> USE DEF DraftIInv
<1>1. batch = <<>> /\ slot' \in [Req -> Slot \cup {NoSlot}] /\ slot'[r] = NoSlot
      /\ \A q \in Req : q # r => slot'[q] = slot[q]
  BY DEF SlotsOwned, Finish
<1>2. SlotsOwned'
  BY <1>1 DEF SlotsOwned, Finish
<1>3. PendingDrafts'
  BY <1>1 DEF PendingDrafts, Running, Finish
<1>4. BatchOfRunning'
  BY <1>1 DEF BatchOfRunning, Finish
<1>5. CacheCoversScores'
  BY DEF CacheCoversScores, Finish
<1>6. RejectionReadsTheWalk'
  BY <1>1 DEF RejectionReadsTheWalk, PendingDrafts, Running, Finish
<1> QED BY <1>2, <1>3, <1>4, <1>5, <1>6

LEMMA VerifyKeeps ==
  ASSUME DraftIInv, NEW rows \in Rounds, NEW n, NEW sampled, Verify(rows, n, sampled)
  PROVE  DraftIInv'
<1> USE DEF DraftIInv
<1>1. \A r \in Req : drafts'[r] = <<>> \/ drafts'[r] = drafts[r]
  BY DEF Verify
<1>2. SlotsOwned'
  BY DEF SlotsOwned, Verify
<1>3. PendingDrafts'
  BY DEF PendingDrafts, Running, Verify
<1>4. BatchOfRunning'
  <2>1. Running' = Running /\ batch' = rows
    BY DEF Verify, Running
  <2>3. IsFiniteSet(Running) /\ Cardinality(Running) \in Nat
    BY FS_Subset, FS_CardinalityType, SpeculatorAssumption DEF Running
  <2>4. PICK m \in 1 .. Cardinality(Running) : rows \in [1 .. m -> Running]
    BY DEF Rounds
  <2>5. rows \in Seq(Running)
    BY <2>3, <2>4
  <2>2. \A i, k \in 1 .. Len(rows) : i # k => rows[i] # rows[k]
    BY DEF Verify
  <2> QED BY <2>1, <2>2, <2>5 DEF BatchOfRunning
<1>5. CacheCoversScores'
  BY DEF CacheCoversScores, Verify
<1>6. RejectionReadsTheWalk'
  BY <1>1 DEF RejectionReadsTheWalk, Running, Verify
<1> QED BY <1>2, <1>3, <1>4, <1>5, <1>6

LEMMA GenerateDraftKeeps ==
  ASSUME DraftIInv, NEW pick \in [{batch[i] : i \in 1 .. Len(batch)} -> [Step -> Picks]],
         GenerateDraft(pick)
  PROVE  DraftIInv'
<1> USE DEF DraftIInv
<1> DEFINE B == {batch[i] : i \in 1 .. Len(batch)}
<1>1. \A r \in B : r \in Running /\ \A p \in Step : pick[r][p] \in Picks
  BY DEF BatchOfRunning
<1>2. \A x \in Picks : x[1] \in Candidates /\ x[2] \in Token /\ x[1] \in SUBSET Token
  BY DEF Picks, Candidates
<1>3. UNCHANGED <<slot, served>> /\ batch' = <<>> /\ Running' = Running
  BY DEF GenerateDraft, Running
<1>4. SlotsOwned'
  BY <1>3 DEF SlotsOwned
<1>5. PendingDrafts'
  <2>1. \A r \in B : [p \in Step |-> pick[r][p][2]] \in [Step -> Token]
                     /\ [p \in Step |-> pick[r][p][1]] \in [Step -> Candidates]
    BY <1>1, <1>2
  <2>2. DOMAIN pick = B
    OBVIOUS
  <2>3. drafts' = [r \in Req |-> IF r \in B THEN [p \in Step |-> pick[r][p][2]] ELSE drafts[r]]
    BY <2>2 DEF GenerateDraft
  <2>4. candidates' = [r \in Req |-> IF r \in B THEN [p \in Step |-> pick[r][p][1]]
                                     ELSE candidates[r]]
    BY <2>2 DEF GenerateDraft
  <2>5. drafts' \in [Req -> {<<>>} \cup [Step -> Token]]
    BY <2>1, <2>3 DEF PendingDrafts
  <2>6. candidates' \in [Req -> {<<>>} \cup [Step -> Candidates]]
    BY <2>1, <2>4 DEF PendingDrafts
  <2>7. \A r \in Req \ Running : drafts'[r] = <<>>
    BY <1>1, <2>3 DEF PendingDrafts
  <2> QED BY <1>3, <2>5, <2>6, <2>7 DEF PendingDrafts
<1>6. BatchOfRunning'
  BY <1>3 DEF BatchOfRunning
<1>7. ASSUME NEW s \in RowSlots(batch), NEW p \in Step
      PROVE  /\ s \in Slot /\ OwnerIn(batch, s) \in B
             /\ pick[OwnerIn(batch, s)][p] \in Picks
             /\ cached'[s][p] = pick[OwnerIn(batch, s)][p][1]
             /\ logits'[s][p] = CacheDraftLogits(s, p, pick[OwnerIn(batch, s)][p][1],
                                                       pick[OwnerIn(batch, s)][p][2])
  <2>1. OwnerIn(batch, s) \in B /\ OwnerIn(batch, s) \in Running /\ slot[OwnerIn(batch, s)] = s
    BY Owner
  <2>2. s \in Slot
    BY <2>1 DEF SlotsOwned, Running
  <2> QED BY <1>1, <2>1, <2>2 DEF GenerateDraft
<1>8. ASSUME NEW s \in RowSlots(batch), NEW p \in Step
      PROVE  /\ cached'[s][p] = pick[OwnerIn(batch, s)][p][1]
             /\ cached'[s][p] \in SUBSET Token
             /\ logits'[s][p] \in [Token -> {NegInf, Low, High}]
             /\ {t \in Token : logits'[s][p][t] # NegInf} = pick[OwnerIn(batch, s)][p][1]
             /\ {t \in Token : logits'[s][p][t] = High} = {pick[OwnerIn(batch, s)][p][2]}
  BY <1>2, <1>7, CacheRow
<1>9. CacheCoversScores'
  <2>1. \A s \in Slot \ RowSlots(batch) : logits'[s] = logits[s] /\ cached'[s] = cached[s]
    BY DEF GenerateDraft
  <2>2. ASSUME NEW s \in Slot, NEW p \in Step
        PROVE  /\ logits'[s][p] \in [Token -> {NegInf, Low, High}]
               /\ cached'[s][p] \in SUBSET Token
               /\ \A t \in Token : logits'[s][p][t] # NegInf => t \in cached'[s][p]
    <3>1. CASE s \in RowSlots(batch)
      BY <1>8, <3>1
    <3>2. CASE s \notin RowSlots(batch)
      BY <2>1, <3>2 DEF CacheCoversScores
    <3> QED BY <3>1, <3>2
  <2>3. logits' = [s \in Slot |-> logits'[s]] /\ cached' = [s \in Slot |-> cached'[s]]
    BY DEF GenerateDraft
  <2>4. \A s \in Slot : logits'[s] = [p \in Step |-> logits'[s][p]]
                        /\ cached'[s] = [p \in Step |-> cached'[s][p]]
    <3> SUFFICES ASSUME NEW s \in Slot
                 PROVE  logits'[s] = [p \in Step |-> logits'[s][p]]
                        /\ cached'[s] = [p \in Step |-> cached'[s][p]]
      OBVIOUS
    <3>1. CASE s \in RowSlots(batch)
      BY <3>1 DEF GenerateDraft
    <3>2. CASE s \notin RowSlots(batch)
      BY <2>1, <3>2 DEF CacheCoversScores
    <3> QED BY <3>1, <3>2
  <2>5. \A s \in Slot : logits'[s] \in [Step -> [Token -> {NegInf, Low, High}]]
                        /\ cached'[s] \in [Step -> SUBSET Token]
    BY <2>2, <2>4
  <2>6. logits' \in [Slot -> [Step -> [Token -> {NegInf, Low, High}]]]
        /\ cached' \in [Slot -> [Step -> SUBSET Token]]
    BY <2>3, <2>5
  <2> QED BY <2>2, <2>6 DEF CacheCoversScores
<1>10. RejectionReadsTheWalk'
  <2> SUFFICES ASSUME NEW r \in Running, NEW p \in Step, drafts'[r] # <<>>
               PROVE  /\ {t \in Token : logits'[slot[r]][p][t] # NegInf} = candidates'[r][p]
                      /\ {t \in Token : logits'[slot[r]][p][t] = High} = {drafts'[r][p]}
    BY <1>3 DEF RejectionReadsTheWalk
  <2>1. CASE r \in B
    <3>1. slot[r] \in RowSlots(batch)
      BY <2>1 DEF RowSlots
    <3>2. r = OwnerIn(batch, slot[r])
      BY <3>1, Owner
    <3>3. drafts'[r][p] = pick[r][p][2] /\ candidates'[r][p] = pick[r][p][1]
      BY <2>1 DEF GenerateDraft, Running
    <3> QED BY <1>8, <3>1, <3>2, <3>3
  <2>2. CASE r \notin B
    <3>1. slot[r] \notin RowSlots(batch)
      BY <1>1, <2>2 DEF RowSlots, SlotsOwned, Running
    <3>2. slot[r] \in Slot
      BY DEF SlotsOwned, Running
    <3>3. logits'[slot[r]] = logits[slot[r]]
      BY <3>1, <3>2 DEF GenerateDraft
    <3>4. drafts'[r] = drafts[r] /\ candidates'[r] = candidates[r]
      BY <2>2 DEF GenerateDraft, Running
    <3> QED BY <3>3, <3>4 DEF RejectionReadsTheWalk
  <2> QED BY <2>1, <2>2
<1> QED BY <1>4, <1>5, <1>6, <1>9, <1>10

LEMMA InitDraftIInv == Init => DraftIInv
<1> SUFFICES ASSUME Init PROVE DraftIInv
  OBVIOUS
<1>1. Running = {}
  BY DEF Init, Running
<1>2. SlotsOwned
  BY DEF Init, SlotsOwned
<1>3. PendingDrafts
  BY DEF Init, PendingDrafts
<1>4. BatchOfRunning
  BY DEF Init, BatchOfRunning
<1>5. CacheCoversScores
  BY SpeculatorAssumption DEF Init, CacheCoversScores
<1>6. RejectionReadsTheWalk
  BY <1>1 DEF RejectionReadsTheWalk
<1> QED BY <1>2, <1>3, <1>4, <1>5, <1>6 DEF DraftIInv

LEMMA NextDraftIInv ==
  ASSUME DraftIInv, [Next]_vars
  PROVE  DraftIInv'
<1>1. CASE \E r \in Req, s \in Slot, t \in Token : Admit(r, s, t)
  BY <1>1, AdmitKeeps
<1>2. CASE \E rows \in Rounds : \E n \in Kept(rows) : \E sampled \in Samples(rows, n) :
             Verify(rows, n, sampled)
  BY <1>2, VerifyKeeps
<1>3. CASE \E pick \in [{batch[i] : i \in 1 .. Len(batch)} -> [Step -> Picks]] :
             GenerateDraft(pick)
  BY <1>3, GenerateDraftKeeps
<1>4. CASE \E r \in Req : Finish(r)
  BY <1>4, FinishKeeps
<1>5. CASE UNCHANGED vars
  BY <1>5 DEF vars, DraftIInv, SlotsOwned, PendingDrafts, BatchOfRunning,
              CacheCoversScores, RejectionReadsTheWalk, Running
<1> QED BY <1>1, <1>2, <1>3, <1>4, <1>5 DEF Next

(* Whoever used the slot before and whatever the batches were, the         *)
(* rejection sampler reads the scores of the walk that proposed the drafts *)
(* it checks (_cache_draft_logits_kernel erases exactly what it must).     *)
THEOREM RejectionAlwaysReadsTheWalk == Spec => []RejectionReadsTheWalk
<1>1. Init => DraftIInv
  BY InitDraftIInv
<1>2. DraftIInv /\ [Next]_vars => DraftIInv'
  BY NextDraftIInv
<1>3. DraftIInv => RejectionReadsTheWalk
  BY DEF DraftIInv
<1> QED BY <1>1, <1>2, <1>3, PTL DEF Spec
-----------------------------------------------------------------------------
(* The verification batch, flat.                                           *)

(* Rows of one length laid end to end.                                     *)
Laid(seqs, m, L) == [k \in 1 .. m * L |-> seqs[((k - 1) \div L) + 1][((k - 1) % L) + 1]]

EvenRows(m, L, T) == [1 .. m -> [1 .. L -> T]]

LEMMA LaidNext ==
  ASSUME NEW m \in Nat, NEW L \in Nat \ {0}, NEW T, NEW i \in 1 .. m, i > 1,
         NEW seqs \in EvenRows(m, L, T)
  PROVE  Laid(seqs, i - 1, L) \o seqs[i] = Laid(seqs, i, L)
<1>13. seqs \in [1 .. m -> [1 .. L -> T]]
  BY DEF EvenRows
<1> DEFINE s == Laid(seqs, i - 1, L)
           u == Laid(seqs, i, L)
<1>1. PICK p \in Nat : p = L * (i - 1) /\ (i - 1) * L = p /\ i * L = p + L
  <2>1. L * (i - 1) \in Nat /\ (i - 1) * L = L * (i - 1) /\ i * L = L * (i - 1) + L
    OBVIOUS
  <2> QED BY <2>1
<1>2. s = [k \in 1 .. p |-> seqs[((k - 1) \div L) + 1][((k - 1) % L) + 1]]
      /\ u = [k \in 1 .. p + L |-> seqs[((k - 1) \div L) + 1][((k - 1) % L) + 1]]
  BY <1>1 DEF Laid
<1>3. ASSUME NEW j \in 1 .. m, NEW k \in 1 .. j * L
      PROVE  seqs[((k - 1) \div L) + 1][((k - 1) % L) + 1] \in T
  <2> DEFINE q == (k - 1) \div L
             o == (k - 1) % L
  <2>1. q \in 0 .. j - 1 /\ o \in 0 .. L - 1
    BY FlatPlace
  <2> HIDE DEF q, o
  <2>2. q + 1 \in 1 .. m /\ o + 1 \in 1 .. L
    BY <2>1
  <2>3. seqs[q + 1][o + 1] \in T
    BY <1>13, <2>2
  <2> QED BY <2>3 DEF q, o
<1> DEFINE at(k) == seqs[((k - 1) \div L) + 1][((k - 1) % L) + 1]
<1>4. \A k \in 1 .. p : at(k) \in T
  <2>1. i - 1 \in 1 .. m
    OBVIOUS
  <2> QED BY <1>1, <1>3, <2>1
<1>5. \A k \in 1 .. p + L : at(k) \in T
  BY <1>1, <1>3
<1>6. s = [k \in 1 .. p |-> at(k)] /\ u = [k \in 1 .. p + L |-> at(k)]
  BY <1>2
<1>7. \A k \in 1 .. L : at(p + k) = seqs[i][k]
  <2> SUFFICES ASSUME NEW k \in 1 .. L PROVE at(p + k) = seqs[i][k]
    OBVIOUS
  <2>1. PICK y \in Nat : y = p + k - 1
    <3>1. p + k - 1 \in Nat
      OBVIOUS
    <3> QED BY <3>1
  <2>2. y = L * (i - 1) + (k - 1) /\ k - 1 \in 0 .. L - 1 /\ i - 1 \in Nat
    <3>1. y = p + (k - 1)
      BY <2>1
    <3> QED BY <1>1, <3>1
  <2>3. y % L = k - 1 /\ y \div L = i - 1
    <3>1. PICK q \in Nat, o \in 0 .. L - 1 : q = i - 1 /\ o = k - 1 /\ y = L * q + o
      BY <2>2
    <3>2. y % L = o /\ y \div L = q
      <4> HIDE DEF at, s, u
      <4>1. L \in Nat \ {0} /\ y \in Nat /\ q \in Nat /\ o \in 0 .. L - 1 /\ y = L * q + o
        BY <3>1
      <4> QED BY <4>1, DivModUnique
    <3> QED BY <3>1, <3>2
  <2> QED BY <2>1, <2>3
<1>8. seqs[i] \in [1 .. L -> T]
  BY <1>13
<1> HIDE DEF s, u, at
<1>9. s \in [1 .. p -> T] /\ u \in [1 .. p + L -> T]
  BY <1>4, <1>5, <1>6
<1> DEFINE r == seqs[i]
<1>10. /\ s \in Seq(T) /\ r \in Seq(T) /\ u \in Seq(T)
       /\ Len(s) = p /\ Len(r) = L /\ Len(u) = p + L
  BY <1>8, <1>9
<1>11. \A k \in 1 .. p + L : u[k] = IF k <= p THEN s[k] ELSE r[k - p]
  <2> SUFFICES ASSUME NEW k \in 1 .. p + L PROVE u[k] = IF k <= p THEN s[k] ELSE r[k - p]
    OBVIOUS
  <2>1. CASE k <= p
    BY <1>6, <2>1
  <2>2. CASE k > p
    <3>1. PICK j \in 1 .. L : k = p + j /\ k - p = j
      <4>1. k - p \in 1 .. L /\ k = p + (k - p)
        BY <2>2
      <4> QED BY <4>1
    <3> QED BY <1>6, <1>7, <2>2, <3>1
  <2> QED BY <2>1, <2>2
<1> HIDE DEF r
<1>12. s \o r = u
  <2>1. s \o r \in Seq(T) /\ Len(s \o r) = p + L
        /\ \A k \in 1 .. p + L : (s \o r)[k] = IF k <= p THEN s[k] ELSE r[k - p]
    BY <1>10, ConcatProperties
  <2> QED BY <1>10, <1>11, <2>1, SeqEqual
<1> QED BY <1>12 DEF s, u, r

LEMMA FlattenUniform ==
  ASSUME NEW m \in Nat \ {0}, NEW L \in Nat \ {0}, NEW T, NEW seqs \in EvenRows(m, L, T)
  PROVE  FlattenSeq(seqs) = Laid(seqs, m, L)
<1>1. Len(seqs) = m /\ seqs \in [1 .. m -> [1 .. L -> T]]
  BY DEF EvenRows
<1>2. \A i \in 1 .. m : i # 1 => i - 1 \in 1 .. m /\ Laid(seqs, i - 1, L) \o seqs[i] = Laid(seqs, i, L)
  <2> SUFFICES ASSUME NEW i \in 1 .. m, i # 1
               PROVE  i - 1 \in 1 .. m /\ Laid(seqs, i - 1, L) \o seqs[i] = Laid(seqs, i, L)
    OBVIOUS
  <2>1. m \in Nat /\ i > 1 /\ i - 1 \in 1 .. m
    OBVIOUS
  <2> QED BY <2>1, LaidNext
<1>3. Laid(seqs, 1, L) = seqs[1]
  <2>1. \A k \in 1 .. L : (k - 1) \div L = 0 /\ (k - 1) % L = k - 1
    <3> SUFFICES ASSUME NEW k \in 1 .. L PROVE (k - 1) \div L = 0 /\ (k - 1) % L = k - 1
      OBVIOUS
    <3>1. k - 1 \in Nat /\ 0 \in Nat /\ k - 1 \in 0 .. L - 1 /\ k - 1 = L * 0 + (k - 1)
      OBVIOUS
    <3> QED BY <3>1, DivModUnique
  <2> QED BY <1>1, <2>1 DEF Laid
<1> DEFINE Eq(f) == f = [i \in 1 .. m |-> IF i = 1 THEN seqs[i] ELSE f[i - 1] \o seqs[i]]
           laid == [i \in 1 .. m |-> Laid(seqs, i, L)]
           flatten == CHOOSE f : Eq(f)
<1>4. Eq(laid)
  <2>1. \A i \in 1 .. m : laid[i] = Laid(seqs, i, L)
    OBVIOUS
  <2> HIDE DEF laid
  <2>2. ASSUME NEW i \in 1 .. m
        PROVE  Laid(seqs, i, L) = IF i = 1 THEN seqs[i] ELSE laid[i - 1] \o seqs[i]
    <3>1. i # 1 => laid[i - 1] = Laid(seqs, i - 1, L)
      BY <1>2, <2>1
    <3> QED BY <1>2, <1>3, <3>1, Zenon
  <2> QED BY <2>2 DEF laid
<1>5. FlattenSeq(seqs) = flatten[m]
  BY <1>1 DEF FlattenSeq
<1>6. Eq(flatten)
  BY <1>4
<1> HIDE DEF flatten
<1>7. \A i \in 1 .. m : flatten[i] = IF i = 1 THEN seqs[i] ELSE flatten[i - 1] \o seqs[i]
  BY <1>6
<1> HIDE DEF Eq, laid
<1>8. \A i \in 1 .. m : flatten[i] = Laid(seqs, i, L)
  <2> DEFINE S == {i \in Nat : i \in 1 .. m => flatten[i] = Laid(seqs, i, L)}
  <2>1. 0 \in S
    OBVIOUS
  <2>2. ASSUME NEW j \in Nat, j \in S PROVE j + 1 \in S
    <3> SUFFICES ASSUME j + 1 \in 1 .. m PROVE flatten[j + 1] = Laid(seqs, j + 1, L)
      OBVIOUS
    <3>1. PICK i \in 1 .. m : i = j + 1 /\ i - 1 = j
      OBVIOUS
    <3>2. CASE i = 1
      <4>1. flatten[i] = seqs[i]
        BY <1>7, <3>2, Zenon
      <4> QED BY <1>3, <3>1, <3>2, <4>1
    <3>3. CASE i # 1
      <4>1. flatten[i] = flatten[i - 1] \o seqs[i] /\ i - 1 \in 1 .. m
            /\ Laid(seqs, i - 1, L) \o seqs[i] = Laid(seqs, i, L)
        BY <1>2, <1>7, <3>3, Zenon
      <4>2. flatten[i - 1] = Laid(seqs, i - 1, L)
        BY <2>2, <3>1, <4>1
      <4>3. flatten[i] = Laid(seqs, i, L)
        BY <4>1, <4>2, Zenon
      <4> QED BY <3>1, <4>3
    <3> QED BY <3>2, <3>3
  <2> HIDE DEF S
  <2>3. Nat \subseteq S
    BY <2>1, <2>2, SetInduction
  <2> QED BY <2>3 DEF S
<1> QED BY <1>5, <1>8

(* One row of draft_sampled: the row's last token, then all its drafts.    *)
Chunk(r) == <<last[r]>> \o SubSeq(drafts[r], 1, NumSpec)

LEMMA ChunkFacts ==
  ASSUME PendingDrafts, last \in [Req -> Token], NEW r \in Req, Len(drafts[r]) = NumSpec
  PROVE  /\ Chunk(r) \in [1 .. NumSpec + 1 -> Token]
         /\ \A k \in 1 .. NumSpec : Chunk(r)[k + 1] = drafts[r][k]
<1>1. NumSpec \in Nat \ {0}
  BY SpeculatorAssumption
<1>2. drafts[r] \in [1 .. NumSpec -> Token]
  <2>1. drafts[r] # <<>>
    BY <1>1
  <2> QED BY <2>1 DEF PendingDrafts, Step
<1> DEFINE d == SubSeq(drafts[r], 1, NumSpec)
           h == <<last[r]>>
<1>3. drafts[r] \in Seq(Token) /\ 1 \in 1 .. NumSpec + 1 /\ NumSpec \in 1 - 1 .. Len(drafts[r])
  BY <1>1, <1>2
<1>4. d \in Seq(Token) /\ Len(d) = NumSpec /\ \A k \in 1 .. NumSpec : d[k] = drafts[r][k]
  BY <1>1, <1>3
<1>5. h \in Seq(Token) /\ Len(h) = 1
  OBVIOUS
<1> HIDE DEF d, h
<1>6. /\ h \o d \in Seq(Token) /\ Len(h \o d) = NumSpec + 1
      /\ \A k \in 1 .. NumSpec + 1 : (h \o d)[k] = IF k <= 1 THEN h[k] ELSE d[k - 1]
  <2>1. /\ h \o d \in Seq(Token) /\ Len(h \o d) = Len(h) + Len(d)
        /\ \A k \in 1 .. Len(h) + Len(d) :
             (h \o d)[k] = IF k <= Len(h) THEN h[k] ELSE d[k - Len(h)]
    BY <1>4, <1>5, ConcatProperties
  <2>2. Len(h) + Len(d) = NumSpec + 1
    BY <1>1, <1>4, <1>5
  <2> QED BY <1>5, <2>1, <2>2
<1>7. h \o d \in [1 .. NumSpec + 1 -> Token]
  BY <1>6, LenProperties
<1>8. \A k \in 1 .. NumSpec : (h \o d)[k + 1] = drafts[r][k]
  BY <1>1, <1>4, <1>6
<1> QED BY <1>7, <1>8 DEF Chunk, d, h

(* With NumSpec drafts in every row, row i starts after i - 1 rows.        *)
LEMMA FlatUniform ==
  ASSUME PendingDrafts, last \in [Req -> Token],
         NEW m \in Nat, NEW rows \in [1 .. m -> Req], NEW n,
         \A i \in 1 .. m : n[rows[i]] = NumSpec /\ Len(drafts[rows[i]]) = NumSpec
  PROVE  /\ Len(FlatDrafts(rows, n)) = m * (NumSpec + 1)
         /\ \A i \in 1 .. m, a \in 0 .. NumSpec - 1 :
              FlatDrafts(rows, n)[(NumSpec + 1) * (i - 1) + a + 2] = drafts[rows[i]][a + 1]
<1> DEFINE L == NumSpec + 1
           seqs == [i \in 1 .. m |-> Chunk(rows[i])]
<1>1. NumSpec \in Nat \ {0} /\ L \in Nat \ {0}
  BY SpeculatorAssumption
<1>2. FlatDrafts(rows, n) = FlattenSeq(seqs)
  <2>1. Len(rows) = m
    OBVIOUS
  <2>2. \A i \in 1 .. m :
          <<last[rows[i]]>> \o SubSeq(drafts[rows[i]], 1, n[rows[i]]) = Chunk(rows[i])
    BY DEF Chunk
  <2>3. [i \in 1 .. Len(rows) |-> <<last[rows[i]]>> \o SubSeq(drafts[rows[i]], 1, n[rows[i]])] = seqs
    BY <2>1, <2>2
  <2> QED BY <2>3, Zenon DEF FlatDrafts
<1>3. \A i \in 1 .. m : Chunk(rows[i]) \in [1 .. L -> Token]
        /\ \A k \in 1 .. NumSpec : Chunk(rows[i])[k + 1] = drafts[rows[i]][k]
  BY ChunkFacts
<1>4. seqs \in EvenRows(m, L, Token)
  BY <1>3 DEF EvenRows
<1>5. CASE m = 0
  <2>1. Len(seqs) = 0
    BY <1>5
  <2>2. FlattenSeq(seqs) = seqs
    BY <2>1 DEF FlattenSeq
  <2> QED BY <1>1, <1>2, <1>5, <2>1, <2>2
<1>6. CASE m # 0
  <2>1. FlatDrafts(rows, n) = Laid(seqs, m, L)
    <3> HIDE DEF seqs, L
    <3> QED BY <1>1, <1>2, <1>4, <1>6, FlattenUniform
  <2>2. Len(FlatDrafts(rows, n)) = m * L
    <3>1. m * L \in Nat
      BY <1>1
    <3> HIDE DEF L, seqs
    <3> QED BY <2>1, <3>1 DEF Laid
  <2>3. ASSUME NEW i \in 1 .. m, NEW a \in 0 .. NumSpec - 1
        PROVE  FlatDrafts(rows, n)[L * (i - 1) + a + 2] = drafts[rows[i]][a + 1]
    <3>1. PICK y \in Nat, q \in Nat, o \in 0 .. L - 1 :
            q = i - 1 /\ o = a + 1 /\ y = L * q + o /\ L * (i - 1) + a + 2 = y + 1
      <4>1. L * (i - 1) \in Nat /\ i - 1 \in Nat /\ a + 1 \in 0 .. L - 1
        BY <1>1
      <4>2. L * (i - 1) + (a + 1) \in Nat /\ L * (i - 1) + a + 2 = L * (i - 1) + (a + 1) + 1
        BY <1>1, <4>1
      <4> QED BY <4>1, <4>2
    <3>2. y % L = o /\ y \div L = q
      <4> HIDE DEF L, seqs
      <4> QED BY <1>1, <3>1, DivModUnique
    <3>3. y + 1 \in 1 .. m * L
      <4>1. q + 1 <= m /\ L * (q + 1) = L * q + L
        BY <1>1, <3>1
      <4>2. PICK e \in Nat : m = q + 1 + e
        <5>1. m - (q + 1) \in Nat /\ m = q + 1 + (m - (q + 1))
          BY <4>1
        <5> QED BY <5>1
      <4>3. m * L = L * q + L + e * L /\ e * L \in Nat /\ L * q \in Nat
        BY <1>1, <4>2
      <4> HIDE DEF L
      <4> QED BY <1>1, <3>1, <4>3
    <3>4. Laid(seqs, m, L)[y + 1] = seqs[q + 1][o + 1]
      <4>1. (y + 1) - 1 = y
        BY <3>1
      <4> HIDE DEF L, seqs
      <4> QED BY <3>2, <3>3, <4>1 DEF Laid
    <3>5. seqs[q + 1][o + 1] = drafts[rows[i]][a + 1]
      <4>1. q + 1 = i /\ a + 1 \in 1 .. NumSpec /\ o = a + 1
        BY <1>1, <3>1
      <4> QED BY <1>3, <4>1
    <3> QED BY <2>1, <3>1, <3>4, <3>5
  <2> QED BY <2>2, <2>3
<1> QED BY <1>5, <1>6

(* The sampler's output on row r: a accepted drafts and the target's token *)
(* after them, not the next draft if there was one to check.               *)
LEMMA OutcomeFacts ==
  ASSUME PendingDrafts, NEW r \in Req, NEW n, NEW sampled,
         n[r] \in 0 .. Len(drafts[r]), sampled[r] \in Outcomes(r, n)
  PROVE  /\ Accepted(r, sampled) \in 0 .. n[r]
         /\ TargetToken(r, sampled) \in Token
         /\ Accepted(r, sampled) < n[r] =>
              TargetToken(r, sampled) # drafts[r][Accepted(r, sampled) + 1]
<1>1. drafts[r] \in Seq(Token) /\ n[r] \in Nat /\ n[r] <= Len(drafts[r])
  <2>1. drafts[r] = <<>> \/ drafts[r] \in [1 .. NumSpec -> Token]
    BY DEF PendingDrafts, Step
  <2>2. NumSpec \in Nat
    BY SpeculatorAssumption
  <2>3. drafts[r] \in Seq(Token)
    <3>1. CASE drafts[r] = <<>>
      BY <3>1, EmptySeq
    <3>2. CASE drafts[r] \in [1 .. NumSpec -> Token]
      BY <2>2, <3>2
    <3> QED BY <2>1, <3>1, <3>2
  <2> QED BY <2>3
<1>2. PICK a \in 0 .. n[r], t \in Token :
        /\ a < n[r] => t # drafts[r][a + 1]
        /\ sampled[r] = SubSeq(drafts[r], 1, a) \o <<t>>
  <2>1. PICK x \in (0 .. n[r]) \X Token :
          /\ x[1] < n[r] => x[2] # drafts[r][x[1] + 1]
          /\ sampled[r] = SubSeq(drafts[r], 1, x[1]) \o <<x[2]>>
    BY DEF Outcomes
  <2> QED BY <2>1
<1> DEFINE d == SubSeq(drafts[r], 1, a)
           e == <<t>>
<1>3. d \in Seq(Token) /\ Len(d) = a
  BY <1>1
<1>4. e \in Seq(Token) /\ Len(e) = 1 /\ e[1] = t
  OBVIOUS
<1>5. sampled[r] = d \o e
  BY <1>2
<1> HIDE DEF d, e
<1>6. /\ Len(d \o e) = Len(d) + Len(e)
      /\ \A k \in 1 .. Len(d) + Len(e) : (d \o e)[k] = IF k <= Len(d) THEN d[k] ELSE e[k - Len(d)]
  BY <1>3, <1>4, ConcatProperties
<1>7. a \in Nat /\ Len(sampled[r]) = a + 1 /\ sampled[r][a + 1] = t
  BY <1>2, <1>3, <1>4, <1>5, <1>6
<1>8. Accepted(r, sampled) = a /\ TargetToken(r, sampled) = t
  BY <1>7 DEF Accepted, TargetToken
<1> QED BY <1>2, <1>8
-----------------------------------------------------------------------------
(* The probe.                                                              *)

(* The stash holds what was proposed for the drafts now pending.           *)
StashFresh ==
  \A r \in Running : drafts[r] # <<>> /\ slot[r] \in DOMAIN stash =>
    stash[slot[r]] = candidates[r]

CountsOK ==
  /\ cum \in [{"rounds", "rejected", "A", "B", "C"} -> 0 .. MaxRounds]
  /\ truth \in [{"A", "B"} -> 0 .. MaxRounds]
  /\ \A c \in {"rejected", "A", "B", "C"} : cum[c] <= cum.rounds
  /\ \A c \in {"A", "B"} : truth[c] <= cum.rounds

ProbeSound == ~ MixedBatches => ProbeCountsTrueRejections /\ NoWalkHitIsRejected

ProbeIInv ==
  /\ DraftIInv
  /\ served \subseteq Req /\ last \in [Req -> Token] /\ DOMAIN stash \subseteq Slot
  /\ StashFresh /\ CountsOK /\ ProbeSound

(* A batch of whole rows: each class the probe books is the true one, and  *)
(* it never sees the target's own token rejected.                          *)
LEMMA ClassifyFacts ==
  ASSUME ProbeIInv, NEW m \in Nat, NEW rows \in [1 .. m -> Running], NEW n, NEW sampled,
         \A i \in 1 .. m : /\ n[rows[i]] = NumSpec /\ Len(drafts[rows[i]]) = NumSpec
                           /\ sampled[rows[i]] \in Outcomes(rows[i], n),
         NEW i \in 1 .. m
  PROVE  /\ Classify(rows, n, sampled, i) = "A" => TrueClass(rows[i], n, sampled) = "A"
         /\ Classify(rows, n, sampled, i) = "B" => TrueClass(rows[i], n, sampled) = "B"
         /\ Classify(rows, n, sampled, i) # "C"
<1> DEFINE r == rows[i]
           a == Accepted(r, sampled)
           target == TargetToken(r, sampled)
           flat == FlatDrafts(rows, n)
           start == RowStart(rows, n, i)
<1>1. NumSpec \in Nat \ {0} /\ r \in Running /\ r \in Req /\ rows \in [1 .. m -> Req]
  BY SpeculatorAssumption DEF Running
<1>2. PendingDrafts /\ last \in [Req -> Token]
  BY DEF ProbeIInv, DraftIInv
<1>3. a \in 0 .. NumSpec /\ (a < NumSpec => target # drafts[r][a + 1])
  BY <1>1, <1>2, OutcomeFacts
<1>4. drafts[r] # <<>>
  BY <1>1
<1>5. slot[r] \in DOMAIN stash => stash[slot[r]] = candidates[r]
  BY <1>1, <1>4 DEF ProbeIInv, StashFresh
<1>6. start = (NumSpec + 1) * (i - 1)
  <2> DEFINE before == SubSeq(rows, 1, i - 1)
  <2>1. before \in [1 .. i - 1 -> Req] /\ i - 1 \in Nat /\ \A k \in 1 .. i - 1 : before[k] = rows[k]
    <3>1. i - 1 \in Nat /\ 1 \in Int /\ \A k \in 1 .. i - 1 : rows[k] \in Req /\ 1 + k - 1 = k
      BY <1>1
    <3>2. before \in Seq(Req) /\ Len(before) = i - 1 /\ \A k \in 1 .. i - 1 : before[k] = rows[k]
      <4>1. /\ before \in Seq(Req)
            /\ Len(before) = IF 1 <= i - 1 THEN (i - 1) - 1 + 1 ELSE 0
            /\ \A k \in 1 .. (i - 1) - 1 + 1 : before[k] = rows[1 + k - 1]
        BY <3>1, SubSeqProperties
      <4> HIDE DEF before
      <4> QED BY <3>1, <4>1
    <3> HIDE DEF before
    <3> QED BY <3>1, <3>2, LenProperties
  <2>2. \A k \in 1 .. i - 1 : n[before[k]] = NumSpec /\ Len(drafts[before[k]]) = NumSpec
    BY <2>1
  <2> HIDE DEF before
  <2>3. Len(FlatDrafts(before, n)) = (i - 1) * (NumSpec + 1)
    BY <1>2, <2>1, <2>2, FlatUniform
  <2>4. (i - 1) * (NumSpec + 1) = (NumSpec + 1) * (i - 1)
    BY <1>1, <2>1
  <2> QED BY <2>3, <2>4 DEF before, RowStart
<1>7. a < NumSpec => flat[start + a + 2] = drafts[r][a + 1]
  <2> SUFFICES ASSUME a < NumSpec PROVE flat[start + a + 2] = drafts[r][a + 1]
    OBVIOUS
  <2>1. a \in 0 .. NumSpec - 1
    BY <1>1, <1>3
  <2>2. flat[(NumSpec + 1) * (i - 1) + a + 2] = drafts[r][a + 1]
    <3>1. \A j \in 1 .. m, b \in 0 .. NumSpec - 1 :
            FlatDrafts(rows, n)[(NumSpec + 1) * (j - 1) + b + 2] = drafts[rows[j]][b + 1]
      <4> HIDE DEF a, start, r, flat, target
      <4>1. \A j \in 1 .. m : n[rows[j]] = NumSpec /\ Len(drafts[rows[j]]) = NumSpec
        OBVIOUS
      <4>2. rows \in [1 .. m -> Req]
        BY <1>1
      <4> QED BY <1>2, <4>1, <4>2, FlatUniform
    <3> HIDE DEF a, start
    <3> QED BY <2>1, <3>1
  <2> QED BY <1>6, <2>2
<1> DEFINE class == Classify(rows, n, sampled, i)
<1>8. class \in {"A", "B", "C"} =>
        /\ a < NumSpec /\ slot[r] \in DOMAIN stash
        /\ class = "A" <=> target \notin stash[slot[r]][a + 1]
        /\ class = "C" => flat[start + a + 2] = target
  BY <1>3 DEF Classify
<1>9. TrueClass(r, n, sampled) = IF a >= NumSpec THEN "none"
                                 ELSE IF target \notin candidates[r][a + 1] THEN "A" ELSE "B"
  BY DEF TrueClass
<1> HIDE DEF class, a, target, flat, start, r
<1>10. class = "C" => FALSE
  BY <1>3, <1>7, <1>8
<1>11. class = "A" => TrueClass(r, n, sampled) = "A"
  BY <1>1, <1>3, <1>5, <1>8, <1>9
<1>12. class = "B" => TrueClass(r, n, sampled) = "B"
  BY <1>1, <1>3, <1>5, <1>8, <1>9
<1> QED BY <1>10, <1>11, <1>12 DEF class, r

LEMMA RowCounts ==
  ASSUME NEW m \in Nat
  PROVE  /\ \A T \in SUBSET (1 .. m) : Cardinality(T) \in 0 .. m
         /\ \A T, U \in SUBSET (1 .. m) : T \subseteq U => Cardinality(T) <= Cardinality(U)
<1>1. IsFiniteSet(1 .. m) /\ Cardinality(1 .. m) = m
  BY FS_Interval
<1>2. \A T \in SUBSET (1 .. m) : IsFiniteSet(T) /\ Cardinality(T) <= m /\ Cardinality(T) \in Nat
  BY <1>1, FS_Subset, FS_CardinalityType
<1>3. ASSUME NEW T \in SUBSET (1 .. m), NEW U \in SUBSET (1 .. m), T \subseteq U
      PROVE  Cardinality(T) <= Cardinality(U)
  <2>1. IsFiniteSet(U) /\ T \in SUBSET U
    BY <1>2, <1>3
  <2> QED BY <2>1, FS_Subset
<1>4. \A T \in SUBSET (1 .. m) : Cardinality(T) \in 0 .. m
  BY <1>2
<1> QED BY <1>3, <1>4

LEMMA AddedCount ==
  ASSUME NEW m \in Nat, NEW y \in Nat, NEW x \in Nat, x <= y, NEW k \in 0 .. m, y + m <= MaxRounds,
         MaxRounds \in Nat
  PROVE  x + k \in 0 .. MaxRounds /\ x + k <= y + m
OBVIOUS

(* What one batch adds to a count is at most its rows.                     *)
LEMMA ObserveCounts ==
  ASSUME CountsOK, NEW m \in Nat, NEW rows, Len(rows) = m, NEW n, NEW sampled,
         cum.rounds + m <= MaxRounds, Observe(rows, n, sampled)
  PROVE  CountsOK'
<1> DEFINE N(c) == Cardinality({i \in 1 .. m : Classify(rows, n, sampled, i) = c})
           R(c) == Cardinality({i \in 1 .. m : TrueClass(rows[i], n, sampled) = c})
           J    == Cardinality(Rejected(rows, n, sampled))
<1>1. MaxRounds \in Nat
  BY SpeculatorAssumption
<1>2. /\ N("A") \in 0 .. m /\ N("B") \in 0 .. m /\ N("C") \in 0 .. m
      /\ R("A") \in 0 .. m /\ R("B") \in 0 .. m /\ J \in 0 .. m
  BY RowCounts DEF Rejected
<1>3. /\ cum' = [rounds |-> cum.rounds + m, rejected |-> cum.rejected + J,
                 A |-> cum.A + N("A"), B |-> cum.B + N("B"), C |-> cum.C + N("C")]
      /\ truth' = [A |-> truth.A + R("A"), B |-> truth.B + R("B")]
  BY DEF Observe
<1> HIDE DEF N, R, J
<1>4. /\ cum.rounds \in Nat /\ cum.rejected \in Nat /\ cum.A \in Nat /\ cum.B \in Nat
      /\ cum.C \in Nat /\ truth.A \in Nat /\ truth.B \in Nat
      /\ cum.rejected <= cum.rounds /\ cum.A <= cum.rounds /\ cum.B <= cum.rounds
      /\ cum.C <= cum.rounds /\ truth.A <= cum.rounds /\ truth.B <= cum.rounds
  BY <1>1 DEF CountsOK
<1>5. /\ cum'.rounds \in 0 .. MaxRounds /\ cum'.rejected \in 0 .. MaxRounds
      /\ cum'.A \in 0 .. MaxRounds /\ cum'.B \in 0 .. MaxRounds /\ cum'.C \in 0 .. MaxRounds
      /\ truth'.A \in 0 .. MaxRounds /\ truth'.B \in 0 .. MaxRounds
      /\ cum'.rejected <= cum'.rounds /\ cum'.A <= cum'.rounds /\ cum'.B <= cum'.rounds
      /\ cum'.C <= cum'.rounds /\ truth'.A <= cum'.rounds /\ truth'.B <= cum'.rounds
  <2>1. /\ cum'.rounds = cum.rounds + m /\ cum'.rejected = cum.rejected + J
        /\ cum'.A = cum.A + N("A") /\ cum'.B = cum.B + N("B") /\ cum'.C = cum.C + N("C")
        /\ truth'.A = truth.A + R("A") /\ truth'.B = truth.B + R("B")
    BY <1>3
  <2>2. cum.rounds + m <= MaxRounds
    OBVIOUS
  <2>3. cum'.rounds \in 0 .. MaxRounds
    BY <1>1, <1>4, <2>1, <2>2
  <2>4. /\ cum.rejected + J \in 0 .. MaxRounds /\ cum.rejected + J <= cum.rounds + m
        /\ cum.A + N("A") \in 0 .. MaxRounds /\ cum.A + N("A") <= cum.rounds + m
        /\ cum.B + N("B") \in 0 .. MaxRounds /\ cum.B + N("B") <= cum.rounds + m
        /\ cum.C + N("C") \in 0 .. MaxRounds /\ cum.C + N("C") <= cum.rounds + m
        /\ truth.A + R("A") \in 0 .. MaxRounds /\ truth.A + R("A") <= cum.rounds + m
        /\ truth.B + R("B") \in 0 .. MaxRounds /\ truth.B + R("B") <= cum.rounds + m
    BY <1>1, <1>2, <1>4, <2>2, AddedCount
  <2> QED BY <2>1, <2>3, <2>4
<1>6. cum' = [c \in {"rounds", "rejected", "A", "B", "C"} |-> cum'[c]]
      /\ truth' = [c \in {"A", "B"} |-> truth'[c]]
  BY <1>3
<1> QED BY <1>5, <1>6 DEF CountsOK

LEMMA VerifyProbes ==
  ASSUME ProbeIInv, NEW rows \in Rounds, NEW n, NEW sampled, Verify(rows, n, sampled)
  PROVE  ProbeIInv'
<1>1. DraftIInv' /\ PendingDrafts /\ last \in [Req -> Token]
  BY VerifyKeeps DEF ProbeIInv, DraftIInv
<1>2. PICK m \in Nat : rows \in [1 .. m -> Running] /\ Len(rows) = m
  <2>1. Cardinality(Running) \in Nat
    BY FS_Subset, FS_CardinalityType, SpeculatorAssumption DEF Running
  <2> QED BY <2>1 DEF Rounds
<1>3. \A i \in 1 .. m : /\ rows[i] \in Running /\ rows[i] \in Req
                        /\ n[rows[i]] \in 0 .. Len(drafts[rows[i]])
                        /\ sampled[rows[i]] \in Outcomes(rows[i], n)
  BY <1>2 DEF Verify, Running
<1>4. last' \in [Req -> Token]
  <2>1. \A i \in 1 .. m : TargetToken(rows[i], sampled) \in Token
    BY <1>1, <1>3, OutcomeFacts
  <2>2. ASSUME NEW r \in Req, \E i \in 1 .. m : rows[i] = r
        PROVE  TargetToken(r, sampled) \in Token
    BY <2>1, <2>2
  <2>3. last' = [r \in Req |-> IF \E i \in 1 .. m : rows[i] = r
                               THEN TargetToken(r, sampled) ELSE last[r]]
    BY <1>2 DEF Verify
  <2> QED BY <1>1, <2>2, <2>3
<1>5. StashFresh'
  <2>1. \A r \in Req : drafts'[r] = <<>> \/ drafts'[r] = drafts[r]
    BY DEF Verify
  <2> QED BY <2>1 DEF ProbeIInv, StashFresh, Running, Verify
<1>6. CASE UNCHANGED <<cum, truth>>
  <2>1. CountsOK' /\ ProbeSound'
    BY <1>6 DEF ProbeIInv, CountsOK, ProbeSound, ProbeCountsTrueRejections, NoWalkHitIsRejected
  <2> QED BY <1>1, <1>4, <1>5, <2>1 DEF ProbeIInv, Verify
<1>7. CASE /\ cum.rounds + m <= MaxRounds /\ Observe(rows, n, sampled)
           /\ ~ \A i \in 1 .. m : n[rows[i]] = 0
  <2>1. CountsOK'
    BY <1>2, <1>7, ObserveCounts DEF ProbeIInv
  <2>2. ASSUME ~ MixedBatches PROVE ProbeCountsTrueRejections' /\ NoWalkHitIsRejected'
    <3>1. \A i \in 1 .. m : n[rows[i]] = NumSpec /\ Len(drafts[rows[i]]) = NumSpec
      <4>1. \A i \in 1 .. m : n[rows[i]] = NumSpec
        <5>1. (\A i \in 1 .. m : n[rows[i]] = NumSpec) \/ (\A i \in 1 .. m : drafts[rows[i]] = <<>>)
          BY <1>2, <2>2 DEF Verify
        <5>2. CASE \A i \in 1 .. m : drafts[rows[i]] = <<>>
          <6>1. \A i \in 1 .. m : n[rows[i]] = 0
            BY <1>3, <5>2
          <6> QED BY <1>7, <6>1
        <5> QED BY <5>1, <5>2
      <4>2. NumSpec \in Nat \ {0}
        BY SpeculatorAssumption
      <4>3. ASSUME NEW i \in 1 .. m PROVE Len(drafts[rows[i]]) = NumSpec
        <5>1. drafts[rows[i]] # <<>>
          BY <1>3, <4>1, <4>2
        <5>2. drafts[rows[i]] \in [1 .. NumSpec -> Token]
          BY <1>1, <1>3, <5>1 DEF PendingDrafts, Step
        <5> QED BY <4>2, <5>2
      <4> QED BY <4>1, <4>3
    <3> DEFINE Booked(c) == {i \in 1 .. m : Classify(rows, n, sampled, i) = c}
               True(c)   == {i \in 1 .. m : TrueClass(rows[i], n, sampled) = c}
    <3>2. Booked("A") \subseteq True("A") /\ Booked("B") \subseteq True("B") /\ Booked("C") = {}
      BY <1>2, <1>3, <3>1, ClassifyFacts
    <3>3. /\ cum'.A = cum.A + Cardinality(Booked("A")) /\ truth'.A = truth.A + Cardinality(True("A"))
          /\ cum'.B = cum.B + Cardinality(Booked("B")) /\ truth'.B = truth.B + Cardinality(True("B"))
          /\ cum'.C = cum.C + Cardinality(Booked("C"))
      BY <1>2, <1>7 DEF Observe
    <3>4. /\ Booked("A") \in SUBSET (1 .. m) /\ True("A") \in SUBSET (1 .. m)
          /\ Booked("B") \in SUBSET (1 .. m) /\ True("B") \in SUBSET (1 .. m)
      OBVIOUS
    <3>5. /\ cum.A \in Nat /\ truth.A \in Nat /\ cum.B \in Nat /\ truth.B \in Nat /\ cum.C = 0
          /\ cum.A <= truth.A /\ cum.B <= truth.B
      BY <2>2, SpeculatorAssumption
         DEF ProbeIInv, CountsOK, ProbeSound, ProbeCountsTrueRejections, NoWalkHitIsRejected
    <3> HIDE DEF Booked, True
    <3>6. /\ Cardinality(Booked("A")) \in Nat /\ Cardinality(True("A")) \in Nat
          /\ Cardinality(Booked("A")) <= Cardinality(True("A"))
          /\ Cardinality(Booked("B")) \in Nat /\ Cardinality(True("B")) \in Nat
          /\ Cardinality(Booked("B")) <= Cardinality(True("B"))
      BY <3>2, <3>4, RowCounts
    <3>7. cum'.C = 0
      BY <3>2, <3>3, <3>5, FS_EmptySet
    <3>8. cum'.A <= truth'.A /\ cum'.B <= truth'.B
      BY <3>3, <3>5, <3>6
    <3> QED BY <3>7, <3>8 DEF ProbeCountsTrueRejections, NoWalkHitIsRejected
  <2>3. ProbeSound'
    BY <2>2 DEF ProbeSound
  <2> QED BY <1>1, <1>4, <1>5, <2>1, <2>3 DEF ProbeIInv, Verify
<1> QED BY <1>2, <1>6, <1>7 DEF Verify

LEMMA GenerateDraftProbes ==
  ASSUME ProbeIInv, NEW pick \in [{batch[i] : i \in 1 .. Len(batch)} -> [Step -> Picks]],
         GenerateDraft(pick)
  PROVE  ProbeIInv'
<1> DEFINE B == {batch[i] : i \in 1 .. Len(batch)}
<1>1. DraftIInv' /\ SlotsOwned /\ BatchOfRunning
  BY GenerateDraftKeeps DEF ProbeIInv, DraftIInv
<1>2. Running' = Running /\ UNCHANGED <<slot, served, last, cum, truth>>
  BY DEF GenerateDraft, Running
<1>3. DOMAIN stash' = RowSlots(batch) /\ DOMAIN pick = B
  BY DEF GenerateDraft
<1>4. DOMAIN stash' \subseteq Slot
  <2>1. \A s \in RowSlots(batch) : s \in Slot
    BY <1>1, Owner DEF SlotsOwned, Running
  <2> QED BY <1>3, <2>1
<1>5. StashFresh'
  <2> SUFFICES ASSUME NEW r \in Running, slot[r] \in RowSlots(batch)
               PROVE  stash'[slot[r]] = candidates'[r]
    BY <1>2, <1>3 DEF StashFresh
  <2>1. r = OwnerIn(batch, slot[r]) /\ r \in B
    BY <1>1, Owner
  <2>2. stash'[slot[r]] = [p \in Step |-> pick[r][p][1]]
    BY <2>1 DEF GenerateDraft
  <2>3. candidates'[r] = [p \in Step |-> pick[r][p][1]]
    BY <1>3, <2>1 DEF GenerateDraft, Running
  <2> QED BY <2>2, <2>3
<1>6. CountsOK' /\ ProbeSound'
  BY <1>2 DEF ProbeIInv, CountsOK, ProbeSound, ProbeCountsTrueRejections, NoWalkHitIsRejected
<1> QED BY <1>1, <1>2, <1>4, <1>5, <1>6 DEF ProbeIInv

LEMMA AdmitProbes ==
  ASSUME ProbeIInv, NEW r \in Req, NEW s \in Slot, NEW t \in Token, Admit(r, s, t)
  PROVE  ProbeIInv'
<1>1. DraftIInv' /\ SlotsOwned /\ PendingDrafts
  BY AdmitKeeps DEF ProbeIInv, DraftIInv
<1>2. /\ UNCHANGED <<drafts, stash, cum, candidates, truth>> /\ drafts[r] = <<>>
      /\ \A q \in Req : q # r => slot'[q] = slot[q]
  BY <1>1 DEF Admit, SlotsOwned, PendingDrafts, Running
<1>3. StashFresh'
  BY <1>2 DEF ProbeIInv, StashFresh, Running
<1>4. CountsOK' /\ ProbeSound'
  BY <1>2 DEF ProbeIInv, CountsOK, ProbeSound, ProbeCountsTrueRejections, NoWalkHitIsRejected
<1> QED BY <1>1, <1>2, <1>3, <1>4 DEF ProbeIInv, Admit

LEMMA FinishProbes ==
  ASSUME ProbeIInv, NEW r \in Req, Finish(r)
  PROVE  ProbeIInv'
<1>1. DraftIInv' /\ SlotsOwned /\ PendingDrafts
  BY FinishKeeps DEF ProbeIInv, DraftIInv
<1>2. /\ UNCHANGED <<served, last, stash, cum, truth>>
      /\ slot'[r] = NoSlot
      /\ \A q \in Req : q # r => /\ slot'[q] = slot[q] /\ drafts'[q] = drafts[q]
                                 /\ candidates'[q] = candidates[q]
  BY <1>1 DEF Finish, SlotsOwned, PendingDrafts
<1>3. StashFresh'
  BY <1>2 DEF ProbeIInv, StashFresh, Running
<1>4. CountsOK' /\ ProbeSound'
  BY <1>2 DEF ProbeIInv, CountsOK, ProbeSound, ProbeCountsTrueRejections, NoWalkHitIsRejected
<1> QED BY <1>1, <1>2, <1>3, <1>4 DEF ProbeIInv

LEMMA InitProbeIInv == Init => ProbeIInv
<1> SUFFICES ASSUME Init PROVE ProbeIInv
  OBVIOUS
<1>1. DraftIInv /\ Running = {}
  BY InitDraftIInv DEF Init, Running
<1>2. last \in [Req -> Token] /\ served \subseteq Req /\ DOMAIN stash \subseteq Slot
  BY SpeculatorAssumption DEF Init
<1>3. CountsOK
  BY SpeculatorAssumption DEF Init, CountsOK
<1>4. ProbeSound
  BY DEF Init, ProbeSound, ProbeCountsTrueRejections, NoWalkHitIsRejected
<1> QED BY <1>1, <1>2, <1>3, <1>4 DEF ProbeIInv, StashFresh

LEMMA NextProbeIInv ==
  ASSUME ProbeIInv, [Next]_vars
  PROVE  ProbeIInv'
<1>1. CASE \E r \in Req, s \in Slot, t \in Token : Admit(r, s, t)
  BY <1>1, AdmitProbes
<1>2. CASE \E rows \in Rounds : \E n \in Kept(rows) : \E sampled \in Samples(rows, n) :
             Verify(rows, n, sampled)
  BY <1>2, VerifyProbes
<1>3. CASE \E pick \in [{batch[i] : i \in 1 .. Len(batch)} -> [Step -> Picks]] :
             GenerateDraft(pick)
  BY <1>3, GenerateDraftProbes
<1>4. CASE \E r \in Req : Finish(r)
  BY <1>4, FinishProbes
<1>5. CASE UNCHANGED vars
  <2>1. DraftIInv'
    BY <1>5, NextDraftIInv DEF ProbeIInv
  <2> QED BY <1>5, <2>1 DEF vars, ProbeIInv, StashFresh, CountsOK, ProbeSound,
             ProbeCountsTrueRejections, NoWalkHitIsRejected, Running
<1> QED BY <1>1, <1>2, <1>3, <1>4, <1>5 DEF Next

LEMMA ProbeIInvTypes == ProbeIInv => TypeOK
<1> SUFFICES ASSUME ProbeIInv PROVE TypeOK
  OBVIOUS
<1>1. Running \subseteq Req
  BY DEF Running
<1>2. batch \in Seq(Req)
  BY <1>1, SeqMonotonic DEF ProbeIInv, DraftIInv, BatchOfRunning
<1> QED BY <1>2 DEF TypeOK, ProbeIInv, DraftIInv, SlotsOwned, PendingDrafts, CacheCoversScores, CountsOK

(* Type correctness of the speculator, whatever rows a batch has: requests *)
(* of a batch are running, slots have one owner, the counters count        *)
(* (generate_draft, _observe_rejection).                                   *)
THEOREM DraftTypeOK == Spec => []TypeOK
<1>1. ProbeIInv /\ [Next]_vars => ProbeIInv'
  BY NextProbeIInv
<1> QED BY InitProbeIInv, <1>1, ProbeIInvTypes, PTL DEF Spec

(* While the rows of a batch have all their drafts, for any number of      *)
(* requests, slots, steps and candidates and however slots change hands,   *)
(* the probe books no rejection as A or B that was not one                 *)
(* (_observe_rejection).                                                   *)
THEOREM ProbeCountsAreTrue == ASSUME ~ MixedBatches PROVE Spec => []ProbeCountsTrueRejections
<1>1. ProbeIInv /\ [Next]_vars => ProbeIInv'
  BY NextProbeIInv
<1>2. ProbeIInv => ProbeCountsTrueRejections
  BY DEF ProbeIInv, ProbeSound
<1> QED BY InitProbeIInv, <1>1, <1>2, PTL DEF Spec

(* And it never books the walk's own token as rejected: the flat draft it  *)
(* reads is the row's draft at the rejected step (cu_num_logits).          *)
THEOREM WalkHitsAreAccepted == ASSUME ~ MixedBatches PROVE Spec => []NoWalkHitIsRejected
<1>1. ProbeIInv /\ [Next]_vars => ProbeIInv'
  BY NextProbeIInv
<1>2. ProbeIInv => NoWalkHitIsRejected
  BY DEF ProbeIInv, ProbeSound
<1> QED BY InitProbeIInv, <1>1, <1>2, PTL DEF Spec
=============================================================================
