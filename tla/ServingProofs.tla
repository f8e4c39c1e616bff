---------------------------- MODULE ServingProofs ----------------------------
(***************************************************************************)
(* Proofs about what serving computes from the batch: the drafter model's  *)
(* convolutions (DrafterConv: any numbers of speculative tokens, taps,     *)
(* requests and rows of padding), the prefix-cache hit (HybridPrefixHit:   *)
(* any groups, cached lengths and prompts), and the decoder stack          *)
(* (MhcStack implements PlainStack: any layers, ranks and tokens).         *)
(***************************************************************************)
EXTENDS DrafterConv, HybridPrefixHit, MhcStack, SharedFacts, FiniteSetTheorems,
        SequenceTheorems
-----------------------------------------------------------------------------
(* The drafter model.                                                      *)

RowSet == 0 .. RowsTotal - 1

ConvTypeOK ==
  /\ reqs \in Nat /\ tailpad \in Nat
  /\ reach = [i \in RowSet |-> reach[i]]
  /\ DOMAIN coef = RowSet

(* No row of a request depends on a row of another.                        *)
RowsStayOwn ==
  \A b \in 0 .. reqs - 1 : \A i \in RowsOfReq(b) : reach[i] \cup coef[i] \subseteq RowsOfReq(b)

EdgesStayOwn == \A s \in DOMAIN edges : edges[s] \subseteq RowsOfReq(s[1])

Untouched == stage = "attention_conv" => \A i \in RowSet : reach[i] = {i}

ConvInv == ConvTypeOK /\ RowsStayOwn /\ EdgesStayOwn /\ Untouched /\ ConvWindowWhole

(* Row k of request b, in numbers.                                         *)
LEMMA RowFacts ==
  ASSUME reqs \in Nat, tailpad \in Nat, NEW b \in 0 .. reqs - 1, NEW i \in RowsOfReq(b)
  PROVE  /\ i \in RowSet /\ i \in Nat
         /\ b * QueryLen \in Nat /\ i - b * QueryLen \in 0 .. SpecTokens
         /\ i % QueryLen = i - b * QueryLen
         /\ RequestOf(i) = b
<1> DEFINE k == i - b * QueryLen
<1>1. QueryLen \in Nat \ {0} /\ SpecTokens = QueryLen - 1
  BY ConvAssumption DEF QueryLen
<1>2. b \in Nat /\ b * QueryLen \in Nat /\ QueryLen * b = b * QueryLen
  BY <1>1
<1>3. i \in Nat /\ k \in 0 .. QueryLen - 1 /\ i = QueryLen * b + k
  BY <1>1, <1>2 DEF RowsOfReq
<1>4. i % QueryLen = k /\ i \div QueryLen = b
  BY <1>1, <1>2, <1>3, DivModUnique
<1>5. (b + 1) * QueryLen <= reqs * QueryLen
  <2>1. b + 1 <= reqs /\ reqs - (b + 1) \in Nat
    BY <1>2
  <2>2. reqs * QueryLen = (b + 1) * QueryLen + (reqs - (b + 1)) * QueryLen
    BY <1>1, <1>2, <2>1
  <2>3. (reqs - (b + 1)) * QueryLen \in Nat /\ (b + 1) * QueryLen \in Nat
    BY <1>1, <1>2, <2>1
  <2> QED BY <2>2, <2>3
<1>6. (b + 1) * QueryLen = b * QueryLen + QueryLen
  BY <1>1, <1>2
<1>7. i < RowsTotal /\ RowsTotal \in Nat
  <2>1. reqs * QueryLen \in Nat
    BY <1>1
  <2> QED BY <1>1, <1>2, <1>3, <1>5, <1>6, <2>1 DEF RowsTotal
<1> QED BY <1>1, <1>2, <1>3, <1>4, <1>7 DEF RowSet, RequestOf

(* The taps that count at a row of a request reach rows of that request,   *)
(* and all of those up to Taps - 1 rows before it.                         *)
LEMMA WindowInRequest ==
  ASSUME reqs \in Nat, tailpad \in Nat, NEW b \in 0 .. reqs - 1, NEW i \in RowsOfReq(b)
  PROVE  {i - tap : tap \in Window(i)} = {j \in RowsOfReq(b) : i - Taps < j /\ j <= i}
<1> DEFINE lo == b * QueryLen
<1>1. /\ i \in Nat /\ lo \in Nat /\ i - lo \in 0 .. SpecTokens
      /\ i % QueryLen = i - lo
  BY RowFacts
<1>2. SpecTokens \in Nat /\ Taps \in Nat \ {0}
  BY ConvAssumption
<1>3. ASSUME NEW tap \in Window(i)
      PROVE  i - tap \in RowsOfReq(b) /\ i - Taps < i - tap /\ i - tap <= i
  <2>1. tap \in 0 .. Taps - 1 /\ tap <= i /\ (tap = 0 \/ i % QueryLen >= tap)
    BY DEF Window, BlockSize
  <2>2. tap = 0 \/ i - lo >= tap
    BY <1>1, <2>1
  <2> QED BY <1>1, <1>2, <2>1, <2>2 DEF RowsOfReq
<1>4. ASSUME NEW j \in RowsOfReq(b), i - Taps < j, j <= i
      PROVE  i - j \in Window(i) /\ i - (i - j) = j
  <2>1. j \in lo .. lo + SpecTokens
    BY DEF RowsOfReq
  <2>2. i - j \in 0 .. Taps - 1 /\ i - j <= i /\ i - lo >= i - j /\ i - (i - j) = j
    BY <1>1, <1>2, <1>4, <2>1
  <2> QED BY <1>1, <2>2 DEF Window, BlockSize
<1>5. {i - tap : tap \in Window(i)} \subseteq {j \in RowsOfReq(b) : i - Taps < j /\ j <= i}
  BY <1>3
<1>6. {j \in RowsOfReq(b) : i - Taps < j /\ j <= i} \subseteq {i - tap : tap \in Window(i)}
  BY <1>4
<1> QED BY <1>5, <1>6

(* A convolution of rows that stay within their requests does too.         *)
LEMMA ConvStaysOwn ==
  ASSUME ConvTypeOK, RowsStayOwn, NEW delta, delta \in {reach, coef},
         NEW b \in 0 .. reqs - 1, NEW i \in RowsOfReq(b)
  PROVE  GroupedConv(reach, delta)[i] \subseteq RowsOfReq(b)
<1>1. i \in RowSet
  BY RowFacts DEF ConvTypeOK
<1>2. GroupedConv(reach, delta)[i] = delta[i] \cup UNION {reach[i - tap] : tap \in Window(i)}
  BY <1>1 DEF GroupedConv, ConvTypeOK
<1>3. delta[i] \subseteq RowsOfReq(b)
  BY DEF RowsStayOwn
<1>4. \A tap \in Window(i) : reach[i - tap] \subseteq RowsOfReq(b)
  <2> SUFFICES ASSUME NEW tap \in Window(i) PROVE reach[i - tap] \subseteq RowsOfReq(b)
    OBVIOUS
  <2>1. i - tap \in RowsOfReq(b)
    BY WindowInRequest DEF ConvTypeOK
  <2> QED BY <2>1 DEF RowsStayOwn
<1> QED BY <1>2, <1>3, <1>4

LEMMA ConvIsTotal ==
  ASSUME ConvTypeOK, NEW delta
  PROVE  /\ GroupedConv(reach, delta) = [i \in RowSet |-> GroupedConv(reach, delta)[i]]
         /\ DOMAIN reach = RowSet
<1>1. DOMAIN reach = RowSet
  BY DEF ConvTypeOK
<1> QED BY <1>1 DEF GroupedConv

(* The first convolution, on untouched rows.                               *)
LEMMA FirstWindow ==
  ASSUME ConvInv, stage = "attention_conv", NEW b \in 0 .. reqs - 1, NEW i \in RowsOfReq(b)
  PROVE  GroupedConv(reach, reach)[i] = {j \in RowsOfReq(b) : i - Taps < j /\ j <= i}
<1>1. ConvTypeOK /\ reqs \in Nat /\ tailpad \in Nat
  BY DEF ConvInv, ConvTypeOK
<1>2. i \in RowSet /\ i \in Nat
  BY <1>1, RowFacts
<1>3. \A j \in RowSet : reach[j] = {j}
  BY DEF ConvInv, Untouched
<1>4. GroupedConv(reach, reach)[i] = {i} \cup UNION {reach[i - tap] : tap \in Window(i)}
  BY <1>1, <1>2, <1>3, ConvIsTotal DEF GroupedConv
<1>5. \A tap \in Window(i) : reach[i - tap] = {i - tap}
  <2> SUFFICES ASSUME NEW tap \in Window(i) PROVE i - tap \in RowSet
    BY <1>3
  <2>1. i - tap \in RowsOfReq(b)
    BY <1>1, WindowInRequest
  <2> QED BY <1>1, <2>1, RowFacts
<1>6. UNION {reach[i - tap] : tap \in Window(i)} = {i - tap : tap \in Window(i)}
  BY <1>5
<1>7. i \in {i - tap : tap \in Window(i)}
  <2>1. 0 \in Window(i)
    BY <1>2, ConvAssumption DEF Window
  <2> QED BY <1>2, <2>1
<1> QED BY <1>1, <1>4, <1>6, <1>7, WindowInRequest

LEMMA PrepareInv ==
  ASSUME ConvInv, Prepare
  PROVE  ConvInv'
<1>1. /\ stage \in {"attention_conv", "mlp_conv"}
      /\ reach' = GroupedConv(reach, reach) /\ coef' = reach
      /\ stage' = IF stage = "attention_conv" THEN "self_attn" ELSE "mlp"
      /\ reqs' = reqs /\ tailpad' = tailpad /\ edges' = edges
  BY DEF Prepare
<1>2. RowSet' = RowSet /\ \A b : RowsOfReq(b)' = RowsOfReq(b)
  BY <1>1 DEF RowSet, RowsTotal, RowsOfReq
<1>3. ConvTypeOK'
  BY <1>1, <1>2, ConvIsTotal DEF ConvInv, ConvTypeOK
<1>4. RowsStayOwn'
  <2> SUFFICES ASSUME NEW b \in 0 .. reqs - 1, NEW i \in RowsOfReq(b)
               PROVE  GroupedConv(reach, reach)[i] \cup reach[i] \subseteq RowsOfReq(b)
    BY <1>1, <1>2 DEF RowsStayOwn
  <2>1. GroupedConv(reach, reach)[i] \subseteq RowsOfReq(b)
    BY ConvStaysOwn DEF ConvInv
  <2> QED BY <2>1 DEF ConvInv, RowsStayOwn
<1>5. EdgesStayOwn'
  BY <1>1, <1>2 DEF ConvInv, EdgesStayOwn
<1>6. Untouched'
  BY <1>1 DEF Untouched
<1>7. ConvWindowWhole'
  <2> SUFFICES ASSUME stage = "attention_conv", NEW b \in 0 .. reqs - 1, NEW i \in RowsOfReq(b)
               PROVE  GroupedConv(reach, reach)[i] = {j \in RowsOfReq(b) : i - Taps < j /\ j <= i}
    BY <1>1, <1>2 DEF ConvWindowWhole
  <2> QED BY FirstWindow
<1> QED BY <1>3, <1>4, <1>5, <1>6, <1>7 DEF ConvInv

LEMMA AttnInv ==
  ASSUME ConvInv, DrafterAttn
  PROVE  ConvInv'
<1>1. /\ reach' = [i \in DOMAIN reach |->
                    IF RequestOf(i) < reqs THEN UNION {reach[j] : j \in RowsOfReq(RequestOf(i))}
                                           ELSE reach[i]]
      /\ stage' = "attention_finish" /\ UNCHANGED <<reqs, tailpad, coef, edges>>
  BY DEF DrafterAttn
<1>2. RowSet' = RowSet /\ \A b : RowsOfReq(b)' = RowsOfReq(b)
  BY <1>1 DEF RowSet, RowsTotal, RowsOfReq
<1>3. DOMAIN reach = RowSet
  BY DEF ConvInv, ConvTypeOK
<1>4. ConvTypeOK'
  BY <1>1, <1>2, <1>3 DEF ConvInv, ConvTypeOK
<1>5. RowsStayOwn'
  <2> SUFFICES ASSUME NEW b \in 0 .. reqs - 1, NEW i \in RowsOfReq(b)
               PROVE  reach'[i] \cup coef[i] \subseteq RowsOfReq(b)
    BY <1>1, <1>2 DEF RowsStayOwn
  <2>1. i \in RowSet /\ RequestOf(i) = b /\ reqs \in Nat /\ b < reqs
    BY RowFacts DEF ConvInv, ConvTypeOK
  <2>2. reach'[i] = UNION {reach[j] : j \in RowsOfReq(b)}
    BY <1>1, <1>3, <2>1
  <2>3. \A j \in RowsOfReq(b) : reach[j] \subseteq RowsOfReq(b)
    BY DEF ConvInv, RowsStayOwn
  <2> QED BY <2>2, <2>3 DEF ConvInv, RowsStayOwn
<1>6. EdgesStayOwn' /\ Untouched' /\ ConvWindowWhole'
  BY <1>1, <1>2 DEF ConvInv, EdgesStayOwn, Untouched, ConvWindowWhole
<1> QED BY <1>4, <1>5, <1>6 DEF ConvInv

LEMMA FinishInv ==
  ASSUME ConvInv, Finish
  PROVE  ConvInv'
<1>1. /\ reach' = GroupedConv(reach, coef)
      /\ stage' = IF stage = "attention_finish" THEN "mlp_conv" ELSE "select"
      /\ reqs' = reqs /\ tailpad' = tailpad /\ edges' = edges /\ coef' = coef
  BY DEF Finish
<1>2. RowSet' = RowSet /\ \A b : RowsOfReq(b)' = RowsOfReq(b)
  BY <1>1 DEF RowSet, RowsTotal, RowsOfReq
<1>3. ConvTypeOK'
  BY <1>1, <1>2, ConvIsTotal DEF ConvInv, ConvTypeOK
<1>4. RowsStayOwn'
  <2> SUFFICES ASSUME NEW b \in 0 .. reqs - 1, NEW i \in RowsOfReq(b)
               PROVE  GroupedConv(reach, coef)[i] \cup coef[i] \subseteq RowsOfReq(b)
    BY <1>1, <1>2 DEF RowsStayOwn
  <2>1. GroupedConv(reach, coef)[i] \subseteq RowsOfReq(b)
    BY ConvStaysOwn DEF ConvInv
  <2> QED BY <2>1 DEF ConvInv, RowsStayOwn
<1>5. EdgesStayOwn' /\ Untouched' /\ ConvWindowWhole'
  BY <1>1, <1>2 DEF ConvInv, EdgesStayOwn, Untouched, ConvWindowWhole
<1> QED BY <1>3, <1>4, <1>5 DEF ConvInv

LEMMA ScoreEdgesInv ==
  ASSUME ConvInv, ScoreEdges
  PROVE  ConvInv'
<1>1. /\ edges' = [s \in (0 .. reqs - 1) \X (1 .. SpecTokens) |->
                    SelectorRow(s[1], s[2]) \cup Predecessors(s[1], s[2])]
      /\ stage' = "done" /\ UNCHANGED <<reqs, tailpad, reach, coef>>
  BY DEF ScoreEdges
<1>2. RowSet' = RowSet /\ \A b : RowsOfReq(b)' = RowsOfReq(b)
  BY <1>1 DEF RowSet, RowsTotal, RowsOfReq
<1>3. ConvTypeOK' /\ RowsStayOwn' /\ Untouched' /\ ConvWindowWhole'
  BY <1>1, <1>2 DEF ConvInv, ConvTypeOK, RowsStayOwn, Untouched, ConvWindowWhole
<1>4. ASSUME NEW b \in 0 .. reqs - 1, NEW l \in 0 .. SpecTokens
      PROVE  SelectorRow(b, l) \subseteq RowsOfReq(b)
  <2>1. b * QueryLen \in Nat
    BY ConvAssumption DEF QueryLen, ConvInv, ConvTypeOK
  <2>2. b * QueryLen + l \in RowsOfReq(b)
    BY <2>1, ConvAssumption DEF RowsOfReq
  <2> QED BY <2>2 DEF ConvInv, RowsStayOwn, SelectorRow
<1>5. ASSUME NEW s \in (0 .. reqs - 1) \X (1 .. SpecTokens)
      PROVE  edges'[s] \subseteq RowsOfReq(s[1])
  <2>1. s[1] \in 0 .. reqs - 1 /\ s[2] \in 0 .. SpecTokens /\ s[2] - 1 \in 0 .. SpecTokens
    BY ConvAssumption
  <2>2. SelectorRow(s[1], s[2]) \subseteq RowsOfReq(s[1])
    BY <1>4, <2>1
  <2>3. Predecessors(s[1], s[2]) \subseteq RowsOfReq(s[1])
    <3>1. s[1] * QueryLen \in Nat
      BY <2>1, ConvAssumption DEF QueryLen, ConvInv, ConvTypeOK
    <3>2. AnchorIndex(s[1]) \in RowsOfReq(s[1])
      BY <3>1, ConvAssumption DEF AnchorIndex, RowsOfReq
    <3> QED BY <1>4, <2>1, <3>2 DEF Predecessors
  <2> QED BY <1>1, <2>2, <2>3
<1>6. EdgesStayOwn'
  BY <1>1, <1>2, <1>5 DEF EdgesStayOwn
<1> QED BY <1>3, <1>6 DEF ConvInv

LEMMA InitConvInv == ConvInit => ConvInv
<1> SUFFICES ASSUME ConvInit PROVE ConvInv
  OBVIOUS
<1>1. reqs \in Nat /\ tailpad \in Nat
  BY ConvAssumption DEF ConvInit
<1>2. reach = [i \in RowSet |-> {i}] /\ coef = [i \in RowSet |-> {}]
  BY DEF ConvInit, RowSet
<1>3. ConvTypeOK
  BY <1>1, <1>2 DEF ConvTypeOK
<1>4. RowsStayOwn
  <2> SUFFICES ASSUME NEW b \in 0 .. reqs - 1, NEW i \in RowsOfReq(b)
               PROVE  reach[i] \cup coef[i] \subseteq RowsOfReq(b)
    BY DEF RowsStayOwn
  <2>1. i \in RowSet
    BY <1>1, RowFacts
  <2> QED BY <1>2, <2>1
<1>5. EdgesStayOwn
  BY DEF ConvInit, EdgesStayOwn
<1>6. Untouched /\ ConvWindowWhole
  BY <1>2 DEF ConvInit, Untouched, ConvWindowWhole
<1> QED BY <1>3, <1>4, <1>5, <1>6 DEF ConvInv

LEMMA NextConvInv == ConvInv /\ [ConvNext]_convVars => ConvInv'
<1> SUFFICES ASSUME ConvInv, [ConvNext]_convVars PROVE ConvInv'
  OBVIOUS
<1>1. CASE DrafterMlp
  BY <1>1 DEF DrafterMlp, ConvInv, ConvTypeOK, RowsStayOwn, EdgesStayOwn, Untouched, ConvWindowWhole,
     RowSet, RowsTotal, RowsOfReq
<1>2. CASE UNCHANGED convVars
  BY <1>2 DEF convVars, ConvInv, ConvTypeOK, RowsStayOwn, EdgesStayOwn, Untouched, ConvWindowWhole,
     RowSet, RowsTotal, RowsOfReq
<1> QED BY <1>1, <1>2, PrepareInv, AttnInv, FinishInv, ScoreEdgesInv DEF ConvNext

(* Whatever the batch, a request's drafts depend on its own rows only.     *)
THEOREM DraftsStayOwn == ConvSpec => []DraftsOfOwnRows
<1>1. ConvInv => DraftsOfOwnRows
  BY DEF ConvInv, RowsStayOwn, EdgesStayOwn, DraftsOfOwnRows
<1> QED BY <1>1, InitConvInv, NextConvInv, PTL DEF ConvSpec

(* The first convolution sees exactly the Taps - 1 rows before each row    *)
(* that the request has, for any number of taps and speculative tokens.    *)
THEOREM WindowIsWhole == ConvSpec => []ConvWindowWhole
<1>1. ConvInv => ConvWindowWhole
  BY DEF ConvInv
<1> QED BY <1>1, InitConvInv, NextConvInv, PTL DEF ConvSpec
-----------------------------------------------------------------------------
(* The prefix-cache hit.                                                   *)

(* The lengths a shortened hit has lost.                                   *)
LEMMA Shortened ==
  ASSUME NEW new \in Nat, NEW old \in Nat, new <= old, NEW max \in Nat
  PROVE  /\ \A l \in new + 1 .. max : l # 0 /\ (l \in old + 1 .. max \/ l \in new + 1 .. old)
         /\ old \notin new + 1 .. old => new = old
OBVIOUS

NumGroups == Len(groups)
OwnGroups == Groups \ SwaIds

(* The group has nothing against the current hit.                          *)
Agrees(g) == curr = 0 \/ curr \in cached[g]

HitTypeOK ==
  /\ groups \in Seq({"full", "mamba", "swa"})
  /\ cached \in [Groups -> SUBSET (1 .. MaxHit)]
  /\ \A g \in Groups : groups[g] = "full" => \A l \in cached[g] : 1 .. l \subseteq cached[g]
  /\ curr \in 0 .. MaxHit /\ hit \in 0 .. MaxHit /\ curr <= hit
  /\ at \in 0 .. NumGroups + 1
  /\ kept = [g \in Groups |-> kept[g]]

(* No reusable prefix is longer than the current hit.                      *)
NoneMissed == \A l \in curr + 1 .. MaxHit : ~ Reusable(l)

(* In a pass that has shortened nothing the groups visited agree.          *)
VisitedAgree == curr = hit => \A g \in OwnGroups : g < at => Agrees(g)

(* A full-attention group that was looked up agrees for good.              *)
FullAgree == \A g \in Groups : groups[g] = "full" /\ kept[g] # NoBlocks => Agrees(g)

(* Since a verified drafter group was dropped, every group visited agreed. *)
VerifiedAgree ==
  \A g \in SwaIds \cap verified, h \in OwnGroups :
    IF at > g THEN g < h /\ h < at => Agrees(h) ELSE h > g \/ h < at => Agrees(h)

(* A drafter group that keeps blocks keeps those of the final hit.         *)
KeptFinal ==
  \A g \in SwaIds : kept[g] # NoBlocks =>
    kept[g] = curr /\ Agrees(g) /\ \A h \in OwnGroups : Agrees(h)

Returned == at = 0 => hit = curr /\ \A h \in OwnGroups : Agrees(h)

HitInv ==
  SwaIds # {} => /\ HitTypeOK /\ NoneMissed /\ VisitedAgree /\ FullAgree
                 /\ VerifiedAgree /\ KeptFinal /\ Returned
-----------------------------------------------------------------------------
LEMMA LongestFacts ==
  ASSUME HitTypeOK, NEW g \in Groups, NEW limit \in 0 .. MaxHit
  PROVE  /\ Longest(g, limit) \in 0 .. limit
         /\ Longest(g, limit) = 0 \/ Longest(g, limit) \in cached[g]
         /\ \A l \in Longest(g, limit) + 1 .. limit : l \notin cached[g]
<1> DEFINE T == {l \in cached[g] : l <= limit} \cup {0}
<1>1. cached[g] \subseteq 1 .. MaxHit /\ MaxHit \in Nat
  BY HitAssumption DEF HitTypeOK
<1>2. T \subseteq 0 .. limit /\ limit \in Nat
  BY <1>1
<1>3. Max(T) \in T /\ \A y \in T : Max(T) >= y
  BY <1>2, LargestNatural DEF Max
<1>4. Max(T) \in Nat
  BY <1>2, <1>3
<1>5. ASSUME NEW l \in Max(T) + 1 .. limit, l \in cached[g]
      PROVE  FALSE
  <2> DEFINE m == Max(T)
  <2>1. m \in Nat /\ l \in m + 1 .. limit /\ (l \in T => m >= l)
    BY <1>3, <1>4, <1>5
  <2>2. l \in T
    BY <1>2, <1>4, <1>5
  <2> HIDE DEF m, T
  <2> QED BY <1>2, <2>1, <2>2
<1> QED BY <1>2, <1>3, <1>5 DEF Longest

(* What a group answers: at most the current hit, and the current hit      *)
(* itself only if it agrees with it.                                       *)
LEMMA FoundFacts ==
  ASSUME HitTypeOK, NEW g \in Groups, NEW drop \in BOOLEAN
  PROVE  /\ Found(g, drop) \in 0 .. curr
         /\ Found(g, drop) = 0 \/ Found(g, drop) \in cached[g]
         /\ ~ drop => \A l \in Found(g, drop) + 1 .. curr : l \notin cached[g]
         /\ drop => Found(g, drop) = 0 \/ Found(g, drop) < curr
<1>1. curr \in 0 .. MaxHit /\ MaxHit \in Nat
  BY HitAssumption DEF HitTypeOK
<1> DEFINE l == Longest(g, curr)
<1>2. l \in 0 .. curr /\ (l = 0 \/ l \in cached[g]) /\ \A k \in l + 1 .. curr : k \notin cached[g]
  BY <1>1, LongestFacts
<1>3. CASE drop /\ l > 0
  <2>1. l - 1 \in 0 .. MaxHit
    BY <1>1, <1>2, <1>3
  <2>2. /\ Longest(g, l - 1) \in 0 .. l - 1
        /\ Longest(g, l - 1) = 0 \/ Longest(g, l - 1) \in cached[g]
    BY <2>1, LongestFacts
  <2>3. Found(g, drop) = Longest(g, l - 1)
    BY <1>3 DEF Found
  <2>7. curr \in Nat /\ l \in 0 .. curr /\ l > 0
    BY <1>1, <1>2, <1>3
  <2>8. Found(g, drop) \in 0 .. l - 1
    BY <2>2, <2>3
  <2> HIDE DEF l
  <2>4. curr \in Nat /\ l \in 0 .. curr /\ l > 0 /\ Found(g, drop) \in 0 .. l - 1
    BY <2>7, <2>8
  <2>5. Found(g, drop) \in 0 .. curr /\ Found(g, drop) < curr
    BY <2>4
  <2>6. drop /\ (Found(g, drop) = 0 \/ Found(g, drop) \in cached[g])
    BY <1>3, <2>2, <2>3
  <2> QED BY <2>5, <2>6
<1>4. CASE ~ (drop /\ l > 0)
  <2>1. Found(g, drop) = l
    BY <1>4 DEF Found
  <2> QED BY <1>1, <1>2, <1>4, <2>1
<1> QED BY <1>3, <1>4

(* The visit of a group that takes part in the minimum.                    *)
LEMMA OwnVisit ==
  ASSUME HitInv, SwaIds # {}, at \in Groups, at \in OwnGroups, Visit(at)
  PROVE  /\ curr' \in 0 .. curr
         /\ curr' = 0 \/ curr' \in cached[at]
         /\ \A l \in curr' + 1 .. curr : l \notin cached[at]
         /\ kept' = [kept EXCEPT ![at] = curr']
         /\ verified' = IF curr' < curr THEN {} ELSE verified
<1> DEFINE f == Lookup(at)
<1>1. HitTypeOK /\ FullAgree /\ curr \in Nat
  BY HitAssumption DEF HitInv, HitTypeOK
<1>2. groups[at] # "swa" /\ at \notin EagleIds /\ Drops(at) = FALSE
  BY DEF OwnGroups, SwaIds, EagleIds, Drops
<1>3. curr' = f.len /\ kept' = [kept EXCEPT ![at] = f.len] /\ verified' = Verified(at, f)
  BY <1>2 DEF Visit
<1>4. CASE groups[at] = "full" /\ kept[at] # NoBlocks
  <2>1. f.len = curr /\ f.drop = FALSE
    BY <1>4 DEF Lookup
  <2>2. Agrees(at)
    BY <1>1, <1>4 DEF FullAgree
  <2> QED BY <1>1, <1>3, <2>1, <2>2 DEF Agrees, Verified
<1>5. CASE ~ (groups[at] = "full" /\ kept[at] # NoBlocks)
  <2>1. f.len = Found(at, FALSE) /\ f.drop = FALSE
    BY <1>2, <1>5 DEF Lookup
  <2>2. /\ Found(at, FALSE) \in 0 .. curr
        /\ Found(at, FALSE) = 0 \/ Found(at, FALSE) \in cached[at]
        /\ \A l \in Found(at, FALSE) + 1 .. curr : l \notin cached[at]
    BY <1>1, FoundFacts
  <2> QED BY <1>1, <1>3, <2>1, <2>2 DEF Verified
<1> QED BY <1>4, <1>5

(* The visit of a drafter group: the hit stays, and blocks are kept only   *)
(* if the group was not dropped at this visit, or there is no hit.         *)
LEMMA SwaVisit ==
  ASSUME HitInv, at \in SwaIds, Visit(at)
  PROVE  /\ curr' = curr
         /\ \/ kept' = kept
            \/ /\ kept' = [kept EXCEPT ![at] = curr] /\ Agrees(at)
               /\ curr = 0 \/ at \in verified
         /\ verified' \subseteq verified \cup {at}
<1> DEFINE f == Lookup(at)
<1>1. HitTypeOK /\ curr \in Nat /\ SwaIds # {} /\ at \in Groups
  BY HitAssumption DEF HitInv, HitTypeOK, SwaIds
<1>2. groups[at] = "swa" /\ at \in EagleIds
  BY <1>1 DEF SwaIds, EagleIds
<1>3. f = [len |-> Found(at, Drops(at)), drop |-> Drops(at)]
  BY <1>2 DEF Lookup
<1>4. Drops(at) \in BOOLEAN /\ (~ Drops(at) => at \in verified)
  BY <1>2 DEF Drops
<1>5. curr' = curr /\ kept' = (IF f.len >= curr THEN [kept EXCEPT ![at] = f.len] ELSE kept)
      /\ verified' = Verified(at, f)
  BY <1>2 DEF Visit
<1>6. verified' \subseteq verified \cup {at}
  BY <1>5 DEF Verified
<1>7. /\ Found(at, Drops(at)) \in 0 .. curr
      /\ Found(at, Drops(at)) = 0 \/ Found(at, Drops(at)) \in cached[at]
      /\ Drops(at) => Found(at, Drops(at)) = 0 \/ Found(at, Drops(at)) < curr
  BY <1>1, <1>4, FoundFacts
<1>8. CASE f.len >= curr
  <2>1. f.len = curr
    BY <1>1, <1>3, <1>7, <1>8
  <2> QED BY <1>1, <1>3, <1>4, <1>5, <1>6, <1>7, <2>1 DEF Agrees
<1>9. CASE ~ (f.len >= curr)
  BY <1>5, <1>6, <1>9
<1> QED BY <1>8, <1>9

LEMMA LookGroupKeeps ==
  ASSUME HitInv, SwaIds # {}, LookGroup
  PROVE  HitInv'
<1> USE DEF HitInv
<1>1. /\ UNCHANGED <<groups, cached, hit>> /\ at \in Groups /\ at' = at + 1 /\ Visit(at)
      /\ Groups = 1 .. NumGroups /\ NumGroups \in Nat /\ MaxHit \in Nat
      /\ curr \in 0 .. MaxHit /\ curr \in Nat /\ hit \in Nat
  BY HitAssumption DEF LookGroup, HitTypeOK, Groups, NumGroups
<1>2. /\ Groups' = Groups /\ SwaIds' = SwaIds /\ OwnGroups' = OwnGroups /\ NumGroups' = NumGroups
      /\ \A l : Reusable(l)' <=> Reusable(l)
  BY <1>1 DEF Groups, SwaIds, OwnGroups, NumGroups, Reusable
<1>3. CASE at \in OwnGroups
  <2>1. /\ curr' \in 0 .. curr
        /\ curr' = 0 \/ curr' \in cached[at]
        /\ \A l \in curr' + 1 .. curr : l \notin cached[at]
        /\ kept' = [kept EXCEPT ![at] = curr']
        /\ verified' = IF curr' < curr THEN {} ELSE verified
    BY <1>1, <1>3, OwnVisit
  <2> PICK g0 \in OwnGroups : g0 = at
    BY <1>3
  <2>0. curr' \in Nat /\ curr' <= curr /\ curr' \in 0 .. MaxHit /\ g0 \in Groups /\ groups[g0] # "swa"
    BY <1>1, <2>1 DEF OwnGroups, SwaIds
  <2>2. HitTypeOK'
    <3>1. kept' = [g \in Groups |-> kept'[g]]
      BY <2>1 DEF HitTypeOK
    <3> QED BY <1>1, <1>2, <2>0, <3>1 DEF HitTypeOK
  <2>3. NoneMissed'
    <3> SUFFICES ASSUME NEW l \in curr' + 1 .. MaxHit PROVE ~ Reusable(l)
      BY <1>1, <1>2 DEF NoneMissed
    <3>3. l # 0 /\ (l \in curr + 1 .. MaxHit \/ l \in curr' + 1 .. curr)
      BY <1>1, <2>0, Shortened
    <3>1. CASE l \in curr + 1 .. MaxHit
      BY <3>1 DEF NoneMissed
    <3>2. CASE l \in curr' + 1 .. curr
      <4>1. l \notin cached[g0]
        BY <2>1, <3>2
      <4> QED BY <3>3, <4>1 DEF Reusable, OwnGroups
    <3> QED BY <3>1, <3>2, <3>3
  <2>4. Agrees(g0)' /\ (curr' = curr => \A g : Agrees(g) => Agrees(g)')
    BY <1>1, <2>1 DEF Agrees
  <2>5. VisitedAgree'
    <3> SUFFICES ASSUME curr' = hit, NEW g \in OwnGroups, g < at + 1 PROVE Agrees(g)'
      BY <1>1, <1>2 DEF VisitedAgree
    <3>1. curr' = curr /\ curr = hit
      BY <1>1, <2>1 DEF HitTypeOK
    <3>2. g = g0 \/ g < at
      BY <1>1 DEF OwnGroups
    <3>3. CASE g = g0
      BY <2>4, <3>3
    <3>4. CASE g < at
      <4>1. Agrees(g)
        BY <3>1, <3>4 DEF VisitedAgree
      <4> QED BY <2>4, <3>1, <4>1
    <3> QED BY <3>2, <3>3, <3>4
  <2>6. FullAgree'
    <3> SUFFICES ASSUME NEW g \in Groups, groups[g] = "full", kept'[g] # NoBlocks PROVE Agrees(g)'
      BY <1>1, <1>2 DEF FullAgree
    <3>1. CASE g = g0
      BY <2>4, <3>1
    <3>2. CASE g # g0
      <4>1. kept'[g] = kept[g]
        BY <2>1, <3>2
      <4>2. Agrees(g)
        BY <4>1 DEF FullAgree
      <4>3. curr' \in 0 .. curr
        BY <2>1
      <4>4. CASE curr' = 0
        BY <4>4 DEF Agrees
      <4>5. CASE curr' # 0
        <5>1. curr \in cached[g] /\ curr' \in 1 .. curr
          BY <4>2, <4>3, <4>5, <1>1 DEF Agrees
        <5>2. curr' \in cached[g]
          BY <5>1 DEF HitTypeOK
        <5> QED BY <5>2, <1>1 DEF Agrees
      <4> QED BY <4>4, <4>5
    <3> QED BY <3>1, <3>2
  <2>7. VerifiedAgree'
    <3> SUFFICES ASSUME NEW g \in SwaIds, g \in verified', NEW h \in OwnGroups,
                        IF at + 1 > g THEN g < h /\ h < at + 1 ELSE h > g \/ h < at + 1
                 PROVE  Agrees(h)'
      BY <1>1, <1>2 DEF VerifiedAgree
    <3>1. curr' = curr /\ g \in verified
      BY <1>1, <2>1
    <3>2. g \in Nat /\ h \in Nat /\ g # at
      BY <1>1, <1>3 DEF SwaIds, OwnGroups
    <3>3. CASE h = g0
      BY <2>4, <3>3
    <3>4. CASE h # g0
      <4>1. IF at > g THEN g < h /\ h < at ELSE h > g \/ h < at
        BY <1>1, <3>2, <3>4
      <4>2. Agrees(h)
        BY <3>1, <4>1 DEF VerifiedAgree
      <4> QED BY <2>4, <3>1, <4>2
    <3> QED BY <3>3, <3>4
  <2>8. KeptFinal'
    <3> SUFFICES ASSUME NEW g \in SwaIds, kept'[g] # NoBlocks
                 PROVE  kept'[g] = curr' /\ Agrees(g)' /\ \A h \in OwnGroups : Agrees(h)'
      BY <1>1, <1>2 DEF KeptFinal
    <3>1. g # at /\ g \in Groups
      BY <1>3 DEF SwaIds, OwnGroups
    <3>2. kept'[g] = kept[g]
      BY <1>1, <2>1, <3>1 DEF HitTypeOK
    <3>3. kept[g] = curr /\ Agrees(g) /\ \A h \in OwnGroups : Agrees(h)
      BY <3>2 DEF KeptFinal
    <3>4. curr' = curr
      <4>1. Agrees(g0)
        BY <3>3
      <4>2. CASE curr = 0
        BY <2>0, <4>2
      <4>3. CASE curr \in cached[g0]
        <5>1. curr \notin curr' + 1 .. curr
          BY <2>1, <4>3
        <5> QED BY <1>1, <2>0, <5>1, Shortened
      <4> QED BY <4>1, <4>2, <4>3 DEF Agrees
    <3> QED BY <2>4, <3>2, <3>3, <3>4
  <2>9. Returned'
    BY <1>1 DEF Returned
  <2> QED BY <2>2, <2>3, <2>5, <2>6, <2>7, <2>8, <2>9
<1>4. CASE at \in SwaIds
  <2>1. /\ curr' = curr
        /\ \/ kept' = kept
           \/ /\ kept' = [kept EXCEPT ![at] = curr] /\ Agrees(at)
              /\ curr = 0 \/ at \in verified
        /\ verified' \subseteq verified \cup {at}
    BY <1>1, <1>4, SwaVisit
  <2>2. \A g : Agrees(g)' = Agrees(g)
    BY <1>1, <2>1 DEF Agrees
  <2>3. HitTypeOK'
    BY <1>1, <1>2, <2>1 DEF HitTypeOK
  <2>4. NoneMissed'
    BY <1>1, <1>2, <2>1 DEF NoneMissed
  <2>5. VisitedAgree'
    <3> SUFFICES ASSUME curr = hit, NEW g \in OwnGroups, g < at + 1 PROVE Agrees(g)
      BY <1>1, <1>2, <2>1, <2>2 DEF VisitedAgree
    <3>1. g < at
      BY <1>1, <1>4 DEF OwnGroups
    <3> QED BY <3>1 DEF VisitedAgree
  <2>6. FullAgree'
    <3> SUFFICES ASSUME NEW g \in Groups, groups[g] = "full", kept'[g] # NoBlocks PROVE Agrees(g)
      BY <1>1, <1>2, <2>2 DEF FullAgree
    <3>1. g # at
      BY <1>4 DEF SwaIds
    <3>2. kept'[g] = kept[g]
      <4>1. kept = [k \in Groups |-> kept[k]]
        BY DEF HitTypeOK
      <4> QED BY <2>1, <3>1, <4>1
    <3> QED BY <3>2 DEF FullAgree
  <2>7. VerifiedAgree'
    <3> SUFFICES ASSUME NEW g \in SwaIds, g \in verified', NEW h \in OwnGroups,
                        IF at + 1 > g THEN g < h /\ h < at + 1 ELSE h > g \/ h < at + 1
                 PROVE  Agrees(h)
      BY <1>1, <1>2, <2>2 DEF VerifiedAgree
    <3>1. g \in Nat /\ h \in Nat /\ h # at
      BY <1>1, <1>4 DEF SwaIds, OwnGroups
    <3>2. CASE g = at
      BY <1>1, <3>1, <3>2
    <3>3. CASE g # at
      <4>1. g \in verified
        BY <2>1, <3>3
      <4>2. IF at > g THEN g < h /\ h < at ELSE h > g \/ h < at
        BY <1>1, <3>1, <3>3
      <4> QED BY <4>1, <4>2 DEF VerifiedAgree
    <3> QED BY <3>2, <3>3
  <2>8. KeptFinal'
    <3> SUFFICES ASSUME NEW g \in SwaIds, kept'[g] # NoBlocks
                 PROVE  kept'[g] = curr /\ Agrees(g) /\ \A h \in OwnGroups : Agrees(h)
      BY <1>1, <1>2, <2>1, <2>2 DEF KeptFinal
    <3>1. CASE kept'[g] = kept[g]
      BY <3>1 DEF KeptFinal
    <3>2. CASE kept'[g] # kept[g]
      <4>1. g = at /\ kept'[g] = curr /\ Agrees(at) /\ (curr = 0 \/ at \in verified)
        BY <1>1, <1>4, <2>1, <3>2 DEF HitTypeOK, SwaIds
      <4>2. ASSUME NEW h \in OwnGroups PROVE Agrees(h)
        <5>1. CASE curr = 0
          BY <5>1 DEF Agrees
        <5>2. CASE at \in verified
          <6>1. h \in Nat /\ h # at /\ (h > at \/ h < at)
            BY <1>1, <1>4 DEF OwnGroups
          <6> QED BY <1>1, <1>4, <5>2, <6>1 DEF VerifiedAgree
        <5> QED BY <4>1, <5>1, <5>2
      <4> QED BY <4>1, <4>2
    <3> QED BY <3>1, <3>2
  <2>9. Returned'
    BY <1>1 DEF Returned
  <2> QED BY <2>3, <2>4, <2>5, <2>6, <2>7, <2>8, <2>9
<1> QED BY <1>1, <1>3, <1>4 DEF OwnGroups

LEMMA EndPassKeeps ==
  ASSUME HitInv, SwaIds # {}, EndPass
  PROVE  HitInv'
<1> USE DEF HitInv
<1>1. /\ UNCHANGED <<groups, cached, curr, verified>> /\ hit' = curr
      /\ Groups = 1 .. NumGroups /\ NumGroups \in Nat /\ MaxHit \in Nat
      /\ curr \in 0 .. MaxHit /\ curr \in Nat /\ hit \in Nat /\ curr <= hit
      /\ at' = IF curr >= hit THEN 0 ELSE 1
      /\ kept' = [g \in Groups |-> IF curr >= hit /\ groups[g] = "full" THEN curr ELSE kept[g]]
  BY HitAssumption DEF EndPass, HitTypeOK, Groups, NumGroups
<1>2. at = NumGroups + 1
  <2>1. Cardinality(1 .. NumGroups) = NumGroups
    BY <1>1, FS_Interval
  <2> QED BY <1>1, <2>1 DEF EndPass
<1>3. /\ Groups' = Groups /\ SwaIds' = SwaIds /\ OwnGroups' = OwnGroups /\ NumGroups' = NumGroups
      /\ \A l : Reusable(l)' <=> Reusable(l)
      /\ \A g : Agrees(g)' = Agrees(g)
  BY <1>1 DEF Groups, SwaIds, OwnGroups, NumGroups, Reusable, Agrees
<1>4. curr >= hit => \A g \in OwnGroups : Agrees(g)
  BY <1>1, <1>2 DEF VisitedAgree, OwnGroups
<1>5. HitTypeOK'
  BY <1>1, <1>3 DEF HitTypeOK
<1>6. NoneMissed'
  BY <1>1, <1>3 DEF NoneMissed
<1>7. VisitedAgree'
  BY <1>1, <1>3 DEF VisitedAgree, OwnGroups
<1>8. FullAgree'
  <2> SUFFICES ASSUME NEW g \in Groups, groups[g] = "full", kept'[g] # NoBlocks PROVE Agrees(g)
    BY <1>1, <1>3 DEF FullAgree
  <2>1. CASE curr >= hit
    BY <1>4, <2>1 DEF OwnGroups, SwaIds
  <2>2. CASE ~ (curr >= hit)
    BY <1>1, <2>2 DEF FullAgree
  <2> QED BY <2>1, <2>2
<1>9. VerifiedAgree'
  <2> SUFFICES ASSUME NEW g \in SwaIds \cap verified, NEW h \in OwnGroups,
                      IF at' > g THEN g < h /\ h < at' ELSE h > g \/ h < at'
               PROVE  Agrees(h)
    BY <1>1, <1>3 DEF VerifiedAgree
  <2>1. g \in 1 .. NumGroups /\ h \in 1 .. NumGroups
    BY <1>1 DEF SwaIds, OwnGroups
  <2>2. g < h /\ h < at /\ at > g
    BY <1>1, <1>2, <2>1
  <2> QED BY <2>2 DEF VerifiedAgree
<1>10. KeptFinal'
  <2>1. \A g \in SwaIds : kept'[g] = kept[g]
    BY <1>1 DEF SwaIds
  <2> QED BY <1>1, <1>3, <2>1 DEF KeptFinal
<1>11. Returned'
  BY <1>1, <1>3, <1>4 DEF Returned
<1> QED BY <1>5, <1>6, <1>7, <1>8, <1>9, <1>10, <1>11

LEMMA InitHitTypes == HitInit => HitTypeOK
<1> SUFFICES ASSUME HitInit PROVE HitTypeOK
  OBVIOUS
<1>1. groups \in Seq({"full", "mamba", "swa"}) /\ MaxHit \in Nat
  BY HitAssumption DEF HitInit
<1>2. Groups = 1 .. NumGroups /\ NumGroups \in Nat
  BY <1>1 DEF Groups, NumGroups
<1>3. ASSUME NEW g \in Groups, groups[g] = "full", NEW l \in cached[g]
      PROVE  1 .. l \subseteq cached[g]
  <2>1. PICK k \in 0 .. MaxHit : cached[g] = 1 .. k
    BY <1>3 DEF HitInit
  <2> QED BY <1>1, <2>1
<1> QED BY <1>1, <1>2, <1>3 DEF HitTypeOK, HitInit

LEMMA InitHitInv == HitInit => HitInv
<1> SUFFICES ASSUME HitInit PROVE HitInv
  OBVIOUS
<1>1. MaxHit \in Nat
  BY HitAssumption
<1>2. Groups = 1 .. NumGroups /\ NumGroups \in Nat
  BY HitAssumption DEF HitInit, Groups, NumGroups
<1>3. HitTypeOK
  BY InitHitTypes
<1>4. NoneMissed
  BY <1>1 DEF NoneMissed, HitInit
<1>5. VisitedAgree /\ Returned
  BY <1>2 DEF VisitedAgree, Returned, HitInit, OwnGroups
<1>6. FullAgree /\ VerifiedAgree /\ KeptFinal
  BY DEF FullAgree, VerifiedAgree, KeptFinal, HitInit, SwaIds
<1> QED BY <1>3, <1>4, <1>5, <1>6 DEF HitInv

LEMMA NextHitInv ==
  ASSUME HitInv, [HitNext]_hitVars
  PROVE  HitInv'
<1>1. SwaIds' = SwaIds
  BY DEF HitNext, LookGroup, EndPass, hitVars, SwaIds, Groups
<1>2. CASE SwaIds = {}
  BY <1>1, <1>2 DEF HitInv
<1>3. CASE SwaIds # {} /\ LookGroup
  BY <1>3, LookGroupKeeps
<1>4. CASE SwaIds # {} /\ EndPass
  BY <1>4, EndPassKeeps
<1>5. CASE UNCHANGED hitVars
  BY <1>5 DEF hitVars, HitInv, HitTypeOK, NoneMissed, VisitedAgree, FullAgree, VerifiedAgree,
              KeptFinal, Returned, Groups, NumGroups, OwnGroups, SwaIds, Agrees, Reusable
<1> QED BY <1>2, <1>3, <1>4, <1>5 DEF HitNext

LEMMA HitInvSafe ==
  ASSUME HitInv
  PROVE  HitExact /\ DrafterCoversHit
<1> USE DEF HitInv
<1>1. HitExact
  <2> SUFFICES ASSUME at = 0, SwaIds # {}
               PROVE  Reusable(hit) /\ \A l \in hit + 1 .. MaxHit : ~ Reusable(l)
    BY DEF HitExact
  <2> QED BY DEF Returned, NoneMissed, Reusable, Agrees, OwnGroups
<1>2. DrafterCoversHit
  <2> SUFFICES ASSUME at = 0, NEW g \in SwaIds, kept[g] # NoBlocks
               PROVE  kept[g] = hit /\ (hit = 0 \/ hit \in cached[g])
    BY DEF DrafterCoversHit
  <2> QED BY DEF Returned, KeptFinal, Agrees
<1> QED BY <1>1, <1>2

(* With a drafter group, the lookup of any model's groups over any content *)
(* of the caches returns the longest prefix that all the other groups have *)
(* (find_longest_cache_hit as patched).                                    *)
THEOREM HitIsExact == HitSpec => []HitExact
<1>1. HitInit => HitInv
  BY InitHitInv
<1>2. HitInv /\ [HitNext]_hitVars => HitInv'
  BY NextHitInv
<1>3. HitInv => HitExact
  BY HitInvSafe
<1> QED BY <1>1, <1>2, <1>3, PTL DEF HitSpec

(* The drafter is left with a window of the returned hit or with nothing.  *)
THEOREM DrafterAlwaysCovers == HitSpec => []DrafterCoversHit
<1>1. HitInit => HitInv
  BY InitHitInv
<1>2. HitInv /\ [HitNext]_hitVars => HitInv'
  BY NextHitInv
<1>3. HitInv => DrafterCoversHit
  BY HitInvSafe
<1> QED BY <1>1, <1>2, <1>3, PTL DEF HitSpec

(* With or without a drafter group, an answer is at most the current hit.  *)
LEMMA LookupShortens ==
  ASSUME HitTypeOK, NEW g \in Groups
  PROVE  Lookup(g).len \in 0 .. curr
<1>1. Drops(g) \in BOOLEAN /\ curr \in Nat
  BY HitAssumption DEF Drops, HitTypeOK
<1>2. Found(g, Drops(g)) \in 0 .. curr
  BY <1>1, FoundFacts
<1> QED BY <1>1, <1>2 DEF Lookup

(* A step goes on to the next group, or begins a pass with a shorter hit,  *)
(* or returns.                                                             *)
Advances ==
  \/ at' = at + 1 /\ at' <= NumGroups + 1 /\ hit' = hit
  \/ at' = 1 /\ hit' < hit /\ hit' \in Nat
  \/ at' = 0

LEMMA StepAdvances ==
  ASSUME HitTypeOK, HitNext
  PROVE  HitTypeOK' /\ Advances /\ at # 0 /\ NumGroups' = NumGroups
<1>1. /\ UNCHANGED <<groups, cached>> /\ Groups = 1 .. NumGroups /\ NumGroups \in Nat
      /\ MaxHit \in Nat /\ curr \in 0 .. MaxHit /\ hit \in 0 .. MaxHit /\ curr <= hit
      /\ at \in 0 .. NumGroups + 1
  BY HitAssumption DEF HitNext, LookGroup, EndPass, HitTypeOK, Groups, NumGroups
<1>2. Groups' = Groups /\ NumGroups' = NumGroups
  BY <1>1 DEF Groups, NumGroups
<1>3. CASE LookGroup
  <2>1. at \in Groups /\ Visit(at) /\ at' = at + 1 /\ hit' = hit
    BY <1>3 DEF LookGroup
  <2>2. curr' \in 0 .. curr /\ kept' = [g \in Groups |-> kept'[g]]
    <3>1. Lookup(at).len \in 0 .. curr
      BY <2>1, LookupShortens
    <3>2. kept = [g \in Groups |-> kept[g]]
      BY DEF HitTypeOK
    <3> QED BY <1>1, <2>1, <3>1, <3>2 DEF Visit
  <2> QED BY <1>1, <1>2, <2>1, <2>2 DEF HitTypeOK, Advances
<1>4. CASE EndPass
  <2>1. Cardinality(1 .. NumGroups) = NumGroups
    BY <1>1, FS_Interval
  <2>2. /\ at = NumGroups + 1 /\ hit' = curr /\ curr' = curr
        /\ at' = IF curr >= hit THEN 0 ELSE 1
        /\ kept' = [g \in Groups |-> IF curr >= hit /\ groups[g] = "full" THEN curr ELSE kept[g]]
    BY <1>1, <1>4, <2>1 DEF EndPass
  <2> QED BY <1>1, <1>2, <2>2 DEF HitTypeOK, Advances
<1> QED BY <1>3, <1>4 DEF HitNext

(* The lookup cannot run for ever, whatever the groups are and the caches  *)
(* hold: it reads every group once in a pass, and only a hit that has been *)
(* shortened leads to another pass.                                        *)
THEOREM LookupAdvances == HitSpec => [][Advances]_hitVars
<1>1. HitInit => HitTypeOK
  BY InitHitTypes
<1>2. HitTypeOK /\ [HitNext]_hitVars => HitTypeOK' /\ [Advances]_hitVars
  <2>1. UNCHANGED hitVars /\ HitTypeOK => HitTypeOK'
    BY DEF hitVars, HitTypeOK, Groups, NumGroups
  <2> QED BY <2>1, StepAdvances
<1> QED BY <1>1, <1>2, PTL DEF HitSpec

-----------------------------------------------------------------------------
(* The decoder stack.                                                      *)

(* Rows of equal length, end to end.                                       *)
LEMMA FlattenEqual ==
  ASSUME NEW m \in Nat \ {0}, NEW L \in Nat, NEW V, NEW seqs \in [1 .. m -> Seq(V)],
         \A q \in 1 .. m : Len(seqs[q]) = L
  PROVE  /\ FlattenSeq(seqs) \in Seq(V) /\ Len(FlattenSeq(seqs)) = m * L
         /\ \A q \in 1 .. m, i \in 1 .. L : FlattenSeq(seqs)[((q - 1) * L) + i] = seqs[q][i]
<1>1. PICK f : /\ f[m] = FlattenSeq(seqs)
               /\ \A i \in 1 .. m : f[i] = IF i = 1 THEN seqs[i] ELSE f[i - 1] \o seqs[i]
  <2>1. Len(seqs) = m
    OBVIOUS
  <2> QED BY <2>1, FlattenSteps
<1> DEFINE Right(s, k) == /\ s \in Seq(V) /\ Len(s) = k * L
                          /\ \A q \in 1 .. k, i \in 1 .. L : s[((q - 1) * L) + i] = seqs[q][i]
           S == {k \in Nat : k \in 1 .. m => Right(f[k], k)}
<1>2. 0 \in S
  OBVIOUS
<1>3. ASSUME NEW j \in Nat, j \in S PROVE j + 1 \in S
  <2> SUFFICES ASSUME j + 1 \in 1 .. m PROVE Right(f[j + 1], j + 1)
    OBVIOUS
  <2>1. PICK k \in 1 .. m : k = j + 1 /\ k - 1 = j
    OBVIOUS
  <2>2. seqs[k] \in Seq(V) /\ Len(seqs[k]) = L
    OBVIOUS
  <2>3. CASE k = 1
    <3>1. f[k] = seqs[k]
      BY <1>1, <2>3, Zenon
    <3> HIDE DEF S
    <3>2. \A q \in 1 .. k, i \in 1 .. L : q = 1 /\ (q - 1) * L + i = i
      BY <2>3
    <3> QED BY <2>1, <2>2, <2>3, <3>1, <3>2
  <2>4. CASE k # 1
    <3> DEFINE s == f[k - 1]
               u == seqs[k]
               a == (k - 1) * L
    <3>1. f[k] = s \o u
      BY <1>1, <2>4, Zenon
    <3>2. Right(s, k - 1)
      BY <1>3, <2>1, <2>4
    <3>3. s \in Seq(V) /\ u \in Seq(V) /\ Len(s) = a /\ Len(u) = L
      BY <2>2, <3>2
    <3>4. a \in Nat /\ a + L = k * L
      OBVIOUS
    <3> HIDE DEF s, u, a, S
    <3>5. /\ s \o u \in Seq(V) /\ Len(s \o u) = a + L
          /\ \A x \in 1 .. a + L : (s \o u)[x] = IF x <= a THEN s[x] ELSE u[x - a]
      BY <3>3, ConcatProperties
    <3>6. ASSUME NEW q \in 1 .. k, NEW i \in 1 .. L
          PROVE  (s \o u)[((q - 1) * L) + i] = seqs[q][i]
      <4>1. CASE q = k
        <5>1. ((q - 1) * L) + i = a + i
          BY <4>1 DEF a
        <5>2. a + i \in 1 .. a + L /\ ~(a + i <= a) /\ (a + i) - a = i
          BY <3>4
        <5>3. (s \o u)[a + i] = u[i]
          BY <3>5, <5>2
        <5> QED BY <4>1, <5>1, <5>3 DEF u
      <4>2. CASE q \in 1 .. k - 1
        <5> DEFINE x == ((q - 1) * L) + i
        <5>1. PICK d \in Nat : k - 1 = q + d
          <6>1. (k - 1) - q \in Nat /\ k - 1 = q + ((k - 1) - q)
            BY <4>2
          <6> QED BY <6>1
        <5>2. a = ((q - 1) * L) + L + (d * L) /\ d * L \in Nat /\ (q - 1) * L \in Nat
          BY <4>2, <5>1 DEF a
        <5>3. x \in 1 .. a + L /\ x <= a
          BY <5>2
        <5>4. s[x] = seqs[q][i]
          BY <3>2, <4>2
        <5> HIDE DEF x
        <5>5. (s \o u)[x] = s[x]
          BY <3>5, <5>3
        <5> QED BY <5>4, <5>5 DEF x
      <4>3. q = k \/ q \in 1 .. k - 1
        OBVIOUS
      <4> QED BY <4>1, <4>2, <4>3, Zenon
    <3>7. Right(s \o u, k)
      BY <3>4, <3>5, <3>6
    <3> QED BY <2>1, <3>1, <3>7
  <2> QED BY <2>3, <2>4
<1> HIDE DEF S
<1>4. Nat \subseteq S
  BY <1>2, <1>3, SetInduction
<1>5. Right(f[m], m)
  <2>1. m \in S /\ m \in 1 .. m
    BY <1>4
  <2> HIDE DEF Right
  <2> QED BY <2>1 DEF S
<1>6. Right(FlattenSeq(seqs), m)
  BY <1>1, <1>5, Zenon
<1> QED BY <1>6

IsRowsOf(x, L) == x = [i \in 1 .. L |-> x[i]]

(* The chunks hold all the rows.                                           *)
LEMMA ChunkFacts ==
  ASSUME NEW n \in Nat \ {0}
  PROVE  ChunkRows(n) \in Nat \ {0} /\ n <= TPSize * ChunkRows(n)
<1> DEFINE y == n + TPSize - 1
           m == ChunkRows(n)
<1>1. TPSize \in Nat \ {0} /\ y \in Nat
  BY StackAssumption
<1>2. m \in Nat /\ y = TPSize * m + (y % TPSize) /\ y % TPSize \in 0 .. TPSize - 1
  <2>1. m = y \div TPSize
    BY DEF ChunkRows
  <2> HIDE DEF y, m
  <2> QED BY <1>1, <2>1, DivMod
<1>3. n <= TPSize * m
  <2>1. PICK u \in 0 .. TPSize - 1 : y = TPSize * m + u
    BY <1>2
  <2>2. TPSize * m \in Nat
    BY <1>1, <1>2
  <2> HIDE DEF m
  <2> QED BY <1>1, <2>1, <2>2
<1>4. m # 0
  <2>1. m = 0 => TPSize * m = 0
    BY <1>1
  <2> HIDE DEF m
  <2> QED BY <1>3, <2>1
<1> QED BY <1>2, <1>3, <1>4

(* Row i of rank r's chunk is row (r - 1) * ChunkRows + i of the whole.    *)
LEMMA ChunkIs ==
  ASSUME NEW n \in Nat \ {0}, NEW x, IsRowsOf(x, n), NEW r \in Ranks
  PROVE  LET m == ChunkRows(n)
         IN  /\ IsRowsOf(Chunk(x, r), m)
             /\ \A i \in 1 .. m : ((r - 1) * m) + i <= n => Chunk(x, r)[i] = x[((r - 1) * m) + i]
<1> DEFINE m == ChunkRows(n)
           V == {x[i] : i \in 1 .. n} \cup {Pad}
           pads == [i \in 1 .. (m * TPSize) - n |-> Pad]
           y == x \o pads
           lo == ((r - 1) * m) + 1
           hi == r * m
<1>1. m \in Nat \ {0} /\ n <= m * TPSize /\ TPSize \in Nat \ {0} /\ m * TPSize \in Nat
  <2>1. m \in Nat \ {0} /\ n <= TPSize * m /\ TPSize \in Nat
    BY ChunkFacts, StackAssumption
  <2> HIDE DEF m
  <2> QED BY <2>1, StackAssumption
<1> HIDE DEF m
<1>2. x \in Seq(V) /\ Len(x) = n
  <2>1. x \in [1 .. n -> V]
    BY DEF IsRowsOf
  <2> QED BY <2>1
<1>3. pads \in Seq(V) /\ Len(pads) = (m * TPSize) - n
  <2>1. pads \in [1 .. (m * TPSize) - n -> V] /\ (m * TPSize) - n \in Nat
    BY <1>1
  <2> HIDE DEF pads
  <2> QED BY <2>1
<1> HIDE DEF V, pads
<1>4. /\ y \in Seq(V) /\ Len(y) = m * TPSize
      /\ \A i \in 1 .. n : y[i] = x[i]
  <2>1. /\ y \in Seq(V) /\ Len(y) = n + ((m * TPSize) - n)
        /\ \A i \in 1 .. n + ((m * TPSize) - n) : y[i] = IF i <= n THEN x[i] ELSE pads[i - n]
    <3> DEFINE k == (m * TPSize) - n
    <3>1. Len(pads) = k
      BY <1>3
    <3> HIDE DEF k
    <3>2. /\ y \in Seq(V) /\ Len(y) = n + k
          /\ \A i \in 1 .. n + k : y[i] = IF i <= n THEN x[i] ELSE pads[i - n]
      BY <1>2, <1>3, <3>1, ConcatProperties
    <3> QED BY <3>2 DEF k
  <2>2. n + ((m * TPSize) - n) = m * TPSize
    BY <1>1
  <2> HIDE DEF y
  <2> QED BY <1>1, <2>1, <2>2
<1>5. Chunk(x, r) = SubSeq(y, lo, hi)
  BY <1>2 DEF Chunk, PadTo, m, pads
<1>6. /\ lo \in 1 .. hi + 1 /\ hi \in 0 .. m * TPSize /\ hi - lo + 1 = m
      /\ (r - 1) * m \in Nat
  <2>1. r \in 1 .. TPSize /\ r - 1 \in Nat /\ TPSize - r \in Nat
    BY <1>1 DEF Ranks
  <2>2. (r - 1) * m \in Nat /\ hi = ((r - 1) * m) + m
    BY <1>1, <2>1
  <2>3. m * TPSize = hi + (TPSize - r) * m /\ (TPSize - r) * m \in Nat
    BY <1>1, <2>1
  <2> QED BY <1>1, <2>2, <2>3
<1> HIDE DEF y
<1>7. SubSeq(y, lo, hi) = [i \in 1 .. m |-> y[lo + i - 1]]
  <2>1. lo \in Int /\ hi \in Int
    BY <1>6
  <2> HIDE DEF lo, hi
  <2>2. /\ SubSeq(y, lo, hi) = [i \in 1 .. hi - lo + 1 |-> y[i + lo - 1]]
    BY <1>4, <1>6, <2>1, SubSeqProperties
  <2>3. 1 .. hi - lo + 1 = 1 .. m
    BY <1>6
  <2>4. \A i \in 1 .. m : i + lo - 1 = lo + i - 1
    BY <1>1, <2>1
  <2> QED BY <2>2, <2>3, <2>4
<1>8. IsRowsOf(Chunk(x, r), m)
  BY <1>5, <1>7 DEF IsRowsOf
<1>9. ASSUME NEW i \in 1 .. m, ((r - 1) * m) + i <= n
      PROVE  Chunk(x, r)[i] = x[((r - 1) * m) + i]
  <2>1. lo + i - 1 = ((r - 1) * m) + i
    BY <1>6
  <2>2. ((r - 1) * m) + i \in 1 .. n
    BY <1>1, <1>6, <1>9
  <2>3. Chunk(x, r)[i] = y[lo + i - 1]
    BY <1>5, <1>7
  <2> QED BY <1>4, <2>1, <2>2, <2>3, Zenon
<1> QED BY <1>8, <1>9 DEF m

(* Row t of gathered chunks of L rows, without the rows past n.            *)
Gathered(X, L, n) == [t \in 1 .. n |-> X[((t - 1) \div L) + 1][((t - 1) % L) + 1]]

LEMMA GatherIs ==
  ASSUME NEW X, NEW L \in Nat \ {0}, \A q \in Ranks : IsRowsOf(X[q], L),
         NEW n \in Nat \ {0}, n <= TPSize * L, NEW r \in Ranks
  PROVE  Narrow(SpAllGather(X), n)[r] = Gathered(X, L, n)
<1> DEFINE seqs == [q \in Ranks |-> X[q]]
           V == UNION {{X[q][i] : i \in 1 .. L} : q \in Ranks}
           y == FlattenSeq(seqs)
<1>1. TPSize \in Nat \ {0} /\ Ranks = 1 .. TPSize /\ TPSize * L \in Nat
  BY StackAssumption DEF Ranks
<1>2. ASSUME NEW q \in Ranks PROVE X[q] \in Seq(V) /\ Len(X[q]) = L
  <2>1. {X[q][i] : i \in 1 .. L} \subseteq V
    OBVIOUS
  <2>2. \A i \in 1 .. L : X[q][i] \in V
    BY <2>1
  <2> HIDE DEF V
  <2>3. X[q] \in [1 .. L -> V]
    BY <2>2 DEF IsRowsOf
  <2> QED BY <2>3
<1> HIDE DEF V
<1>3. seqs \in [1 .. TPSize -> Seq(V)] /\ \A q \in 1 .. TPSize : Len(seqs[q]) = L
  BY <1>1, <1>2
<1>4. /\ y \in Seq(V) /\ Len(y) = TPSize * L
      /\ \A q \in 1 .. TPSize, i \in 1 .. L : y[((q - 1) * L) + i] = seqs[q][i]
  <2> HIDE DEF seqs
  <2> QED BY <1>1, <1>3, FlattenEqual
<1>5. Narrow(SpAllGather(X), n)[r] = SubSeq(y, 1, n)
  BY DEF Narrow, SpAllGather
<1> HIDE DEF y
<1>6. SubSeq(y, 1, n) = [t \in 1 .. n |-> y[t]]
  <2>1. 1 \in 1 .. n + 1 /\ n \in 0 .. Len(y) /\ n - 1 + 1 = n
    BY <1>1, <1>4
  <2>2. SubSeq(y, 1, n) = [t \in 1 .. n - 1 + 1 |-> y[t + 1 - 1]]
    BY <1>4, <2>1, SubSeqProperties
  <2>3. \A t \in 1 .. n : t + 1 - 1 = t
    OBVIOUS
  <2> QED BY <2>1, <2>2, <2>3
<1>7. ASSUME NEW t \in 1 .. n
      PROVE  y[t] = X[((t - 1) \div L) + 1][((t - 1) % L) + 1]
  <2> DEFINE p == (t - 1) \div L
             u == (t - 1) % L
  <2>1. t \in 1 .. TPSize * L /\ t - 1 \in Nat
    BY <1>1
  <2>2. p \in 0 .. TPSize - 1 /\ u \in 0 .. L - 1
    BY <1>1, <2>1, FlatPlace
  <2>3. t - 1 = L * p + u
    BY <2>1, DivMod
  <2> HIDE DEF p, u
  <2>4. p + 1 \in 1 .. TPSize /\ u + 1 \in 1 .. L
    BY <1>1, <2>2
  <2>5. t = (((p + 1) - 1) * L) + (u + 1)
    BY <2>2, <2>3
  <2>6. y[(((p + 1) - 1) * L) + (u + 1)] = seqs[p + 1][u + 1]
    BY <1>4, <2>4
  <2>7. y[t] = seqs[p + 1][u + 1]
    BY <2>5, <2>6, Zenon
  <2>8. seqs[p + 1] = X[p + 1]
    BY <1>1, <2>4
  <2> QED BY <2>7, <2>8 DEF p, u
<1> QED BY <1>5, <1>6, <1>7 DEF Gathered

(* A rank's rows: all the tokens, or its chunk of them.                    *)
Width       == IF shape.sp THEN ChunkRows(shape.n) ELSE shape.n
Token(r, i) == IF shape.sp THEN ((r - 1) * ChunkRows(shape.n)) + i ELSE i

(* Rank r's rows of the tokens, past which padding may hold anything.      *)
Holds(x, r, kind, k) ==
  /\ IsRowsOf(x, Width)
  /\ \A i \in 1 .. Width : Token(r, i) <= shape.n => x[i] = Row(kind, Token(r, i), k)

(* A sublayer's input or output, with what hc_post will need.              *)
Pending(c, r, kind, k) ==
  Holds(c.x, r, kind, k) /\ Holds(c.residual, r, "streams", k) /\ Holds(c.mix, r, "mix", k)

(* The rows of every token, in order.                                      *)
AllRows(kind, k) == [t \in 1 .. shape.n |-> Row(kind, t, k)]

LEMMA ShapeFacts ==
  ASSUME shape \in StackShapes
  PROVE  /\ shape.n \in Nat \ {0} /\ Width \in Nat \ {0}
         /\ shape.sp \in BOOLEAN /\ shape.mhc \in BOOLEAN
         /\ shape.sp => shape.mhc /\ shape.dense = {}
<1>1. /\ shape.n \in Nat \ {0} /\ shape.sp \in BOOLEAN /\ shape.mhc \in BOOLEAN
      /\ shape.sp => shape.mhc /\ shape.dense = {}
  BY StackAssumption DEF StackShapes
<1>2. ChunkRows(shape.n) \in Nat \ {0}
  BY <1>1, ChunkFacts
<1> QED BY <1>1, <1>2 DEF Width

LEMMA ExpandHolds ==
  ASSUME NEW x, NEW r, Holds(x, r, "hidden", 0)
  PROVE  Holds(HcExpand(x), r, "streams", 0)
BY DEF Holds, HcExpand, ExpandRow, Row, IsRowsOf

LEMMA ContractHolds ==
  ASSUME NEW x, NEW r, NEW k, Holds(x, r, "streams", k)
  PROVE  Holds(HcContract(x), r, "hidden", k)
BY DEF Holds, HcContract, ContractRow, Row, IsRowsOf

LEMMA PreHolds ==
  ASSUME NEW s, NEW r, NEW k, Holds(s, r, "streams", k)
  PROVE  Pending(HcPre(s, k), r, "in", k)
<1> DEFINE c == HcPre(s, k)
<1>1. Holds(c.x, r, "in", k)
  BY DEF Holds, HcPre, InRow, Row, IsRowsOf
<1>2. Holds(c.mix, r, "mix", k)
  BY DEF Holds, HcPre, MixRow, Row, IsRowsOf
<1>3. c.residual = s
  BY DEF HcPre
<1> QED BY <1>1, <1>2, <1>3 DEF Pending

LEMMA PostHolds ==
  ASSUME NEW c, NEW r, NEW k, Pending(c, r, "out", k)
  PROVE  Holds(HcPost(c), r, "streams", k + 1)
<1>1. ASSUME NEW i \in 1 .. Width, Token(r, i) <= shape.n
      PROVE  HcPost(c)[i] = Row("streams", Token(r, i), k + 1)
  <2>1. /\ c.x[i] = Row("out", Token(r, i), k) /\ c.residual[i] = Row("streams", Token(r, i), k)
        /\ c.mix[i] = Row("mix", Token(r, i), k)
    BY <1>1 DEF Pending, Holds
  <2>2. HcPost(c)[i] = PostRow(c.x[i], c.residual[i], c.mix[i])
    BY DEF HcPost, Pending, Holds, IsRowsOf
  <2> QED BY <2>1, <2>2 DEF PostRow, Row
<1>2. IsRowsOf(HcPost(c), Width)
  BY DEF HcPost, Pending, Holds, IsRowsOf
<1> QED BY <1>1, <1>2 DEF Holds

(* With sequence parallelism what is gathered from the ranks, and          *)
(* otherwise what each has, is every token once and in order.              *)
Gather(X) == IF shape.sp THEN Narrow(SpAllGather(X), shape.n) ELSE X

LEMMA GatherHolds ==
  ASSUME shape \in StackShapes, NEW X, NEW kind, NEW k,
         \A q \in Ranks : Holds(X[q], q, kind, k), NEW r \in Ranks
  PROVE  Gather(X)[r] = AllRows(kind, k)
<1>1. CASE shape.sp
  <2> DEFINE L == ChunkRows(shape.n)
             n == shape.n
  <2>1. n \in Nat \ {0} /\ L \in Nat \ {0} /\ n <= TPSize * L /\ Width = L
    BY <1>1, ShapeFacts, ChunkFacts DEF Width
  <2>2. \A q \in Ranks : IsRowsOf(X[q], L)
    BY <2>1 DEF Holds
  <2>3. Narrow(SpAllGather(X), n)[r] = Gathered(X, L, n)
    <3> HIDE DEF L, n
    <3> QED BY <2>1, <2>2, GatherIs
  <2>4. ASSUME NEW t \in 1 .. n
        PROVE  X[((t - 1) \div L) + 1][((t - 1) % L) + 1] = Row(kind, t, k)
    <3> DEFINE p == (t - 1) \div L
               u == (t - 1) % L
    <3>1. t \in 1 .. TPSize * L /\ t - 1 \in Nat /\ TPSize \in Nat
      BY <2>1, StackAssumption
    <3>2. p \in 0 .. TPSize - 1 /\ u \in 0 .. L - 1
      BY <2>1, <3>1, FlatPlace
    <3>3. t - 1 = L * p + u
      BY <2>1, <3>1, DivMod
    <3> HIDE DEF p, u
    <3>4. p + 1 \in Ranks /\ u + 1 \in 1 .. Width
      BY <2>1, <3>1, <3>2 DEF Ranks
    <3>5. Token(p + 1, u + 1) = t
      <4>1. Token(p + 1, u + 1) = (((p + 1) - 1) * L) + (u + 1)
        BY <1>1 DEF Token
      <4>2. ((p + 1) - 1) * L = L * p /\ L * p \in Nat
        BY <2>1, <3>2
      <4> QED BY <3>2, <3>3, <4>1, <4>2
    <3>6. Holds(X[p + 1], p + 1, kind, k)
      BY <3>4
    <3>7. X[p + 1][u + 1] = Row(kind, Token(p + 1, u + 1), k)
      BY <2>1, <3>4, <3>5, <3>6 DEF Holds
    <3> QED BY <3>5, <3>7 DEF p, u
  <2> QED BY <1>1, <2>3, <2>4 DEF AllRows, Gather, Gathered
<1>2. CASE ~shape.sp
  <2>1. Width = shape.n /\ \A i : Token(r, i) = i
    BY <1>2 DEF Width, Token
  <2>2. X[r] = [i \in 1 .. shape.n |-> X[r][i]]
    BY <2>1 DEF Holds, IsRowsOf
  <2>3. \A i \in 1 .. shape.n : X[r][i] = Row(kind, i, k)
    BY <2>1, ShapeFacts DEF Holds
  <2>4. X[r] = AllRows(kind, k)
    BY <2>2, <2>3 DEF AllRows
  <2> QED BY <1>2, <2>4 DEF Gather
<1> QED BY <1>1, <1>2

(* And the other way: the chunks of the whole.                             *)
Shard(X) == IF shape.sp THEN SpShard(X) ELSE X

LEMMA ShardHolds ==
  ASSUME shape \in StackShapes, NEW X, NEW kind, NEW k, \A q \in Ranks : X[q] = AllRows(kind, k),
         NEW r \in Ranks
  PROVE  Holds(Shard(X)[r], r, kind, k)
<1>1. X[r] = [t \in 1 .. shape.n |-> Row(kind, t, k)] /\ shape.n \in Nat \ {0}
  BY ShapeFacts DEF AllRows
<1>2. IsRowsOf(X[r], shape.n) /\ \A t \in 1 .. shape.n : X[r][t] = Row(kind, t, k)
  BY <1>1 DEF IsRowsOf
<1>3. CASE shape.sp
  <2> DEFINE m == ChunkRows(shape.n)
  <2>1. m \in Nat \ {0} /\ Width = m
    BY <1>1, <1>3, ChunkFacts DEF Width
  <2>2. /\ IsRowsOf(Chunk(X[r], r), m)
        /\ \A i \in 1 .. m : ((r - 1) * m) + i <= shape.n
                               => Chunk(X[r], r)[i] = X[r][((r - 1) * m) + i]
    BY <1>1, <1>2, ChunkIs
  <2>3. ASSUME NEW i \in 1 .. m, Token(r, i) <= shape.n
        PROVE  Chunk(X[r], r)[i] = Row(kind, Token(r, i), k)
    <3>1. Token(r, i) = ((r - 1) * m) + i
      BY <1>3 DEF Token
    <3>2. r - 1 \in Nat /\ (r - 1) * m \in Nat
      BY <2>1, StackAssumption DEF Ranks
    <3>3. Token(r, i) \in 1 .. shape.n
      BY <1>1, <2>1, <2>3, <3>1, <3>2
    <3>4. Chunk(X[r], r)[i] = X[r][Token(r, i)]
      BY <2>2, <2>3, <3>1
    <3> QED BY <1>2, <3>3, <3>4
  <2>4. Shard(X)[r] = Chunk(X[r], r)
    BY <1>3 DEF Shard, SpShard
  <2> HIDE DEF m
  <2> QED BY <2>1, <2>2, <2>3, <2>4 DEF Holds
<1>4. CASE ~shape.sp
  BY <1>2, <1>4 DEF Holds, Shard, Width, Token
<1> QED BY <1>3, <1>4

LEMMA AllReduceIs ==
  ASSUME NEW X, NEW k, \A q \in Ranks : X[q] = AllRows("part", k), NEW r \in Ranks
  PROVE  AllReduce(X)[r] = AllRows("out", k)
<1>1. 1 \in Ranks
  BY StackAssumption DEF Ranks
<1>2. ASSUME NEW i \in 1 .. shape.n PROVE SumRow(X, i) = Row("out", i, k)
  <2>1. \A q \in Ranks : i \in DOMAIN X[q] /\ X[q][i] = Row("part", i, k)
    BY DEF AllRows
  <2> QED BY <1>1, <2>1 DEF SumRow, Row
<1>3. AllReduce(X)[r] = [i \in DOMAIN X[r] |-> SumRow(X, i)] /\ DOMAIN X[r] = 1 .. shape.n
  BY DEF AllReduce, AllRows
<1> QED BY <1>2, <1>3 DEF AllRows

(* Attention, with the reduction that sequence parallelism delays: its     *)
(* output is whole on every rank.                                          *)
AttnOutput(G, k) == IF shape.sp THEN SpReduceScatter(SelfAttn(G, k)) ELSE SelfAttn(G, k)

LEMMA AttnHolds ==
  ASSUME shape \in StackShapes, NEW G, NEW k, \A q \in Ranks : G[q] = AllRows("in", k),
         NEW r \in Ranks
  PROVE  Holds(AttnOutput(G, k)[r], r, "out", k)
<1> DEFINE P == [q \in Ranks |-> Heads(G[q], k)]
<1>1. ASSUME NEW q \in Ranks PROVE P[q] = AllRows("part", k)
  <2> DEFINE x == G[q]
  <2>1. x = [i \in 1 .. shape.n |-> Row("in", i, k)] /\ shape.n \in Nat
    BY ShapeFacts DEF AllRows
  <2> HIDE DEF x
  <2>2. Len(x) = shape.n /\ DOMAIN x = 1 .. shape.n
    BY <2>1
  <2>3. \A i \in 1 .. shape.n : \A j \in 1 .. i : x[j] = Row("in", j, k)
    BY <2>1
  <2>4. Heads(x, k) = [i \in 1 .. shape.n |-> Row("part", i, k)]
    BY <2>2, <2>3 DEF Heads
  <2> QED BY <2>4 DEF x, AllRows
<1>2. SelfAttn(G, k) = IF shape.sp THEN P ELSE AllReduce(P)
  BY DEF SelfAttn
<1> HIDE DEF P
<1>3. \A q \in Ranks : AllReduce(P)[q] = AllRows("out", k)
  BY <1>1, AllReduceIs
<1>4. AttnOutput(G, k) = Shard(AllReduce(P))
  BY <1>2 DEF AttnOutput, Shard, SpReduceScatter
<1> HIDE DEF AttnOutput
<1> QED BY <1>3, <1>4, ShardHolds

(* The MLP of a layer, whose rows are never sharded once more: a dense one *)
(* meets whole rows only.                                                  *)
LEMMA MlpHolds ==
  ASSUME shape \in StackShapes, NEW X, NEW k, NEW layer, NEW already,
         shape.sp => already, \A q \in Ranks : Holds(X[q], q, "in", k), NEW r \in Ranks
  PROVE  Holds(Mlp(X, layer, already)[r], r, "out", k)
<1>1. CASE layer \in shape.dense
  <2> DEFINE P == [q \in Ranks |-> [i \in DOMAIN X[q] |-> MlpRow(X[q][i], "part")]]
  <2>1. ~shape.sp
    BY <1>1, ShapeFacts
  <2>2. ASSUME NEW q \in Ranks PROVE P[q] = AllRows("part", k)
    <3>1. X[q] = AllRows("in", k)
      <4>1. Gather(X)[q] = AllRows("in", k)
        BY GatherHolds
      <4> QED BY <2>1, <4>1 DEF Gather
    <3>2. P[q] = [i \in DOMAIN X[q] |-> MlpRow(X[q][i], "part")]
      OBVIOUS
    <3>3. P[q] = [i \in 1 .. shape.n |-> MlpRow(Row("in", i, k), "part")]
      BY <3>1, <3>2 DEF AllRows
    <3>4. \A i : MlpRow(Row("in", i, k), "part") = Row("part", i, k)
      BY DEF MlpRow, Row
    <3> QED BY <3>3, <3>4 DEF AllRows
  <2>3. Mlp(X, layer, already) = AllReduce(P)
    BY <1>1 DEF Mlp, DenseMLP
  <2> HIDE DEF P
  <2>4. \A q \in Ranks : AllReduce(P)[q] = AllRows("out", k)
    BY <2>2, AllReduceIs
  <2>5. Holds(Shard(AllReduce(P))[r], r, "out", k)
    BY <2>4, ShardHolds
  <2> QED BY <2>1, <2>3, <2>5 DEF Shard
<1>2. CASE layer \notin shape.dense
  <2>1. Mlp(X, layer, already)[r] = [i \in DOMAIN X[r] |-> MlpRow(X[r][i], "out")]
    BY <1>2 DEF Mlp, MoE, Experts
  <2>2. DOMAIN X[r] = 1 .. Width
    BY DEF Holds, IsRowsOf
  <2>3. ASSUME NEW i \in 1 .. Width, Token(r, i) <= shape.n
        PROVE  Mlp(X, layer, already)[r][i] = Row("out", Token(r, i), k)
    <3>1. X[r][i] = Row("in", Token(r, i), k)
      BY <2>3 DEF Holds
    <3>2. Mlp(X, layer, already)[r][i] = MlpRow(X[r][i], "out")
      BY <2>1, <2>2
    <3> QED BY <3>1, <3>2 DEF MlpRow, Row
  <2>4. IsRowsOf(Mlp(X, layer, already)[r], Width)
    BY <2>1, <2>2 DEF IsRowsOf
  <2> QED BY <2>3, <2>4 DEF Holds
<1> QED BY <1>1, <1>2

-----------------------------------------------------------------------------
(* After d layers: what every rank carries stands for the tokens' hidden   *)
(* states after 2 * d sublayers, the last hc_post pending inside an mHC    *)
(* stack.                                                                  *)
Inside(d) == shape.mhc /\ d # 0 /\ d # NumLayers

CarryHolds(C, d) ==
  \A r \in Ranks : IF Inside(d) THEN Pending(C[r], r, "out", (2 * d) - 1)
                   ELSE Holds(C[r].x, r, "hidden", 2 * d) /\ C[r].mix = None

(* What is pending is told from what is not.                               *)
LEMMA PendingIsSome ==
  ASSUME shape \in StackShapes, NEW c, NEW r, NEW kind, NEW k, Pending(c, r, kind, k)
  PROVE  c.mix # None
<1>1. c.mix = [i \in 1 .. Width |-> c.mix[i]] /\ Width \in Nat \ {0}
  BY ShapeFacts DEF Pending, Holds, IsRowsOf
<1>2. DOMAIN c.mix = 1 .. Width /\ 1 \in 1 .. Width
  BY <1>1
<1>3. 1 \notin DOMAIN None
  BY DEF None
<1> QED BY <1>2, <1>3

LEMMA MhcLayerKeeps ==
  ASSUME shape \in StackShapes, shape.mhc, NEW d \in 0 .. NumLayers - 1, NEW C, CarryHolds(C, d)
  PROVE  CarryHolds(MhcLayer(C, d), d + 1)
<1> DEFINE A == [r \in Ranks |-> AttnPre(C[r], d)]
           G == Gather(Xs(A))
           S == AttnOutput(G, 2 * d)
           F == [r \in Ranks |-> HcFusedPostPre([A[r] EXCEPT !.x = S[r]], (2 * d) + 1)]
           M == Mlp(Xs(F), d, shape.sp)
           E == [r \in Ranks |-> [F[r] EXCEPT !.x = M[r]]]
<1>1. NumLayers \in Nat \ {0} /\ d \in Nat
  BY StackAssumption
<1>2. MhcLayer(C, d) = IF d = NumLayers - 1
                       THEN [r \in Ranks |-> Carry(HcContract(HcPost(E[r])), None, None)]
                       ELSE E
  BY DEF MhcLayer, AttnOutput, Gather
<1>3. ASSUME NEW r \in Ranks
      PROVE  \E s : Holds(s, r, "streams", 2 * d) /\ A[r] = HcPre(s, 2 * d)
  <2>1. A[r] = AttnPre(C[r], d)
    OBVIOUS
  <2>2. CASE Inside(d)
    <3>1. Pending(C[r], r, "out", (2 * d) - 1)
      BY <2>2 DEF CarryHolds
    <3>2. C[r].mix # None
      BY <3>1, PendingIsSome
    <3>3. Holds(HcPost(C[r]), r, "streams", 2 * d)
      <4>1. Holds(HcPost(C[r]), r, "streams", ((2 * d) - 1) + 1)
        BY <3>1, PostHolds
      <4>2. ((2 * d) - 1) + 1 = 2 * d
        BY <1>1
      <4> QED BY <4>1, <4>2, Zenon
    <3>4. A[r] = HcPre(HcPost(C[r]), 2 * d)
      BY <2>1, <3>2 DEF AttnPre, HcFusedPostPre
    <3> QED BY <3>3, <3>4
  <2>3. CASE ~Inside(d)
    <3>1. d = 0
      BY <1>1, <2>3 DEF Inside
    <3>2. 2 * d = 0
      BY <3>1
    <3>3. Holds(C[r].x, r, "hidden", 0) /\ C[r].mix = None
      BY <2>3, <3>2 DEF CarryHolds
    <3>4. Holds(HcExpand(C[r].x), r, "streams", 0)
      BY <3>3, ExpandHolds
    <3>5. A[r] = HcPre(HcExpand(C[r].x), 2 * d)
      BY <2>1, <3>1, <3>3 DEF AttnPre
    <3> QED BY <3>2, <3>4, <3>5
  <2> QED BY <2>2, <2>3
<1>4. \A r \in Ranks : Pending(A[r], r, "in", 2 * d)
  BY <1>3, PreHolds
<1> HIDE DEF A
<1>5. \A r \in Ranks : Holds(Xs(A)[r], r, "in", 2 * d)
  BY <1>4 DEF Xs, Pending
<1>6. \A r \in Ranks : G[r] = AllRows("in", 2 * d)
  BY <1>5, GatherHolds
<1> HIDE DEF G
<1>7. \A r \in Ranks : Holds(S[r], r, "out", 2 * d)
  BY <1>6, AttnHolds
<1> HIDE DEF S
<1>8. ASSUME NEW r \in Ranks
      PROVE  \E s : Holds(s, r, "streams", (2 * d) + 1) /\ F[r] = HcPre(s, (2 * d) + 1)
  <2> DEFINE c == [A[r] EXCEPT !.x = S[r]]
  <2>1. PICK s : A[r] = HcPre(s, 2 * d)
    BY <1>3
  <2>2. c.x = S[r] /\ c.residual = A[r].residual /\ c.mix = A[r].mix
    BY <2>1 DEF HcPre
  <2>3. F[r] = HcPre(HcPost(c), (2 * d) + 1)
    BY DEF HcFusedPostPre
  <2> HIDE DEF c
  <2>4. Pending(c, r, "out", 2 * d)
    BY <1>4, <1>7, <2>2 DEF Pending
  <2>5. Holds(HcPost(c), r, "streams", (2 * d) + 1)
    BY <2>4, PostHolds
  <2> QED BY <2>3, <2>5
<1>9. \A r \in Ranks : Pending(F[r], r, "in", (2 * d) + 1)
  BY <1>8, PreHolds
<1> HIDE DEF F
<1>10. \A r \in Ranks : Holds(M[r], r, "out", (2 * d) + 1)
  <2>1. \A r \in Ranks : Holds(Xs(F)[r], r, "in", (2 * d) + 1)
    BY <1>9 DEF Xs, Pending
  <2> QED BY <2>1, MlpHolds
<1> HIDE DEF M
<1>11. ASSUME NEW r \in Ranks PROVE Pending(E[r], r, "out", (2 * d) + 1)
  <2>1. PICK s : F[r] = HcPre(s, (2 * d) + 1)
    BY <1>8
  <2>2. E[r].x = M[r] /\ E[r].residual = F[r].residual /\ E[r].mix = F[r].mix
    BY <2>1 DEF HcPre
  <2> HIDE DEF E
  <2> QED BY <1>9, <1>10, <2>2 DEF Pending
<1> HIDE DEF E
<1>12. CASE d = NumLayers - 1
  <2>1. ~Inside(d + 1)
    BY <1>1, <1>12 DEF Inside
  <2>2. ASSUME NEW r \in Ranks
        PROVE  Holds(MhcLayer(C, d)[r].x, r, "hidden", 2 * (d + 1)) /\ MhcLayer(C, d)[r].mix = None
    <3>1. MhcLayer(C, d)[r] = Carry(HcContract(HcPost(E[r])), None, None)
      BY <1>2, <1>12
    <3>2. Holds(HcPost(E[r]), r, "streams", ((2 * d) + 1) + 1)
      BY <1>11, PostHolds
    <3>3. Holds(HcContract(HcPost(E[r])), r, "hidden", ((2 * d) + 1) + 1)
      BY <3>2, ContractHolds
    <3>4. ((2 * d) + 1) + 1 = 2 * (d + 1)
      BY <1>1
    <3> QED BY <3>1, <3>3, <3>4 DEF Carry
  <2> QED BY <2>1, <2>2 DEF CarryHolds
<1>13. CASE d # NumLayers - 1
  <2>1. Inside(d + 1) /\ (2 * (d + 1)) - 1 = (2 * d) + 1
    BY <1>1, <1>13 DEF Inside
  <2>2. MhcLayer(C, d) = E
    BY <1>2, <1>13
  <2> QED BY <1>11, <2>1, <2>2 DEF CarryHolds
<1> QED BY <1>12, <1>13

LEMMA AddedHolds ==
  ASSUME NEW X, NEW R, NEW r \in Ranks, NEW k, Holds(X[r], r, "out", k), Holds(R[r], r, "hidden", k)
  PROVE  Holds(Added(X, R)[r], r, "hidden", k + 1)
<1>1. Added(X, R)[r] = [i \in DOMAIN X[r] |-> AddRow(X[r][i], R[r][i])] /\ DOMAIN X[r] = 1 .. Width
  BY DEF Added, Holds, IsRowsOf
<1>2. ASSUME NEW i \in 1 .. Width, Token(r, i) <= shape.n
      PROVE  Added(X, R)[r][i] = Row("hidden", Token(r, i), k + 1)
  <2>1. X[r][i] = Row("out", Token(r, i), k) /\ R[r][i] = Row("hidden", Token(r, i), k)
    BY <1>2 DEF Holds
  <2>2. Added(X, R)[r][i] = AddRow(X[r][i], R[r][i])
    BY <1>1
  <2> QED BY <2>1, <2>2 DEF AddRow, Row
<1>3. IsRowsOf(Added(X, R)[r], Width)
  BY <1>1 DEF IsRowsOf
<1> QED BY <1>2, <1>3 DEF Holds

LEMMA NormedHolds ==
  ASSUME NEW X, NEW r \in Ranks, NEW k, Holds(X[r], r, "hidden", k)
  PROVE  Holds(Normed(X, k)[r], r, "in", k)
<1>1. /\ DOMAIN X[r] = 1 .. Width
      /\ Normed(X, k)[r] = [i \in DOMAIN X[r] |->
           IF X[r][i][1] = "hidden" /\ X[r][i][3] = k THEN Row("in", X[r][i][2], k) ELSE Bad]
  BY DEF Normed, Holds, IsRowsOf
<1>2. ASSUME NEW i \in 1 .. Width, Token(r, i) <= shape.n
      PROVE  Normed(X, k)[r][i] = Row("in", Token(r, i), k)
  <2>1. X[r][i] = Row("hidden", Token(r, i), k)
    BY <1>2 DEF Holds
  <2> QED BY <1>1, <2>1 DEF Row
<1>3. IsRowsOf(Normed(X, k)[r], Width)
  BY <1>1 DEF IsRowsOf
<1> QED BY <1>2, <1>3 DEF Holds

LEMMA PlainLayerKeeps ==
  ASSUME shape \in StackShapes, ~shape.mhc, NEW d \in 0 .. NumLayers - 1, NEW C, CarryHolds(C, d)
  PROVE  CarryHolds(PlainLayer(C, d), d + 1)
<1> DEFINE k == 2 * d
           X == Xs(C)
           R == Added(SelfAttn(Normed(X, k), k), X)
           Y == Added(Mlp(Normed(R, k + 1), d, FALSE), R)
<1>1. /\ ~shape.sp /\ NumLayers \in Nat \ {0} /\ d \in Nat /\ k \in Nat
      /\ \A e : ~Inside(e)
  BY ShapeFacts, StackAssumption DEF Inside
<1>2. PlainLayer(C, d) = [r \in Ranks |-> Carry(Y[r], R[r], None)]
  BY DEF PlainLayer
<1>3. \A r \in Ranks : Holds(X[r], r, "hidden", k)
  BY <1>1 DEF CarryHolds, Xs
<1> HIDE DEF X
<1>4. \A r \in Ranks : Holds(R[r], r, "hidden", k + 1)
  <2> DEFINE N == Normed(X, k)
  <2>1. \A r \in Ranks : Holds(N[r], r, "in", k)
    BY <1>3, NormedHolds
  <2> HIDE DEF N
  <2>2. \A r \in Ranks : Gather(N)[r] = AllRows("in", k)
    BY <2>1, GatherHolds
  <2>3. Gather(N) = N /\ AttnOutput(N, k) = SelfAttn(N, k)
    BY <1>1 DEF Gather, AttnOutput
  <2> HIDE DEF k
  <2>4. \A r \in Ranks : Holds(AttnOutput(N, k)[r], r, "out", k)
    BY <2>2, <2>3, AttnHolds
  <2>5. \A r \in Ranks : Holds(Added(SelfAttn(N, k), X)[r], r, "hidden", k + 1)
    BY <1>3, <2>3, <2>4, AddedHolds
  <2> QED BY <2>5 DEF N
<1> HIDE DEF R
<1>5. \A r \in Ranks : Holds(Y[r], r, "hidden", (k + 1) + 1)
  <2> DEFINE N == Normed(R, k + 1)
  <2> HIDE DEF k
  <2>1. \A r \in Ranks : Holds(N[r], r, "in", k + 1)
    BY <1>4, NormedHolds
  <2> HIDE DEF N
  <2>2. \A r \in Ranks : Holds(Mlp(N, d, FALSE)[r], r, "out", k + 1)
    BY <1>1, <2>1, MlpHolds
  <2>3. \A r \in Ranks : Holds(Added(Mlp(N, d, FALSE), R)[r], r, "hidden", (k + 1) + 1)
    BY <1>4, <2>2, AddedHolds
  <2> QED BY <2>3 DEF N
<1> HIDE DEF Y
<1>6. (k + 1) + 1 = 2 * (d + 1)
  BY <1>1
<1>7. \A r \in Ranks : PlainLayer(C, d)[r].x = Y[r] /\ PlainLayer(C, d)[r].mix = None
  BY <1>2 DEF Carry
<1> HIDE DEF k
<1> QED BY <1>1, <1>5, <1>6, <1>7 DEF CarryHolds

LEMMA LayerKeeps ==
  ASSUME shape \in StackShapes, NEW d \in 0 .. NumLayers - 1, NEW C, CarryHolds(C, d)
  PROVE  CarryHolds(DecoderLayer(C, d), d + 1)
BY ShapeFacts, MhcLayerKeeps, PlainLayerKeeps DEF DecoderLayer

(* The pending hc_post run and the chunks gathered, every rank has the     *)
(* hidden states of all the tokens; that is what DFlash2 is given.         *)
LEMMA WholeIs ==
  ASSUME shape \in StackShapes, NEW d \in 0 .. NumLayers, NEW C, CarryHolds(C, d), NEW r \in Ranks
  PROVE  WholeRows(C)[r] = AllRows("hidden", 2 * d)
<1> DEFINE H == [q \in Ranks |-> Materialised(C[q])]
<1>1. ASSUME NEW q \in Ranks PROVE Holds(H[q], q, "hidden", 2 * d)
  <2>1. H[q] = Materialised(C[q])
    OBVIOUS
  <2>2. CASE Inside(d)
    <3>1. Pending(C[q], q, "out", (2 * d) - 1)
      BY <2>2 DEF CarryHolds
    <3>2. H[q] = HcContract(HcPost(C[q]))
      BY <2>1, <3>1, PendingIsSome DEF Materialised
    <3>3. ((2 * d) - 1) + 1 = 2 * d
      OBVIOUS
    <3>4. Holds(HcPost(C[q]), q, "streams", 2 * d)
      <4>1. Holds(HcPost(C[q]), q, "streams", ((2 * d) - 1) + 1)
        BY <3>1, PostHolds
      <4> QED BY <3>3, <4>1, Zenon
    <3> QED BY <3>2, <3>4, ContractHolds
  <2>3. CASE ~Inside(d)
    BY <2>1, <2>3 DEF CarryHolds, Materialised
  <2> QED BY <2>2, <2>3
<1>2. WholeRows(C) = Gather(H)
  BY DEF WholeRows, Gather
<1> HIDE DEF H
<1> QED BY <1>1, <1>2, GatherHolds

LEMMA CaptureIsWhole ==
  ASSUME NEW C
  PROVE  CaptureRows(C) = WholeRows(C)
<1>1. \A r \in Ranks : (IF C[r].mix = None THEN C[r].x ELSE HcContract(HcPost(C[r]))) = Materialised(C[r])
  BY DEF Materialised
<1> QED BY <1>1 DEF CaptureRows, WholeRows

-----------------------------------------------------------------------------
(* The refinement: between layers the ranks agree, and carry the plain     *)
(* stack's states.                                                         *)
StackInv ==
  /\ shape \in StackShapes /\ idx \in 0 .. NumLayers
  /\ CarryHolds(carry, idx)
  /\ \A r \in Ranks : captured[r] = captured[1] /\ final[r] = final[1]

LEMMA CommonIs ==
  ASSUME NEW X, NEW x, \A r \in Ranks : X[r] = x
  PROVE  Common(X) = x
<1>1. 1 \in Ranks
  BY StackAssumption DEF Ranks
<1> QED BY <1>1 DEF Common

LEMMA InvHidden ==
  ASSUME StackInv
  PROVE  Common(WholeRows(carry)) = AllRows("hidden", 2 * idx)
<1>1. \A r \in Ranks : WholeRows(carry)[r] = AllRows("hidden", 2 * idx)
  BY WholeIs DEF StackInv
<1> QED BY <1>1, CommonIs

LEMMA AfterIs == \A d : Plain!After(d) = AllRows("hidden", 2 * d)
BY DEF Plain!After, AllRows, Row

LEMMA InitStackInv == StackInit => StackInv /\ Plain!PlainInit
<1> SUFFICES ASSUME StackInit PROVE StackInv /\ Plain!PlainInit
  OBVIOUS
<1> DEFINE X == Shard(Embedded)
<1>1. shape \in StackShapes /\ idx = 0 /\ carry = [r \in Ranks |-> Carry(X[r], None, None)]
  BY DEF StackInit, Shard
<1>2. NumLayers \in Nat /\ 0 \in 0 .. NumLayers /\ 2 * 0 = 0
  BY StackAssumption
<1>3. \A r \in Ranks : Embedded[r] = AllRows("hidden", 0)
  BY DEF Embedded, AllRows
<1>4. \A r \in Ranks : Holds(X[r], r, "hidden", 0)
  BY <1>1, <1>3, ShardHolds
<1> HIDE DEF X
<1>5. \A r \in Ranks : carry[r].x = X[r] /\ carry[r].mix = None
  BY <1>1 DEF Carry
<1>6. CarryHolds(carry, idx)
  BY <1>1, <1>2, <1>4, <1>5 DEF CarryHolds, Inside
<1>7. \A r \in Ranks : captured[r] = <<>> /\ final[r] = <<>>
  BY DEF StackInit
<1>8. 1 \in Ranks
  BY StackAssumption DEF Ranks
<1>9. StackInv
  BY <1>1, <1>2, <1>6, <1>7, <1>8 DEF StackInv
<1>10. Common(captured) = <<>> /\ Common(final) = <<>>
  BY <1>7, CommonIs
<1> QED BY <1>1, <1>9, <1>10, InvHidden, AfterIs DEF Plain!PlainInit

LEMMA LayerStep ==
  ASSUME StackInv, Layer
  PROVE  StackInv' /\ Plain!PlainLayer
<1> DEFINE C == DecoderLayer(carry, idx)
           rows == AllRows("hidden", 2 * (idx + 1))
<1>1. /\ idx \in 0 .. NumLayers - 1 /\ idx' = idx + 1 /\ idx' \in 0 .. NumLayers
      /\ carry' = C /\ shape' = shape /\ final' = final
      /\ captured' = IF idx + 1 \in shape.aux
                     THEN [r \in Ranks |-> Append(captured[r], CaptureRows(C)[r])]
                     ELSE captured
  BY StackAssumption DEF Layer, StackInv
<1>2. shape \in StackShapes /\ CarryHolds(C, idx + 1)
  BY <1>1, LayerKeeps DEF StackInv
<1> HIDE DEF C
<1>3. \A r \in Ranks : WholeRows(C)[r] = rows
  BY <1>1, <1>2, WholeIs
<1>4. CarryHolds(carry, idx)'
  <2>1. CarryHolds(carry, idx)' <=> CarryHolds(C, idx + 1)
    BY <1>1 DEF CarryHolds, Inside, Pending, Holds, Width, Token
  <2> QED BY <1>2, <2>1
<1>5. WholeRows(carry)' = WholeRows(C)
  BY <1>1 DEF WholeRows
<1>6. Common(WholeRows(carry))' = rows
  <2>1. Common(WholeRows(carry))' = Common(WholeRows(C))
    BY <1>5 DEF Common
  <2> QED BY <1>3, <2>1, CommonIs
<1>7. 1 \in Ranks /\ \A r \in Ranks : captured[r] = captured[1] /\ final[r] = final[1]
  BY StackAssumption DEF StackInv, Ranks
<1>8. /\ \A r \in Ranks : captured'[r] = captured'[1]
      /\ Common(captured)' = IF idx + 1 \in shape.aux THEN Append(Common(captured), rows)
                             ELSE Common(captured)
  <2>1. Common(captured) = captured[1]
    BY <1>7, CommonIs
  <2>2. CASE idx + 1 \in shape.aux
    <3>1. \A r \in Ranks : captured'[r] = Append(captured[1], rows)
      BY <1>1, <1>3, <1>7, <2>2, CaptureIsWhole
    <3>2. Common(captured') = Append(captured[1], rows)
      BY <3>1, CommonIs
    <3>3. Common(captured)' = Common(captured')
      BY DEF Common
    <3> QED BY <1>7, <2>1, <2>2, <3>1, <3>2, <3>3
  <2>3. CASE idx + 1 \notin shape.aux
    <3>1. captured' = captured
      BY <1>1, <2>3
    <3>2. Common(captured)' = Common(captured)
      BY <3>1 DEF Common
    <3> QED BY <1>7, <2>3, <3>1, <3>2
  <2> QED BY <2>2, <2>3
<1>9. Common(final)' = Common(final)
  BY <1>1 DEF Common
<1>10. StackInv'
  BY <1>1, <1>2, <1>4, <1>7, <1>8 DEF StackInv
<1>11. Plain!After(idx + 1) = rows
  BY AfterIs
<1> HIDE DEF rows
<1>12. Plain!PlainLayer
  <2>1. idx < NumLayers /\ idx' = idx + 1
    BY <1>1, StackAssumption
  <2>2. Common(WholeRows(carry))' = Plain!After(idx + 1)
    BY <1>6, <1>11
  <2>3. Common(captured)' = IF idx + 1 \in shape.aux THEN Append(Common(captured), Plain!After(idx + 1))
                            ELSE Common(captured)
    BY <1>8, <1>11
  <2>4. (shape.n)' = shape.n /\ (shape.aux)' = shape.aux
    BY <1>1
  <2> QED BY <2>1, <2>2, <2>3, <2>4, <1>9, Zenon DEF Plain!PlainLayer
<1> QED BY <1>10, <1>12

LEMMA ReturnStep ==
  ASSUME StackInv, StackReturn
  PROVE  StackInv' /\ Plain!PlainReturn
<1> DEFINE rows == AllRows("hidden", 2 * idx)
<1>1. /\ idx = NumLayers /\ shape' = shape /\ idx' = idx /\ carry' = carry /\ captured' = captured
      /\ final' = Gather(Xs(carry))
  BY DEF StackReturn, Gather
<1>2. shape \in StackShapes /\ \A r \in Ranks : Holds(Xs(carry)[r], r, "hidden", 2 * idx)
  BY <1>1 DEF StackInv, CarryHolds, Inside, Xs
<1>3. \A r \in Ranks : final'[r] = rows
  BY <1>1, <1>2, GatherHolds
<1>4. Common(final') = rows
  BY <1>3, CommonIs
<1>5. Common(WholeRows(carry)) = rows
  BY InvHidden
<1> HIDE DEF rows
<1>6. 1 \in Ranks
  BY StackAssumption DEF Ranks
<1>7. CarryHolds(carry, idx)' <=> CarryHolds(carry, idx)
  BY <1>1 DEF CarryHolds, Inside, Pending, Holds, Width, Token
<1>8. StackInv'
  BY <1>1, <1>2, <1>3, <1>6, <1>7 DEF StackInv
<1>9. /\ Common(final)' = rows /\ Common(WholeRows(carry))' = Common(WholeRows(carry))
      /\ Common(captured)' = Common(captured)
  BY <1>1, <1>4 DEF Common, WholeRows
<1>10. Plain!PlainReturn
  BY <1>1, <1>5, <1>9 DEF Plain!PlainReturn
<1> QED BY <1>8, <1>10

LEMMA StackStep ==
  StackInv /\ [StackNext]_stackVars
    => StackInv' /\ [Plain!PlainLayer \/ Plain!PlainReturn]_(Plain!plainVars)
<1> SUFFICES ASSUME StackInv, [StackNext]_stackVars
             PROVE  StackInv' /\ [Plain!PlainLayer \/ Plain!PlainReturn]_(Plain!plainVars)
  OBVIOUS
<1>1. CASE Layer
  BY <1>1, LayerStep
<1>2. CASE StackReturn
  BY <1>2, ReturnStep
<1>3. CASE UNCHANGED stackVars
  <2>1. shape' = shape /\ idx' = idx /\ carry' = carry /\ captured' = captured /\ final' = final
    BY <1>3 DEF stackVars
  <2>2. CarryHolds(carry, idx)' <=> CarryHolds(carry, idx)
    BY <2>1 DEF CarryHolds, Inside, Pending, Holds, Width, Token
  <2>3. StackInv'
    BY <2>1, <2>2 DEF StackInv
  <2>4. /\ Common(WholeRows(carry))' = Common(WholeRows(carry))
        /\ Common(captured)' = Common(captured) /\ Common(final)' = Common(final)
    BY <2>1 DEF Common, WholeRows
  <2>5. UNCHANGED Plain!plainVars
    BY <2>1, <2>4 DEF Plain!plainVars
  <2> QED BY <2>3, <2>5
<1> QED BY <1>1, <1>2, <1>3 DEF StackNext

(* Whatever is fused, deferred, sharded, padded or captured, on any number *)
(* of ranks and for any layers and tokens, every forward of the stack is a *)
(* forward of the plain stack (DecoderLayer.forward, Model.forward).       *)
THEOREM StackIsPlain == StackSpec => ImplementsPlainStack
<1>1. StackSpec => []StackInv
  BY InitStackInv, StackStep, PTL DEF StackSpec
<1> QED BY <1>1, InitStackInv, StackStep, PTL DEF StackSpec, ImplementsPlainStack, Plain!PlainSpec
=============================================================================
