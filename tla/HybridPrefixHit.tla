--------------------------- MODULE HybridPrefixHit ----------------------------
(***************************************************************************)
(* The prefix-cache lookup of the hybrid KV-cache coordinator with         *)
(* docs/patch_hybrid_prefix_hit.py applied.  Each cache group (full        *)
(* attention first, mamba, the DFlash2 drafter's sliding window) says how  *)
(* long a prefix of the request it has cached; the lookup takes passes     *)
(* over the groups until no group shortens the hit.  The drafter's group   *)
(* no longer takes part in that: it keeps its blocks if they cover the     *)
(* hit and has none otherwise.                                             *)
(*                                                                         *)
(* Lengths are in blocks of the hybrid alignment.  The loop is vLLM's, the *)
(* code in it and the groups that are EAGLE's are the patch's.             *)
(***************************************************************************)
EXTENDS Integers, Sequences, FiniteSets, FiniteSetsExt

CONSTANTS
  GroupKinds,  (* the models' cache groups, in attention_groups order:     *)
               (* sequences of "full", "mamba" and "swa", full first       *)
  MaxHit       (* bound: blocks of the request's prompt                    *)

ASSUME HitAssumption ==
  /\ GroupKinds \subseteq Seq({"full", "mamba", "swa"})
  /\ MaxHit \in Nat

VARIABLES
  groups,    (* the groups of this model                                   *)
  cached,    (* group -> prefix lengths it has cached; all shorter ones    *)
             (* too for full attention                                     *)
  hit,       (* hit_length: where the last pass ended                      *)
  curr,      (* curr_hit_length                                            *)
  at,        (* the group the pass is at; 0 once the lookup has returned   *)
  verified,  (* eagle_verified                                             *)
  kept       (* group -> hit_length_by_group, -1 for no blocks             *)

hitVars == <<groups, cached, hit, curr, at, verified, kept>>

Groups == DOMAIN groups
NoBlocks == -1

(* The EAGLE groups: the drafter's if there is one, or else all.           *)
SwaIds   == {g \in Groups : groups[g] = "swa"}
(* mutant: the upstream fallback, every group.                             *)
EagleAll == Groups
EagleIds == IF SwaIds # {} THEN SwaIds ELSE Groups

(* find_longest_cache_hit: with drop_eagle_block the last block goes.      *)
Longest(g, limit)  == Max({l \in cached[g] : l <= limit} \cup {0})
Found(g, drop) ==
  LET l == Longest(g, curr) IN IF drop /\ l > 0 THEN Longest(g, l - 1) ELSE l

Drops(g) == g \in EagleIds /\ g \notin verified

(* Full attention is prefix-closed: looked up once, then only narrowed.    *)
Lookup(g) == IF groups[g] = "full" /\ kept[g] # NoBlocks
             THEN [len |-> curr, drop |-> FALSE]
             ELSE [len |-> Found(g, Drops(g)), drop |-> Drops(g)]

Verified(g, f) == IF f.drop THEN verified \cup {g}
                  ELSE IF f.len < curr THEN {} ELSE verified

(* mutants: the drafter takes part in the minimum; it keeps what it found  *)
(* whether or not it covers the hit.                                       *)
VisitMinAll(g) ==
  LET f == Lookup(g) IN
  /\ verified' = Verified(g, f) /\ curr' = f.len
  /\ kept' = [kept EXCEPT ![g] = f.len]
VisitKeepsAny(g) ==
  LET f == Lookup(g) IN
  /\ verified' = Verified(g, f)
  /\ curr' = IF groups[g] = "swa" THEN curr ELSE f.len
  /\ kept' = [kept EXCEPT ![g] = f.len]

Visit(g) ==
  LET f == Lookup(g) IN
  /\ verified' = Verified(g, f)
  /\ IF groups[g] = "swa"
     THEN /\ kept' = IF f.len >= curr THEN [kept EXCEPT ![g] = f.len] ELSE kept
          /\ UNCHANGED curr
     ELSE /\ kept' = [kept EXCEPT ![g] = f.len]
          /\ curr' = f.len

LookGroup ==
  /\ at \in Groups
  /\ Visit(at)
  /\ at' = at + 1
  /\ UNCHANGED <<groups, cached, hit>>

(* mutant: a pass that leaves the hit as it is starts another one.         *)
EndPassStrict ==
  /\ at = Cardinality(Groups) + 1
  /\ IF curr > hit THEN at' = 0 ELSE at' = 1
  /\ hit' = curr /\ UNCHANGED <<groups, cached, curr, verified, kept>>

(* A pass that shortened nothing is the last one; full attention blocks    *)
(* past the hit are cut off then.                                          *)
EndPass ==
  /\ at = Cardinality(Groups) + 1
  /\ IF curr >= hit THEN at' = 0 ELSE at' = 1
  /\ hit' = curr
  /\ kept' = [g \in Groups |-> IF curr >= hit /\ groups[g] = "full" THEN curr ELSE kept[g]]
  /\ UNCHANGED <<groups, cached, curr, verified>>

HitInit ==
  /\ groups \in GroupKinds
  /\ cached \in [Groups -> SUBSET (1 .. MaxHit)]
  /\ \A g \in Groups : groups[g] = "full" => cached[g] \in {1 .. l : l \in 0 .. MaxHit}
  /\ hit = MaxHit /\ curr = MaxHit
  /\ at = 1 /\ verified = {}
  /\ kept = [g \in Groups |-> NoBlocks]

HitNext == LookGroup \/ EndPass
HitSpec == HitInit /\ [][HitNext]_hitVars /\ WF_hitVars(HitNext)
-----------------------------------------------------------------------------
Reusable(l) == l = 0 \/ \A g \in Groups \ SwaIds : l \in cached[g]

(* With a drafter group the hit is the longest prefix that attention and   *)
(* mamba both have: the drafter never shortens it, no block of it is       *)
(* dropped for speculation, and no mamba miss is skipped.                  *)
HitExact ==
  at = 0 /\ SwaIds # {} => Reusable(hit) /\ \A l \in hit + 1 .. MaxHit : ~Reusable(l)

(* When the lookup returns the drafter has a cached window of exactly the  *)
(* hit's length or no blocks at all, never those of a hit that a later     *)
(* group has shortened.                                                    *)
DrafterCoversHit ==
  at = 0 => \A g \in SwaIds : kept[g] = NoBlocks \/ (kept[g] = hit /\ (hit = 0 \/ hit \in cached[g]))

(* The lookup returns.                                                     *)
LookupReturns == <>(at = 0)
=============================================================================
