----------------------------- MODULE MCKpoolTail -----------------------------
(* TLC instances of KpoolTail: one of the cfg's shape, and One, which runs *)
(* one draft.  A behaviour runs one of the two, the      *)
(* other rests.                                                            *)
EXTENDS KpoolTail, TLC

CONSTANTS r1, r2, b1, b2
MCReq == {r1, r2}
MCBlock == {b1, b2}
MCSymmetry == Permutations(MCReq) \cup Permutations(MCBlock)

VARIABLES part, status1, target1, computed1, reusable1, tail1, ring1, pool1

One == INSTANCE KpoolTail WITH
  KPool <- 2, NumSpec <- 1, Align <- 2, MaxLen <- 5, MaxBatch <- 8,
  status <- status1, target <- target1, computed <- computed1, reusable <- reusable1,
  tail <- tail1, ring <- ring1, pool <- pool1

vars1 == <<status1, target1, computed1, reusable1, tail1, ring1, pool1>>
kpoolVars == <<part, vars, vars1>>

KpoolInit ==
  /\ part \in {"cfg", "one"}
  /\ Init /\ One!Init
  /\ part = "cfg" => target1 = [r \in Req |-> 1]
  /\ part = "one" => target = [r \in Req |-> 1]

KpoolNext ==
  \/ part = "cfg" /\ Next /\ UNCHANGED <<part, vars1>>
  \/ part = "one" /\ One!Next /\ UNCHANGED <<part, vars>>

TwoShapesSpec == KpoolInit /\ [][KpoolNext]_kpoolVars

(* With one draft the source's ring is never run over: every complete pool *)
(* is compressed from exactly its own committed keys.                      *)
OneDraftFaithful == One!CommittedPoolsFaithful
=============================================================================
