------------------------------ MODULE MCServing ------------------------------
(* The parts of one engine step that share no state, in one TLC instance:  *)
(* the prefix-cache lookup of a request, the decoder stack's forward, the  *)
(* indexer's selection in a layer, and the drafter's layer.  A behaviour   *)
(* runs one of them, from any of its initial states; the others rest.      *)
EXTENDS KpoolSelect, MhcStack, DrafterConv, HybridPrefixHit

VARIABLE part
servingVars == <<part, vars, stackVars, convVars, hitVars>>

MCDecodeRows  == [pos : {0, 2, 5, 8}, len : 1 .. 3]
MCPrefillRows == {[pos |-> 0, len |-> 4], [pos |-> 0, len |-> 7], [pos |-> 3, len |-> 3],
                  [pos |-> 6, len |-> 5]}
MCPools       == 0 .. 4
MCScores      == {[p \in MCPools |-> p], [p \in MCPools |-> 10 - p]}
MCGroupKinds  == {<<"full", "mamba", "swa">>, <<"full", "swa", "mamba">>,
                  <<"full", "mamba", "swa", "mamba">>, <<"full", "mamba">>}

(* A part at rest: nothing scheduled yet, or a lookup that has returned.   *)
SelectRests == trim = "none" /\ dec = <<>> /\ pre = <<[pos |-> 0, len |-> 4]>> /\ pad = 0
               /\ score = [p \in MCPools |-> p]
StackRests  == shape = [mhc |-> TRUE, sp |-> FALSE, dense |-> {}, aux |-> {}, n |-> 1]
ConvRests   == reqs = 1 /\ tailpad = 0
LookupRests == /\ groups = <<"full", "mamba", "swa">> /\ cached = [g \in 1 .. 3 |-> {}]
               /\ hit = 0 /\ curr = 0 /\ at = 0 /\ verified = {} /\ kept = [g \in 1 .. 3 |-> 0]

ServingInit ==
  /\ part \in {"select", "stack", "drafter", "lookup"}
  /\ part # "select" => SelectRests
  /\ Init
  /\ part # "stack" => StackRests
  /\ StackInit
  /\ part # "drafter" => ConvRests
  /\ ConvInit
  /\ IF part = "lookup" THEN HitInit ELSE LookupRests

ServingNext ==
  \/ part = "select"  /\ Next      /\ UNCHANGED <<part, stackVars, convVars, hitVars>>
  \/ part = "stack"   /\ StackNext /\ UNCHANGED <<part, vars, convVars, hitVars>>
  \/ part = "drafter" /\ ConvNext  /\ UNCHANGED <<part, vars, stackVars, hitVars>>
  \/ part = "lookup"  /\ HitNext   /\ UNCHANGED <<part, vars, stackVars, convVars>>

ServingSpec == ServingInit /\ [][ServingNext]_servingVars /\ WF_hitVars(HitNext)
=============================================================================
