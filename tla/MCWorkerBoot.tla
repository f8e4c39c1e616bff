----------------------------- MODULE MCWorkerBoot -----------------------------
(* The parts of a worker's boot that share no state, in one TLC instance:  *)
(* the overlay the launch generates, the checkpoint, the router's gate,    *)
(* the warm-ups.  A behaviour runs one of them, from any of its initial    *)
(* states; the others rest.                                                *)
EXTENDS MCOverlayGen, WeightLoad, GateDispatch, JitWarmup

VARIABLE part
bootVars == <<part, overlayVars, loadVars, gateVars, warmVars>>

MCRows == [kv_a |-> 3, o |-> 3, wk |-> 2]
MCCols == [kv_a |-> 4, o |-> 3, wk |-> 4]
MCCheckpoints == {[fp8 |-> {}, kept |-> {}], [fp8 |-> {"kv_a", "wk"}, kept |-> {}],
                  [fp8 |-> {"o", "wk"}, kept |-> {"o"}], [fp8 |-> {"o"}, kept |-> {}]}

MCSetup == [method |-> "dflash", spec |-> 7, model |-> "glm", reject |-> "plain", tokens |-> 6000,
            capture |-> {24, 40}, tables |-> <<2, 1, 2>>, absent |-> {}]
MCSetups ==
  {[MCSetup EXCEPT !.method = m, !.spec = k, !.model = t, !.tokens = n] :
     m \in {"none", "dflash", "mtp"}, k \in {4, 7, 15}, t \in {"glm", "dsv4", "other"},
     n \in {48, 6000, 20000}}
    \cup {[MCSetup EXCEPT !.spec = k, !.reject = r] : k \in {0, 1, 7}, r \in {"plain", "block"}}
    \cup {[MCSetup EXCEPT !.absent = {a}, !.model = t] : a \in Objects, t \in {"glm", "dsv4"}}
MCScheduled == {1, 5, 8, 9, 24, 57, 120, 2000}
MCForwards  == {1, 16, 17, 48, 5000, 6000, 18000}
MCSplits    == [n \in 1 .. 20000 |-> Cardinality({e \in 6 .. 13 : 2 ^ e < n})]

OverlayRests == image = "v1" /\ OverlayInit
LoadRests    == /\ ckpt = [fp8 |-> {}, kept |-> {}] /\ todo = {} /\ pending = {} /\ dropped = {}
                /\ failed = FALSE /\ shards = [s \in Shards |-> TrueShard(s)]
                /\ writes = [s \in Shards |-> 1] /\ reported = {Param(s) : s \in Shards}
GateRests    == /\ args = [device |-> "gb10", shape |-> [dsv3 |-> TRUE, fp32 |-> TRUE, by8 |-> TRUE],
                           bias |-> FALSE, params |-> "bf16", force |-> FALSE,
                           bf16x3 |-> FALSE, cute |-> FALSE]
                /\ gate = Attributes("fp32") /\ call = NoCall
WarmRests    == /\ setup = [MCSetup EXCEPT !.method = "none", !.model = "other"]
                /\ due = <<>> /\ compiled = {} /\ raised = {} /\ batch = {}

BootInit ==
  /\ part \in {"overlay", "load", "gate", "warm"}
  /\ IF part = "overlay" THEN OverlayInit ELSE OverlayRests
  /\ IF part = "load" THEN LoadInit ELSE LoadRests
  /\ IF part = "gate" THEN GateInit ELSE GateRests
  /\ IF part = "warm" THEN WarmInit ELSE WarmRests

BootNext ==
  \/ part = "overlay" /\ OverlayNext /\ UNCHANGED <<part, loadVars, gateVars, warmVars>>
  \/ part = "load"    /\ LoadNext    /\ UNCHANGED <<part, overlayVars, gateVars, warmVars>>
  \/ part = "gate"    /\ GateNext    /\ UNCHANGED <<part, overlayVars, loadVars, warmVars>>
  \/ part = "warm"    /\ WarmNext    /\ UNCHANGED <<part, overlayVars, loadVars, gateVars>>

BootSpec == BootInit /\ [][BootNext]_bootVars
=============================================================================
