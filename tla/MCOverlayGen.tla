----------------------------- MODULE MCOverlayGen -----------------------------
(* TLC instances of OverlayGen.  v2's cuda.py has lost an anchor; v3 was   *)
(* built from sources that have two of the changes already.                *)
EXTENDS OverlayGen

MCStock  == [f \in FileSet |-> "stock"]
MCImages == [v1 |-> MCStock,
             v2 |-> [MCStock EXCEPT !["cuda"] = "drift"],
             v3 |-> [MCStock EXCEPT !["model"] = "unmarked", !["sparse"] = "ported"]]
MCBases  == {"none", "foreign", "stock", "half", "drift"}
=============================================================================
