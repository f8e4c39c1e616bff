------------------------------ MODULE PlainStack ------------------------------
(***************************************************************************)
(* What one forward of the decoder stack promises (MhcStack implements     *)
(* it): the layers are applied in order to every token, the hidden state   *)
(* after each requested layer is taken as it is, and the forward returns   *)
(* the state after the last.  <<"hidden", t, k>> is token t's hidden state *)
(* after k sublayers, two to a layer.                                      *)
(***************************************************************************)
EXTENDS Integers, Sequences

CONSTANT NumLayers

VARIABLES
  tokens,  (* the number of tokens                                         *)
  aux,     (* 1-based numbers of the layers whose output is taken          *)
  depth,   (* layers applied                                               *)
  hidden,  (* token -> its hidden state                                    *)
  taken,   (* the states taken, in layer order                             *)
  result   (* what the forward returned, <<>> before                       *)

plainVars == <<tokens, aux, depth, hidden, taken, result>>

After(d) == [t \in 1 .. tokens |-> <<"hidden", t, 2 * d>>]

PlainInit ==
  /\ depth = 0 /\ hidden = After(0)
  /\ taken = <<>> /\ result = <<>>

PlainLayer ==
  /\ depth < NumLayers
  /\ depth' = depth + 1
  /\ hidden' = After(depth + 1)
  /\ taken' = IF depth + 1 \in aux THEN Append(taken, After(depth + 1)) ELSE taken
  /\ UNCHANGED <<tokens, aux, result>>

PlainReturn ==
  /\ depth = NumLayers
  /\ result' = hidden
  /\ UNCHANGED <<tokens, aux, depth, hidden, taken>>

PlainSpec == PlainInit /\ [][PlainLayer \/ PlainReturn]_plainVars
=============================================================================
