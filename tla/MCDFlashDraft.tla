--------------------------- MODULE MCDFlashDraft ---------------------------
(* TLC instances of DFlashDraft.                                           *)
EXTENDS DFlashDraft

CONSTANTS r1, r2, r3, s1, s2, t0, t1, t2
MCReq == {r1, r2, r3}
MCTwoReq == {r1, r2}
MCSlot == {s1, s2}
MCOneSlot == {s1}
MCToken == {t0, t1, t2}
MCSymmetry == Permutations(MCReq) \cup Permutations(MCSlot) \cup Permutations({t1, t2})
=============================================================================
