---------------------------- MODULE MCUnattendedAB ----------------------------
(* TLC instances of UnattendedAB.                                          *)
EXTENDS UnattendedAB

MCSpeed   == {5, 7}
MCC6Speed == {9}
=============================================================================
