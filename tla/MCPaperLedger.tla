---------------------------- MODULE MCPaperLedger ----------------------------
(***************************************************************************)
(* Values for the constants of PaperLedger.  Prices are multiples of 36,   *)
(* so that every average cost the bounds allow is a whole number.          *)
(***************************************************************************)
EXTENDS PaperLedger, TLC

CONSTANTS k1, k2, k3, k4, r1, r2, s1, s2

MCKeys == {k1, k2, k3, k4}
MCPrices == {36, 72}
MCQuantities == {1, 2}
MCAllocations == {72, 180}
MCCodes == {s1, s2}
Symmetry == Permutations(MCKeys) \cup Permutations({r1, r2}) \cup Permutations(MCCodes)
==============================================================================
