------------------------------ MODULE MCScanGate ------------------------------
(***************************************************************************)
(* Values for the constants of ScanGate: three calls and three keys on two *)
(* permits, so that one scan must wait for another, or share it.  Symmetry *)
(* is not sound for the liveness property.                                 *)
(***************************************************************************)
EXTENDS ScanGate

CONSTANTS c1, c2, c3, k1, k2, k3

MCCalls == {c1, c2, c3}
MCKeys == {k1, k2, k3}
==============================================================================
