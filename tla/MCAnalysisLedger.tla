--------------------------- MODULE MCAnalysisLedger ---------------------------
(***************************************************************************)
(* Values for the constants of AnalysisLedger: a row of an earlier version *)
(* and a company not yet discovered, worked on by two processes.           *)
(***************************************************************************)
EXTENDS AnalysisLedger, TLC

CONSTANTS old, new, w1, w2

MCTickers == {old, new}
MCWorkers == {w1, w2}
Symmetry == Permutations(MCWorkers)
==============================================================================
