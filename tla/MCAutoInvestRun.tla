--------------------------- MODULE MCAutoInvestRun ---------------------------
(***************************************************************************)
(* Auto Invest on a small day: the timer and one client, two codes that    *)
(* look alike.                                                             *)
(***************************************************************************)
EXTENDS AutoInvestRun, TLC
==============================================================================
