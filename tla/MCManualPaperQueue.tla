-------------------------- MODULE MCManualPaperQueue --------------------------
(***************************************************************************)
(* Values for the constants of ManualPaperQueue: a purchase and a sale of  *)
(* one share each, either of which may be asked for twice.                 *)
(***************************************************************************)
EXTENDS ManualPaperQueue

CONSTANTS bought, sold

MCClientKeys == {bought, sold}
MCSide == [k \in MCClientKeys |-> IF k = sold THEN "SELL" ELSE "BUY"]
MCQuantity == [k \in MCClientKeys |-> 1]
==============================================================================
