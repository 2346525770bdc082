--------------------------- MODULE MCOrderApproval ---------------------------
(***************************************************************************)
(* OrderApproval with interchangeable handlers and intents.                *)
(***************************************************************************)
EXTENDS OrderApproval, TLC

Symmetric == Permutations(Requests) \cup Permutations(Intents)
==============================================================================
