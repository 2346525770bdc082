---------------------------- MODULE MCAuthSession ----------------------------
(***************************************************************************)
(* Sessions on a few devices; tokens, codes and devices are alike.         *)
(***************************************************************************)
EXTENDS AuthSession, TLC

Symmetric == Permutations(Tokens) \cup Permutations(Codes) \cup Permutations(Devices)
==============================================================================
