--------------------------- MODULE MandateBoundary ---------------------------
(***************************************************************************)
(* What the Paper account promises about delegated capital                 *)
(* (docs/KIASHA_CAPITAL_MANDATE.md, "Core invariants"): the account is two *)
(* buckets, the user's and Kiasha's, and a trade moves exactly one of      *)
(* them.  Nothing is said of prices, limits, days or idempotency keys.     *)
(* PaperLedger is shown to implement this specification.                   *)
(***************************************************************************)
EXTENDS Integers

CONSTANTS Codes,        \* the symbols that may be held
          InitialCash   \* what a new Paper account holds

VARIABLES manualCash,   \* cash the user may spend; negative once it is over-allocated
          kiashaCash,   \* uninvested capital of the mandate
          manualQty,    \* shares the user may sell
          kiashaQty     \* shares only Kiasha may sell

buckets == <<manualCash, kiashaCash, manualQty, kiashaQty>>

Flat == [c \in Codes |-> 0]

Init == /\ manualCash = InitialCash
        /\ kiashaCash = 0
        /\ manualQty = Flat
        /\ kiashaQty = Flat

(***************************************************************************)
(* A user's trade leaves Kiasha's bucket alone, never sells a share it     *)
(* does not have, and never spends cash it does not have.                  *)
(***************************************************************************)
ManualTrade ==
  /\ manualCash' \in Int
  /\ manualQty' \in [Codes -> Nat]
  /\ manualCash' < manualCash => manualCash' >= 0
  /\ UNCHANGED <<kiashaCash, kiashaQty>>

(***************************************************************************)
(* A trade of Kiasha's leaves the user's bucket alone and overdraws        *)
(* neither Kiasha's bucket nor the account.                                *)
(***************************************************************************)
KiashaTrade ==
  /\ kiashaCash' \in Nat
  /\ kiashaQty' \in [Codes -> Nat]
  /\ kiashaCash' < kiashaCash => manualCash + kiashaCash' >= 0
  /\ UNCHANGED <<manualCash, manualQty>>

(***************************************************************************)
(* Delegating capital and releasing it are transfers of cash between the   *)
(* buckets, never a gain or a loss; capital is released only when Kiasha   *)
(* holds no share.                                                         *)
(***************************************************************************)
Transfer ==
  /\ kiashaCash' \in Nat
  /\ kiashaCash = 0 \/ kiashaCash' = 0
  /\ manualCash' = manualCash + kiashaCash - kiashaCash'
  /\ kiashaQty = Flat
  /\ UNCHANGED <<manualQty, kiashaQty>>

Next == ManualTrade \/ KiashaTrade \/ Transfer

Spec == Init /\ [][Next]_buckets
==============================================================================
