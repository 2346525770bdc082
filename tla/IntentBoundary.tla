---------------------------- MODULE IntentBoundary ----------------------------
(***************************************************************************)
(* What an order intent promises, whatever the order of the requests about *)
(* it: it is created once, its money moves at most once, and it moves in   *)
(* the very step that makes the intent filled, which is its last.          *)
(***************************************************************************)
EXTENDS Integers

CONSTANT Intents

VARIABLES
  state,  \* absent, open or filled
  money   \* times the account was charged or credited for the intent

Init ==
  /\ state = [i \in Intents |-> "absent"]
  /\ money = [i \in Intents |-> 0]

Create(i) ==
  /\ state[i] = "absent"
  /\ state' = [state EXCEPT ![i] = "open"]
  /\ UNCHANGED money

Fill(i) ==
  /\ state[i] = "open"
  /\ state' = [state EXCEPT ![i] = "filled"]
  /\ money' = [money EXCEPT ![i] = @ + 1]

Next == \E i \in Intents : Create(i) \/ Fill(i)

Spec == Init /\ [][Next]_<<state, money>>
==============================================================================
