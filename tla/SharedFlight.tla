---------------------------- MODULE SharedFlight ----------------------------
(***************************************************************************)
(* What the gate promises the callers of a scan, whatever happens to       *)
(* permits and threads: a flight for a key is boarded until it closes, a   *)
(* closed one lands once, with its leader's result or with a failure, and  *)
(* everybody aboard is told that, but for those who tired of waiting.      *)
(***************************************************************************)
CONSTANTS Calls, Keys, None,
          Busy,     \* what a caller that tires is told
          Failures  \* what a flight may land with beside its leader's result

VARIABLES
  boarding,  \* the flight open for each key, named by its leader
  aboard,    \* the flight each caller is on
  landed,    \* what each flight landed with
  told       \* what each caller was told

flights == <<boarding, aboard, landed, told>>

Init ==
  /\ boarding = [k \in Keys |-> None]
  /\ aboard = [c \in Calls |-> None]
  /\ landed = [c \in Calls |-> None]
  /\ told = [c \in Calls |-> None]

\* c opens a flight, or joins the one that is boarding.
Open(c, k) ==
  /\ aboard[c] = None
  /\ boarding[k] = None
  /\ boarding' = [boarding EXCEPT ![k] = c]
  /\ aboard' = [aboard EXCEPT ![c] = c]
  /\ UNCHANGED <<landed, told>>

Join(c, k) ==
  /\ aboard[c] = None
  /\ boarding[k] # None
  /\ aboard' = [aboard EXCEPT ![c] = boarding[k]]
  /\ UNCHANGED <<boarding, landed, told>>

Close(k) ==
  /\ boarding[k] # None
  /\ boarding' = [boarding EXCEPT ![k] = None]
  /\ UNCHANGED <<aboard, landed, told>>

\* The leader is told at once, or with the others.
Land(f, o) ==
  /\ aboard[f] = f
  /\ \A k \in Keys : boarding[k] # f
  /\ landed[f] = None
  /\ landed' = [landed EXCEPT ![f] = o]
  /\ told' = [told EXCEPT ![f] = o] \/ UNCHANGED told
  /\ UNCHANGED <<boarding, aboard>>

Tell(c) ==
  /\ aboard[c] # None
  /\ told[c] = None
  /\ landed[aboard[c]] # None
  /\ told' = [told EXCEPT ![c] = landed[aboard[c]]]
  /\ UNCHANGED <<boarding, aboard, landed>>

\* Only a passenger tires, and only while the flight is under way.
Tire(c) ==
  /\ aboard[c] \notin {None, c}
  /\ told[c] = None
  /\ landed[aboard[c]] = None
  /\ told' = [told EXCEPT ![c] = Busy]
  /\ UNCHANGED <<boarding, aboard, landed>>

Next ==
  \/ \E c \in Calls, k \in Keys : Open(c, k) \/ Join(c, k)
  \/ \E k \in Keys : Close(k)
  \/ \E f \in Calls : \E o \in {f} \cup Failures : Land(f, o)
  \/ \E c \in Calls : Tell(c) \/ Tire(c)

Spec == Init /\ [][Next]_flights
=============================================================================
