--------------------------- MODULE RequestGovernor ---------------------------
(***************************************************************************)
(* The request budget and cooldown the process's threads share for Yahoo:  *)
(* RequestGovernor in src/analysis/global_markets/http_governor.py.        *)
(*                                                                         *)
(* _acquire and _trip hold the lock and are one step each; a thread sleeps *)
(* and sends outside it, so its slot, its request, its answer and what it  *)
(* makes of it are steps of their own.  It may wake up late, never early.  *)
(*                                                                         *)
(* Time is counted in whole units.  The jitter of a cooldown, up to a      *)
(* tenth of it, is any number of units up to that.  The counters in stats  *)
(* are left out.                                                           *)
(***************************************************************************)
EXTENDS Integers, FiniteSets

CONSTANTS Threads,
          Interval,      \* MIN_INTERVAL_S
          Hour,          \* the 3600 s of the window
          Budget,        \* HOURLY_BUDGET
          Retries,       \* MAX_RETRIES
          BaseBackoff,   \* BASE_BACKOFF_S
          LongWait,      \* the 30 s from which one 429 is enough
          MaxCooldown,   \* MAX_COOLDOWN_S
          RetryAfters,   \* what the header may ask for
          NoHeader,
          MaxClock       \* bound on the clock

ASSUME GovernorAssumption ==
  /\ Interval \in Nat \ {0} /\ Hour \in Nat \ {0}
  /\ Budget \in Nat \ {0}
  /\ Retries \in Nat /\ BaseBackoff \in Nat \ {0} /\ LongWait \in Nat
  /\ MaxCooldown \in Nat \ {0} /\ RetryAfters \subseteq Nat /\ NoHeader \notin Nat
  /\ MaxClock \in Nat

VARIABLES
  clock,
  nextSlot,        \* _next_slot
  cooldownUntil,   \* _cooldown_until
  strikes,         \* _consecutive_429
  window,          \* _window; its slots differ, so it is a set
  call,            \* what each thread is doing in get
  granted,         \* history: every slot ever granted
  promised         \* history: until when a provider has asked not to be asked

governor     == <<nextSlot, cooldownUntil, strikes, window>>
governorVars == <<clock, nextSlot, cooldownUntil, strikes, window, call, granted, promised>>

Idle == [at |-> "idle"]

Later(a, b) == IF a < b THEN b ELSE a
Sooner(a, b) == IF a < b THEN a ELSE b

GovernorInit ==
  /\ clock = 0
  /\ nextSlot = 0
  /\ cooldownUntil = 0
  /\ strikes = 0
  /\ window = {}
  /\ call = [th \in Threads |-> Idle]
  /\ granted = {}
  /\ promised = 0

Goes(th, to) == call' = [call EXCEPT ![th] = to]

------------------------------------------------------------------------------
(***************************************************************************)
(* _acquire.                                                               *)
(***************************************************************************)

\* A new call, or one whose backoff has passed.
MayAsk(th) ==
  \/ call[th] = Idle
  \/ call[th].at = "backoff" /\ clock >= call[th].until

Attempt(th) == IF call[th] = Idle THEN 0 ELSE call[th].attempt + 1

\* Mutant: slots that still lie ahead are not counted.
PastOnly == {t \in window : t <= clock /\ clock - t < Hour}

\* The slots of the last hour, and those still to come.
Recent == {t \in window : clock - t < Hour}

\* Mutant: the next request is not put off.
Now == clock

\* One interval after the last slot, or at once.
Slot == Later(clock, nextSlot)

Grant(th) ==
  /\ MayAsk(th)
  /\ clock >= cooldownUntil
  /\ Cardinality(Recent) < Budget
  /\ nextSlot' = Slot + Interval
  /\ window' = Recent \cup {Slot}
  /\ granted' = granted \cup {Slot}
  /\ Goes(th, [at |-> "slot", attempt |-> Attempt(th), slot |-> Slot])
  /\ UNCHANGED <<clock, cooldownUntil, strikes, promised>>

\* The call fails fast: the cooldown is on, or the budget is spent.
Refuse(th) ==
  /\ MayAsk(th)
  /\ \/ clock < cooldownUntil /\ UNCHANGED window
     \/ /\ clock >= cooldownUntil
        /\ Cardinality(Recent) >= Budget
        /\ window' = Recent
  /\ Goes(th, Idle)
  /\ UNCHANGED <<clock, nextSlot, cooldownUntil, strikes, granted, promised>>

------------------------------------------------------------------------------
(***************************************************************************)
(* get and _trip.                                                          *)
(***************************************************************************)

\* The sleep until the slot is over.
Send(th) ==
  /\ call[th].at = "slot"
  /\ clock >= call[th].slot
  /\ Goes(th, [at |-> "sent", attempt |-> call[th].attempt])
  /\ UNCHANGED <<clock, governor, granted, promised>>

\* Any answer but 429 and 403, or none at all: an exception resets nothing.
Return(th) ==
  /\ call[th].at = "sent"
  /\ strikes' \in {0, strikes}
  /\ Goes(th, Idle)
  /\ UNCHANGED <<clock, nextSlot, cooldownUntil, window, granted, promised>>

\* How long to stay away: what the header says, or twice as long each time.
Wait(header) ==
  Sooner(MaxCooldown,
         Later(1, IF header # NoHeader THEN header ELSE BaseBackoff * 2^strikes))

\* 429 or 403.
Trip(th, header) ==
  /\ call[th].at = "sent"
  /\ strikes' = strikes + 1
  /\ IF strikes' >= 2 \/ Wait(header) >= LongWait
     THEN \E jitter \in 0..((Wait(header) + 9) \div 10) :
            cooldownUntil' = clock + Wait(header) + jitter
     ELSE UNCHANGED cooldownUntil
  /\ promised' = IF header = NoHeader THEN promised
                 ELSE Later(promised, clock + Sooner(MaxCooldown, header))
  /\ Goes(th, [at |-> "tripped", attempt |-> call[th].attempt, wait |-> Wait(header)])
  /\ UNCHANGED <<clock, nextSlot, window, granted>>

\* The last attempt has failed or the cooldown is on, read without the lock.
Hopeless(th) == call[th].attempt >= Retries \/ clock < cooldownUntil

GiveUp(th) ==
  /\ call[th].at = "tripped"
  /\ Hopeless(th)
  /\ Goes(th, Idle)
  /\ UNCHANGED <<clock, governor, granted, promised>>

BackOff(th) ==
  /\ call[th].at = "tripped"
  /\ ~Hopeless(th)
  /\ Goes(th, [at |-> "backoff", attempt |-> call[th].attempt,
               until |-> clock + call[th].wait])
  /\ UNCHANGED <<clock, governor, granted, promised>>

Tick ==
  /\ clock < MaxClock
  /\ clock' = clock + 1
  /\ UNCHANGED <<governor, call, granted, promised>>

Step(th) ==
  \/ Grant(th) \/ Refuse(th)
  \/ Send(th) \/ Return(th)
  \/ \E header \in RetryAfters \cup {NoHeader} : Trip(th, header)
  \/ GiveUp(th) \/ BackOff(th)

GovernorNext == Tick \/ \E th \in Threads : Step(th)

GovernorSpec == GovernorInit /\ [][GovernorNext]_governorVars
------------------------------------------------------------------------------
(***************************************************************************)
(* Properties.                                                             *)
(***************************************************************************)

\* However many threads ask at once, no two requests have slots closer than the
\* interval.
SlotsSpaced ==
  \A s, t \in granted : s < t => t - s >= Interval

\* No hour, wherever it ends, has more slots than the budget: those taken in
\* advance count, and what the window forgets cannot count any more.
BudgetKept ==
  \A e \in granted : Cardinality({t \in granted : e - Hour < t /\ t <= e}) <= Budget

\* A cooldown honours Retry-After: while a provider has asked not to be asked,
\* no call is let through.
RetryAfterHonoured ==
  [][granted' # granted => clock >= promised]_<<granted, clock, promised>>
==============================================================================
