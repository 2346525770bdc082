----------------------------- MODULE PaperLedger -----------------------------
(***************************************************************************)
(* The server-owned Paper account of one user and its Kiasha capital       *)
(* mandate: src/analysis/paper_execution_store.py, paper_sell_store.py,    *)
(* kiasha_capital_mandate.py and kiasha_capital_routes.py.                 *)
(*                                                                         *)
(* Each fill is one BEGIN IMMEDIATE transaction, so it is one action.      *)
(* Creating a mandate is not: the route reads the cash balance in one      *)
(* transaction and inserts the mandate in another.                         *)
(*                                                                         *)
(* Money is an integer (the code's 1e-9 tolerances disappear), and a fill  *)
(* that finds its idempotency key answered changes nothing, so it is a     *)
(* stuttering step.  Every statement filters by user_id, so the accounts   *)
(* of two users never meet and one is modelled.                            *)
(***************************************************************************)
EXTENDS Integers, FiniteSetsExt

CONSTANTS Keys,             \* idempotency keys, one per fill a client asks for
          Codes,            \* symbols
          Requests,         \* concurrent POST /ai/capital-mandate requests
          Prices,           \* verified reference prices
          Quantities,       \* order quantities
          Allocations,      \* amounts a user may delegate
          Durations,        \* days of each horizon (7 and 30 in the code)
          InitialCash,      \* KIASHA_PAPER_INITIAL_CASH
          MaxDailyNotional, \* policy.max_daily_notional
          MaxDailyLoss,     \* policy.max_daily_realized_loss
          MaxDay,           \* bound: the last day explored
          ClosesWhenFlat    \* whether anything calls complete_if_flat

ASSUME LedgerAssumption ==
  /\ IsFiniteSet(Keys) /\ IsFiniteSet(Codes)
  /\ Prices \subseteq Nat \ {0}
  /\ Quantities \subseteq Nat \ {0}
  /\ Allocations \subseteq Nat \ {0}
  /\ Durations \subseteq Nat
  /\ InitialCash \in Nat \ {0}
  /\ MaxDailyNotional \in Nat
  /\ MaxDailyLoss \in Nat
  /\ MaxDay \in Nat
  /\ ClosesWhenFlat \in BOOLEAN

VARIABLES
  cash,      \* paper_accounts.cash_balance
  qty,       \* paper_positions.quantity, 0 when there is no row
  response,  \* idempotency_keys: the cash moved by the fill a key stands for
  status,    \* status of the newest mandate, NONE before the first
  allocated, \* its allocated_cash
  endsOn,    \* its ends_at, in days
  mcash,     \* its mandate_cash
  mqty,      \* kiasha_mandate_positions.quantity
  mavg,      \* kiasha_mandate_positions.avg_cost
  mreal,     \* realized_pnl summed over the mandate's positions
  day,       \* the Tehran trading day
  notional,  \* fillCost of today's KIASHA_AI_PAPER_FILLED events
  loss,      \* losses of today's KIASHA_AI_PAPER_SOLD events
  quoted     \* the balance a mandate request has read, or NotRead

account == <<cash, qty, response>>
mandate == <<status, allocated, endsOn>>
book    == <<mcash, mqty, mavg, mreal>>
today   == <<day, notional, loss>>
vars    == <<account, mandate, book, today, quoted>>

NoResponse == 0     \* a fill moves cash, so no answered key records 0
NotRead    == -1
Statuses   == {"NONE", "ACTIVE", "STOPPING", "COMPLETED"}
Flat       == [c \in Codes |-> 0]

\* Mutant: a stopping mandate is no longer looked up.
OpenUntilStop == status = "ACTIVE"

\* What _active_mandate selects: a STOPPING mandate still owns its capital.
Open == status \in {"ACTIVE", "STOPPING"}

\* The cash and the shares only Kiasha may use: nothing without an open mandate.
Reserved   == IF Open THEN mcash ELSE 0
Owned      == IF Open THEN mqty ELSE Flat

\* Mutant: every request is taken for a new one.
AlwaysNew(k) == k \in Keys

\* The idempotency lookup that opens both fill transactions.
Unanswered(k) == response[k] = NoResponse

\* Mutant: the whole balance is offered to the user.
WholeBalance == cash

\* What a manual BUY may spend, and how many shares a manual SELL may sell.
Available == IF cash > Reserved THEN cash - Reserved ELSE 0

\* Mutant: Kiasha's shares are not set aside.
WholePosition(c) == qty[c]

Sellable(c) == qty[c] - Owned[c]

\* Mutant: a single share left is taken for none.
AlmostFlat == \A c \in Codes : mqty[c] <= 1

\* The mandate holds no position.
MandateFlat == mqty = Flat

Init ==
  /\ cash = InitialCash
  /\ qty = Flat
  /\ response = [k \in Keys |-> NoResponse]
  /\ status = "NONE"
  /\ allocated = 0
  /\ endsOn = 0
  /\ mcash = 0
  /\ mqty = Flat
  /\ mavg = Flat
  /\ mreal = 0
  /\ day = 0
  /\ notional = 0
  /\ loss = 0
  /\ quoted = [r \in Requests |-> NotRead]

------------------------------------------------------------------------------
(***************************************************************************)
(* Fills.                                                                  *)
(***************************************************************************)

\* Mutant: the loss breaker is not looked at.
BuyWithoutBreaker(cost) == cost <= cash /\ notional + cost <= MaxDailyNotional

\* What every BUY must satisfy, whoever asks for it.
BuyAllowed(cost) ==
  /\ cost <= cash
  /\ notional + cost <= MaxDailyNotional
  /\ loss < MaxDailyLoss

\* The cash and position rows of a fill, and the response its key will replay.
Post(k, c, shares, delta) ==
  /\ cash' = cash + delta
  /\ qty' = [qty EXCEPT ![c] = @ + shares]
  /\ response' = [response EXCEPT ![k] = delta]

\* Mutant: the mean of the two prices, whatever the quantities.
MeanOfPrices(c, q, cost) == (mavg[c] + cost \div q) \div 2

\* The average cost after buying q more shares for cost.
NewAverage(c, q, cost) == (mqty[c] * mavg[c] + cost) \div (mqty[c] + q)

ManualBuy(k, c, q, p) ==
  /\ Unanswered(k)
  /\ BuyAllowed(q * p)
  /\ q * p <= Available
  /\ Post(k, c, q, -(q * p))
  /\ UNCHANGED <<mandate, book, today, quoted>>

KiashaBuy(k, c, q, p) ==
  /\ Unanswered(k)
  /\ BuyAllowed(q * p)
  /\ status = "ACTIVE"
  /\ q * p <= mcash
  /\ Post(k, c, q, -(q * p))
  /\ mcash' = mcash - q * p
  /\ mqty' = [mqty EXCEPT ![c] = @ + q]
  /\ mavg' = [mavg EXCEPT ![c] = NewAverage(c, q, q * p)]
  /\ notional' = notional + q * p
  /\ UNCHANGED <<mandate, mreal, day, loss, quoted>>

ManualSell(k, c, q, p) ==
  /\ Unanswered(k)
  /\ q <= Sellable(c)
  /\ Post(k, c, -q, q * p)
  /\ UNCHANGED <<mandate, book, today, quoted>>

\* A SELL is accepted from a STOPPING mandate too: that is how it unwinds.
KiashaSell(k, c, q, p) ==
  LET realized == q * (p - mavg[c]) IN
  /\ Unanswered(k)
  /\ Open
  /\ q <= mqty[c]
  /\ q <= qty[c]
  /\ Post(k, c, -q, q * p)
  /\ mcash' = mcash + q * p
  /\ mqty' = [mqty EXCEPT ![c] = @ - q]
  /\ mavg' = [mavg EXCEPT ![c] = IF mqty[c] = q THEN 0 ELSE @]
  /\ mreal' = mreal + realized
  /\ loss' = IF realized < 0 THEN loss - realized ELSE loss
  /\ UNCHANGED <<mandate, day, notional, quoted>>

------------------------------------------------------------------------------
(***************************************************************************)
(* The mandate's life.                                                     *)
(***************************************************************************)

\* POST /ai/capital-mandate, first transaction: ensure_paper_account.
ReadCash(r) ==
  /\ quoted[r] = NotRead
  /\ quoted' = [quoted EXCEPT ![r] = cash]
  /\ UNCHANGED <<account, mandate, book, today>>

\* Second transaction: create_mandate compares with what was read, not with
\* the balance of now, and a new mandate starts with no position.
CreateMandate(r, a, d) ==
  /\ quoted[r] # NotRead
  /\ a <= quoted[r]
  /\ ~Open
  /\ quoted' = [quoted EXCEPT ![r] = NotRead]
  /\ status' = "ACTIVE"
  /\ allocated' = a
  /\ endsOn' = day + d
  /\ mcash' = a
  /\ mqty' = Flat
  /\ mavg' = Flat
  /\ mreal' = 0
  /\ UNCHANGED <<account, today>>

\* The same request answered 409: too much asked for, or a mandate is open.
RefuseMandate(r, a) ==
  /\ quoted[r] # NotRead
  /\ a > quoted[r] \/ Open
  /\ quoted' = [quoted EXCEPT ![r] = NotRead]
  /\ UNCHANGED <<account, mandate, book, today>>

RequestStop ==
  /\ status = "ACTIVE"
  /\ status' = "STOPPING"
  /\ UNCHANGED <<account, allocated, endsOn, book, today, quoted>>

\* complete_if_flat closes an ACTIVE mandate as well as a STOPPING one.
CompleteIfFlat ==
  /\ ClosesWhenFlat
  /\ Open
  /\ MandateFlat
  /\ status' = "COMPLETED"
  /\ UNCHANGED <<account, allocated, endsOn, book, today, quoted>>

\* Midnight in Tehran: the day's notional and losses are counted from zero.
NewDay ==
  /\ day < MaxDay
  /\ day' = day + 1
  /\ notional' = 0
  /\ loss' = 0
  /\ UNCHANGED <<account, mandate, book, quoted>>

Fill == \E k \in Keys, c \in Codes, q \in Quantities, p \in Prices :
          \/ ManualBuy(k, c, q, p)
          \/ KiashaBuy(k, c, q, p)
          \/ ManualSell(k, c, q, p)
          \/ KiashaSell(k, c, q, p)

Delegate == \E r \in Requests :
              \/ ReadCash(r)
              \/ \E a \in Allocations :
                   \/ RefuseMandate(r, a)
                   \/ \E d \in Durations : CreateMandate(r, a, d)

Next == Fill \/ Delegate \/ RequestStop \/ CompleteIfFlat \/ NewDay

Spec == Init /\ [][Next]_vars

\* The clock runs, and whatever closes a flat mandate is called again and again.
FairSpec == Spec /\ WF_vars(CompleteIfFlat) /\ WF_vars(NewDay)

------------------------------------------------------------------------------
(***************************************************************************)
(* Properties.                                                             *)
(***************************************************************************)

\* Every column holds a value of its type; the two cash columns and every
\* quantity are never negative, which the CHECKs of the mandate tables and
\* nothing at all in paper_accounts enforce.
TypeOK ==
  /\ cash \in Nat
  /\ qty \in [Codes -> Nat]
  /\ response \in [Keys -> Int]
  /\ status \in Statuses
  /\ allocated \in Nat
  /\ endsOn \in Nat
  /\ mcash \in Nat
  /\ mqty \in [Codes -> Nat]
  /\ mavg \in [Codes -> Int]
  /\ mreal \in Int
  /\ day \in Nat
  /\ notional \in Nat
  /\ loss \in Nat
  /\ quoted \in [Requests -> Nat \cup {NotRead}]

\* The shared position always holds Kiasha's shares: neither a manual SELL nor
\* any order of fills can sell a share the open mandate still counts.
KiashaSharesBacked == Open => \A c \in Codes : mqty[c] <= qty[c]

\* The balance is the opening cash plus what each answered key moved, once:
\* a retried fill is never debited or credited twice.
CashConservation ==
  cash = InitialCash + MapThenSumSet(LAMBDA k : response[k], Keys)

\* A mandate's cash and its positions at cost are its allocation plus what it
\* has realized: manual fills of the same symbols never leak into its record.
MandateEquityIdentity ==
  mcash + MapThenSumSet(LAMBDA c : mqty[c] * mavg[c], Codes) = allocated + mreal

\* Once the account backs an open mandate's cash, no later step makes the
\* reserve exceed the balance, whatever is filled on either side.
ReserveNeverEroded ==
  [][(Open /\ mcash <= cash /\ Open') => mcash' <= cash']_vars

\* A stop is final: the mandate buys nothing more, is not reopened and is not
\* replaced while it still owns something.
StopIsFinal ==
  [][status = "STOPPING" => /\ status' \in {"STOPPING", "COMPLETED"}
                            /\ mcash' >= mcash
                            /\ status' = "COMPLETED" => mqty = Flat]_vars

\* Once the day's realized losses reach the limit, no one's BUY spends cash
\* before the next day.
LossBreakerHolds ==
  [][(loss >= MaxDailyLoss /\ day' = day) => cash' >= cash]_vars

\* The ledger implements the two buckets of MandateBoundary.
Boundary == INSTANCE MandateBoundary
              WITH manualCash <- cash - Reserved,
                   kiashaCash <- Reserved,
                   manualQty  <- [c \in Codes |-> qty[c] - Owned[c]],
                   kiashaQty  <- Owned

BoundaryKept == Boundary!Spec

\* docs/KIASHA_CAPITAL_MANDATE.md:14: an open mandate's uninvested cash is
\* there, locked, whatever manual BUYs happened around its creation.
ReserveBacked == Open => mcash <= cash

\* docs/KIASHA_CAPITAL_MANDATE.md:31: from its horizon on, a mandate buys
\* nothing.
NoBuyAfterHorizon ==
  [][(Open /\ status = status' /\ day > endsOn) => mcash' >= mcash]_vars

\* docs/KIASHA_CAPITAL_MANDATE.md:32: a stopped mandate with no position left
\* is closed and its cash is released.
FlatStoppedMandateCloses ==
  (status = "STOPPING" /\ mqty = Flat) ~> (status = "COMPLETED")
==============================================================================
