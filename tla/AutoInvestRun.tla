---------------------------- MODULE AutoInvestRun ----------------------------
(***************************************************************************)
(* One Tehran trading day of Auto Invest for one user:                     *)
(* src/analysis/kiasha_auto_invest.py, started by the five-minute timer of *)
(* run_kiasha_auto_invest.py or by POST /performance/ai/auto-invest/run-now.*)
(*                                                                         *)
(* The day's row in kiasha_auto_runs admits one run at a time.  A forced   *)
(* run that finds the row taken goes on without it.  A run first offers    *)
(* its positions for sale, then ranks candidates, then buys; every fill is *)
(* a transaction of the Paper ledger under a key of the day, the side and  *)
(* the code, and what others do to the account lies between two steps.     *)
(*                                                                         *)
(* Shares cost 1 each.  Prices, scores, the model's proposal and the risk  *)
(* gate are choices.  A code that a loop passes over changes nothing that  *)
(* others see, so it needs no step; that one of them failed for a while is *)
(* chosen when the run ends.  What is held is the ledger's business: a     *)
(* refused fill is one that was passed over.  It is a trading day, the     *)
(* user is enabled and the horizon the same all day.                       *)
(***************************************************************************)
EXTENDS Integers, FiniteSetsExt

CONSTANTS Runs,        \* processes that may run Auto Invest
          Timer,       \* of these, the one systemd starts, one at a time
          Codes,       \* symbols that may be ranked
          Positions,   \* of these, what the account may hold for sale
          NoCode,
          MaxTrades,   \* settings.maxDailyTrades
          Budget,      \* daily_budget
          Reserve,     \* reserve_cash
          Cash,        \* the account when the day begins; also a bound
          MaxCrashes   \* a bound on processes that die

ASSUME AutoAssumption ==
  /\ Timer \in Runs
  /\ Positions \subseteq Codes
  /\ NoCode \notin Codes
  /\ IsFiniteSet(Codes)
  /\ {MaxTrades, Budget, Reserve, Cash, MaxCrashes} \subseteq Nat

VARIABLES
  window,   \* the time of the day: before, in or after the Auto Invest window
  row,      \* kiasha_auto_runs.status of the day, NONE without a row
  old,      \* the row was started longer ago than stale_running_after_seconds
  run,      \* what each process is doing
  ledger,   \* idempotency_keys: cost of the fill under auto:<day>:<side>:<code>:<horizon>
  cash,     \* paper_accounts.cash_balance
  crashes,
  moved     \* history: a run of the row has moved money

vars == <<window, row, old, run, ledger, cash, crashes, moved>>

Keys     == ({"SELL"} \X Positions) \cup ({"BUY"} \X Codes)
Closed   == {"COMPLETED", "FAILED"}
Statuses == Closed \cup {"NONE", "RUNNING", "RETRYABLE"}
NoFill   == 0
Idle     == [phase |-> "idle"]

Live(r) == run[r] # Idle

\* Live processes whose run_id is the row's, not a "manual_" one.
Owners == {r \in Runs : Live(r) /\ run[r].auto}

Init ==
  /\ window = "before"
  /\ row = "NONE"
  /\ old = FALSE
  /\ run = [r \in Runs |-> Idle]
  /\ ledger = [k \in Keys |-> NoFill]
  /\ cash = Cash
  /\ crashes = 0
  /\ moved = FALSE

------------------------------------------------------------------------------
(***************************************************************************)
(* claim_today.                                                            *)
(***************************************************************************)

\* Mutant: a RUNNING row is taken over whatever its age.
AnyRunning == row \in {"RETRYABLE", "RUNNING"}

\* Mutant: a RUNNING row is never taken over.
OnlyRetryable == row = "RETRYABLE"

Reclaimable == row = "RETRYABLE" \/ (row = "RUNNING" /\ old)

Claimable == row = "NONE" \/ Reclaimable

Begin(r, auto) ==
  run' = [run EXCEPT ![r] =
    [phase |-> "rebalance", auto |-> auto, todo |-> {}, sold |-> {}, bought |-> {},
     spent |-> 0, paid |-> 0, code |-> NoCode, cash |-> 0]]

\* The row is inserted, or reopened under its run_id.  Only a forced run does
\* so outside the window.
Claim(r) ==
  /\ ~Live(r)
  /\ r = Timer => window = "open"
  /\ Claimable
  /\ row' = "RUNNING"
  /\ old' = FALSE
  /\ Begin(r, TRUE)
  /\ UNCHANGED <<window, ledger, cash, crashes, moved>>

\* A forced run that was refused the row; the timer's would be skipped.
ForceRun(r) ==
  /\ ~Live(r)
  /\ r # Timer
  /\ ~Claimable
  /\ Begin(r, FALSE)
  /\ UNCHANGED <<window, row, old, ledger, cash, crashes, moved>>

------------------------------------------------------------------------------
(***************************************************************************)
(* The two loops over codes.                                               *)
(***************************************************************************)

FilledCount(p) == Cardinality(p.sold) + Cardinality(p.bought)

Update(r, p) == run' = [run EXCEPT ![r] = p]

\* The cost the ledger answers with under a key, and what of it is new.
Answer(k, cost) == IF ledger[k] = NoFill THEN cost ELSE ledger[k]

Fill(r, k, cost) ==
  /\ ledger' = [ledger EXCEPT ![k] = Answer(k, cost)]
  /\ moved' = (moved \/ (run[r].auto /\ ledger[k] = NoFill))

\* A position is sold, in part or as a whole, or the day's SELL of it is
\* answered again, which counts as a trade all the same.
SellPosition(r, c) ==
  LET p == run[r]
      k == <<"SELL", c>> IN
  /\ Live(r)
  /\ p.phase = "rebalance"
  /\ FilledCount(p) < MaxTrades
  /\ c \notin p.sold
  /\ IF ledger[k] = NoFill
       THEN cash < Cash /\ cash' = cash + 1
       ELSE UNCHANGED cash
  /\ Fill(r, k, 1)
  /\ Update(r, [p EXCEPT !.sold = @ \cup {c}])
  /\ UNCHANGED <<window, row, old, crashes>>

\* The positions are done, or the trades or the time used up; _rank_candidates
\* ranks what may be bought.
Discover(r) ==
  /\ Live(r)
  /\ run[r].phase = "rebalance"
  /\ Update(r, [run[r] EXCEPT !.phase = "entry", !.todo = Codes])
  /\ UNCHANGED <<window, row, old, ledger, cash, crashes, moved>>

MayEnter(p) ==
  /\ FilledCount(p) < MaxTrades
  /\ cash > Reserve
  /\ p.spent < Budget

\* The next candidate not sold before: its account is read, and the cash kept
\* while the model answers and the quote and the gate are looked up.
ReadAccount(r, c) ==
  LET p == run[r] IN
  /\ Live(r)
  /\ p.phase = "entry"
  /\ p.code = NoCode
  /\ c \in p.todo \ p.sold
  /\ MayEnter(p)
  /\ Update(r, [p EXCEPT !.todo = @ \ {c}, !.code = c, !.cash = cash])
  /\ UNCHANGED <<window, row, old, ledger, cash, crashes, moved>>

\* No BUY: the proposal is another, the gate refuses, nothing is affordable, or
\* the analysis, the quote or the fill failed.
PassCandidate(r) ==
  /\ Live(r)
  /\ run[r].code # NoCode
  /\ Update(r, [run[r] EXCEPT !.code = NoCode, !.cash = 0])
  /\ UNCHANGED <<window, row, old, ledger, cash, crashes, moved>>

\* Mutant: the budget is compared with one order, not with what is left of it.
WholeBudget(p) == Min({Budget, p.cash - Reserve})

\* Mutant: the reserve is looked at before the candidate and not in its size.
WholeCash(p) == Min({Budget - p.spent, p.cash})

\* max_allowed_cost.
Affordable(p) == Min({Budget - p.spent, p.cash - Reserve})

\* commit_buy_fill: the cash there is now.
Covered(cost) == cost <= cash

\* The proposed quantity is cut to what was affordable when the account was
\* read.  commit_buy_fill looks at the cash there is now, unless the day's BUY
\* of the code is answered already.
BuyCandidate(r) ==
  LET p == run[r]
      k == <<"BUY", p.code>> IN
  /\ Live(r)
  /\ p.code # NoCode
  /\ \E cost \in 1..Affordable(p) :
       /\ IF ledger[k] = NoFill
            THEN Covered(cost) /\ cash' = cash - cost
            ELSE UNCHANGED cash
       /\ Fill(r, k, cost)
       /\ Update(r, [p EXCEPT
            !.code = NoCode, !.cash = 0,
            !.bought = @ \cup {p.code},
            !.spent = @ + Answer(k, cost),
            !.paid = @ + (cash - cash')])
  /\ UNCHANGED <<window, row, old, crashes>>

------------------------------------------------------------------------------
(***************************************************************************)
(* The end of a run.                                                       *)
(***************************************************************************)

\* Mutant: any retryable result makes the run retryable.
AnyRetryable(p, failed) == failed

\* _retryable_no_fill.
RetryableNoFill(p, failed) == FilledCount(p) = 0 /\ failed

\* finish, by run_id: a forced run without the row has none.
Finish(r, status) ==
  /\ row' = IF run[r].auto THEN status ELSE row
  /\ Update(r, Idle)
  /\ UNCHANGED <<window, old, ledger, cash, crashes, moved>>

\* No candidate is left, or trades, cash, budget or time are used up.  Whether
\* some code failed on the way is retryable.
EndRun(r) ==
  /\ Live(r)
  /\ run[r].phase = "entry"
  /\ run[r].code = NoCode
  /\ \E failed \in BOOLEAN :
       Finish(r, IF RetryableNoFill(run[r], failed) THEN "RETRYABLE" ELSE "COMPLETED")

\* An exception outside the loops' own handlers: reading the account, or
\* listing the candidates.
FailRun(r) ==
  /\ Live(r)
  /\ run[r].code = NoCode
  /\ Finish(r, IF FilledCount(run[r]) = 0 THEN "RETRYABLE" ELSE "FAILED")

\* The process dies, or finish itself raises.
Crash(r) ==
  /\ Live(r)
  /\ crashes < MaxCrashes
  /\ crashes' = crashes + 1
  /\ Update(r, Idle)
  /\ UNCHANGED <<window, row, old, ledger, cash, moved>>

\* A run ends long before its row is stale, so only what a dead one left is.
Age ==
  /\ row = "RUNNING"
  /\ Owners = {}
  /\ ~old
  /\ old' = TRUE
  /\ UNCHANGED <<window, row, run, ledger, cash, crashes, moved>>

\* The user trades the same account by hand.
ManualTrade ==
  /\ cash' \in 0..Cash \ {cash}
  /\ UNCHANGED <<window, row, old, run, ledger, crashes, moved>>

\* 09:00 and 12:30 in Tehran.
OpenWindow ==
  /\ window = "before"
  /\ window' = "open"
  /\ UNCHANGED <<row, old, run, ledger, cash, crashes, moved>>

CloseWindow ==
  /\ window = "open"
  /\ window' = "over"
  /\ UNCHANGED <<row, old, run, ledger, cash, crashes, moved>>

------------------------------------------------------------------------------

Proceed(r) ==
  \/ \E c \in Positions : SellPosition(r, c)
  \/ \E c \in Codes : ReadAccount(r, c)
  \/ Discover(r)
  \/ PassCandidate(r)
  \/ BuyCandidate(r)
  \/ EndRun(r)
  \/ FailRun(r)

Next ==
  \/ \E r \in Runs : Claim(r) \/ ForceRun(r) \/ Proceed(r) \/ Crash(r)
  \/ Age
  \/ ManualTrade
  \/ OpenWindow \/ CloseWindow

Spec == Init /\ [][Next]_vars

\* Every stage of a run is bounded, the timer fires in the window, which opens,
\* and a row grows old.  The window may stay open for as long as that takes, or
\* close before: nothing is said of when it closes.
Fairness ==
  /\ \A r \in Runs : WF_vars(Proceed(r))
  /\ WF_vars(Claim(Timer))
  /\ WF_vars(Age)
  /\ WF_vars(OpenWindow)

FairSpec == Spec /\ Fairness
------------------------------------------------------------------------------
(***************************************************************************)
(* Properties.                                                             *)
(***************************************************************************)

Progress ==
  [phase : {"rebalance", "entry"}, auto : BOOLEAN, todo : SUBSET Codes,
   sold : SUBSET Codes, bought : SUBSET Codes,
   spent : Nat, paid : Nat, code : Codes \cup {NoCode}, cash : Nat]

\* Every column and every process has a value of its kind, and the cash stays
\* between nothing and what the day began with.
TypeOK ==
  /\ window \in {"before", "open", "over"}
  /\ row \in Statuses
  /\ old \in BOOLEAN
  /\ run \in [Runs -> Progress \cup {Idle}]
  /\ ledger \in [Keys -> Nat]
  /\ cash \in 0..Cash
  /\ crashes \in 0..MaxCrashes
  /\ moved \in BOOLEAN

\* At most one live process works for the day's row, and while it does the row
\* is RUNNING and not to be taken over: no crash, retry or forced run lets two
\* of them share it.
OneOwner ==
  /\ \A q, r \in Owners : q = r
  /\ Owners # {} => row = "RUNNING" /\ ~old

\* One run stays within the user's number of trades, pays no more than the day's
\* budget for what it really buys, and buys nothing it has sold.
RunWithinLimits ==
  \A r \in Runs : Live(r) =>
    /\ FilledCount(run[r]) <= MaxTrades
    /\ run[r].paid <= Budget
    /\ run[r].sold \cap run[r].bought = {}

\* Unless a process died, a day that will be tried again has moved nothing of
\* the row's runs: RETRYABLE is "a clean no-fill result".
RetryIsClean == crashes = 0 /\ row = "RETRYABLE" => ~moved

\* A day that was completed or has failed stays so; TASKS.md: "Completed runs
\* are not reopened".
ClosedDayStays == [][(row \in Closed) => (row' = row)]_vars

Buys(r) ==
  /\ run'[r] # run[r]
  /\ \E c \in Codes : run[r].code = c /\ ledger'[<<"BUY", c>>] # ledger[<<"BUY", c>>]

\* A BUY that finds at least the cash its run has read leaves the reserve; only
\* cash that others took in between can make it miss.
ReserveIsLeft ==
  [][\A r \in Runs : Live(r) /\ Buys(r) /\ cash >= run[r].cash => cash' >= Reserve]_vars

\* A row in progress does not stay so: a living run finishes it, whatever the
\* time, and a dead one's is taken over by the timer, unless the window closes
\* before the row is old enough.  Then it stays RUNNING for the day.
DeadRunIsTakenOver ==
  row = "RUNNING" ~> (row # "RUNNING" \/ (window = "over" /\ Owners = {}))

\* What the user was promised: TASKS.md, "up to 3 total Paper trades/day".
DailyTradesKept == Cardinality({k \in Keys : ledger[k] # NoFill}) <= MaxTrades
==============================================================================
