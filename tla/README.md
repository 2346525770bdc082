# BIAP: a verification project for the Kiasha core

TLA+ modules, TLC runs and TLAPS proofs about the stateful core of BIAP/Kiasha:
the Paper account and the capital a user delegates to Kiasha, users' orders and
their approval, the daily Auto Invest runs, the grading of past recommendations,
refresh sessions, and what the global scanner shares between processes and
threads: its analysis queue, its gate, its files and its request budget. The
reference is the Python under `src/analysis` and, for the devices, the session
code under `src/mobile`; every mapped definition of a module names its lines in
`PROJECT.json`.

## 1. The system

BIAP is a set of Python services (FastAPI handlers and systemd timers) over
SQLite files, with a Node backend and two mobile clients. Most of the code
fetches, parses and scores market data. The state that can go wrong is small:

| Component | State | Operations | Interacts with | What makes it correct |
|---|---|---|---|---|
| Paper account ledger (`paper_execution_store.py`, `paper_sell_store.py`) | cash, positions, idempotency keys, audit events of the day | BUY and SELL fills, manual or Kiasha's, one transaction each | mandate tables (same transaction); callers retry | money moves once per key; no owner spends what the other has; the daily breaker holds |
| Capital mandate (`kiasha_capital_mandate.py`, `kiasha_capital_routes.py`) | one open mandate: status, cash, positions at cost | create (two transactions), stop, close when flat, equity snapshots | fills | reserve backed, stop final, cost and realized P/L consistent, capital released |
| Manual Paper orders (`manual_paper_routes.py`, `run_kiasha_auto_invest.py`, `deadline.py`) | queue rows with a status | in-session fill, enqueue, the runner's pass (read batch, check, fill, record) | ledger; market hours; recommendation; abandoned threads | one fill per order, final decisions, no row passed over |
| Deep-analysis queue (`analysis_ledger.py`, `analysis_worker.py`, `scanner._advance_queue`) | one row per company, one flock per market | sync the universe, reclaim, requeue, pick, analyze, record | worker processes, API scans | rows owned by the lock holder, outages not taken for verdicts, verdicts kept, bounded retries |
| Scan gate (`scan_gate.py`) | futures by key, a semaphore | join or lead, queue, run, publish | threads of the API | permits conserved, one scan per key, honest outcomes, nobody stuck |
| Order intents (`api_server.py`, `execution.py`, `audit_store.py`) | intents, idempotent answers | preview, submit, approve, reject, each a chain of transactions | ledger (the fill); retrying clients | money moves exactly for what is recorded as filled; an answered key creates nothing more; limit orders pass the daily cap by a bounded amount |
| Auto Invest (`kiasha_auto_invest.py`, `run_kiasha_auto_invest.py`) | one run row per user and day; what a run has counted | claim, take over, force, sell, buy, finish | ledger under keys of the day; the systemd timer; manual trades | one owner of the day, caps of a run, closed days stay closed, dead runs are taken over while the window is open |
| Performance (`performance_store.py`, `performance_evaluator.py`, `kiasha_repair_outcomes.py`) | observations, votes, outcomes, grades | record, evaluate a batch, repair | histories of TSETMC, which are corrected | grades follow the outcome on record; nothing that can be evaluated is forgotten |
| Authentication (`local_auth.py`, `account_ops_local.py`, `mobile/src/lib/auth-session.ts`) | refresh sessions, reset codes; the token on each device | login, refresh, logout, change and reset the password | devices over a network that loses replies | one session per login; a changed password ends the old sessions; refreshing does not sign a device out |
| Scan cache (`scan_service.py`, `benchmark_refresh.py`, `evidence_store.py`) | per market: the artifact, `.prev` and `.base` | unlocked scans; locked refresh, reprice, rebuild; an operator's rollback | scanner, quotes, analysis queue | complete artifacts are not lost, repricing does not compound, `.prev` is what was replaced |
| HTTP governor (`global_markets/http_governor.py`) | next slot, cooldown, window of the hour | acquire, trip, back off | threads of a process; the provider | spacing and budget |
| Listed-company ingestion, risk and recommendation logic, source caches, Node backend, screens, deployment | - | - | - | see section 8 |

The hard behaviours: a value read in one transaction and used in another,
retries under idempotency keys, a daemon thread that is abandoned and dies with
its process, workers killed in the middle of a row or between two files, runs
taken for dead, locks that only some of the writers take, futures shared between
threads, and tokens rotated by requests whose replies never come. `PROJECT.json`
lists each at its line, under `hazards`, with the properties that watch it. Some
have none, because the code does go wrong there or because a model rests on an
assumption that excludes them; their notes say which.

## 2. Modules

| Module | Role |
|---|---|
| `PaperLedger` | the account and the mandate of one user |
| `MandateBoundary` | abstract: two buckets, the user's and Kiasha's; `PaperLedger` implements it |
| `PaperLedgerProofs` | theorems about `PaperLedger` |
| `ManualPaperQueue` | requests, queue and pass, for one symbol |
| `OrderApproval` | intents and their handlers |
| `IntentBoundary` | abstract: an intent is created once and pays once, in its last step; `OrderApproval` implements it |
| `OrderProofs` | theorems about the two kinds of orders: `OrderApproval` and `ManualPaperQueue` |
| `AnalysisLedger` | one market file, several processes |
| `RequestGovernor` | the request budget shared by threads |
| `AnalysisProofs` | theorems about an analysis and its requests: `AnalysisLedger` and `RequestGovernor` |
| `ScanGate` | the gate a scan passes |
| `SharedFlight` | abstract: callers board a flight until it closes, and are told what it lands with; `ScanGate` implements it |
| `ScanArtifact` | the three files of a market's scan cache and their writers |
| `ScanProofs` | theorems about `ScanGate` and `ScanArtifact` |
| `AutoInvestRun`, `AutoInvestProofs` | one user's trading day and the processes that work on it |
| `PerformanceOutcomes`, `PerformanceProofs` | recommendations, the evaluator and the repair tool |
| `AuthSession`, `AuthSessionProofs` | one user's sessions on the server and on the devices |
| `Totals` | lemmas about sums over finite sets, used by `PaperLedgerProofs` and `OrderProofs` |
| `MC...` | values for the constants |

Where one module proves things about two, the state and the actions of one of
them carry names of their own (`GateInit`, `GovernorNext`, `QueueSpec`, ...), so
that both may be extended together.

Definitions whose comment begins with "Mutant" are wrong versions of a
definition next to them. Nothing uses them; put in its place, each breaks the
property it is listed with.

### PaperLedger

Both fill stores open `BEGIN IMMEDIATE`, check everything and commit, so a fill
is one action: `ManualBuy`, `KiashaBuy`, `ManualSell`, `KiashaSell`. A fill that
finds its key answered, or raises, changes nothing and is a stuttering step.
`POST /ai/capital-mandate` is two actions, `ReadCash` and `CreateMandate`: the
balance is read in its own transaction and compared later. `RequestStop`,
`CompleteIfFlat` and `NewDay` (midnight in Tehran, which resets the day's
notional and loss) complete it.

`cash`, `qty`, `mcash`, `mqty`, `mavg`, `status`, `allocated` and `endsOn` are
columns; `mreal` sums `realized_pnl` over the mandate's positions; `response[k]`
is the cash a key moved; `notional` and `loss` are the sums the code takes over
the day's audit events. `Open` is `_active_mandate`. As in the code, manual
fills count neither towards the day's notional nor towards its losses.

Abstractions: integers instead of floats, so the `1e-9` tolerances are gone; one
user, since every statement filters by user; the newest mandate only, since no
statement reaches an older one; no shared average cost, which only reports
read; no branch without mandate tables, because importing
`kiasha_capital_mandate` creates them. `record_fill` has no caller outside the
tests and is left out.

`complete_if_flat` has no caller outside the tests either, but it is what the
mandate's documents call the release of capital. The constant `ClosesWhenFlat`
says whether anything calls it: TRUE in the safety runs, where it adds
behaviours, FALSE in the run that shows what the deployed code does.

### ManualPaperQueue

A request is `Arrive`, then `Enqueue`, or `CheckOrder` and `CommitOrder`: the
checks read the account, the commit is the ledger's transaction. `FailOrder`
ends it at any step. The pass is `StartPass` (the batch is read at once), then,
row by row, `CheckRow`, `RejectRow`, `CommitRow` and `RecordRow`; `RefuseRow` is
the fill transaction's refusal and `DeferRow` any other exception, of whatever
step, both of which leave the row pending. `Crash` ends the pass anywhere. A row
is known by its client's key and dated by `created`, and `Selected` is the
query's `ORDER BY created_at ASC LIMIT`; what the pass has read is a set,
`batch`, of which it is always at the oldest `Row`. `run_with_deadline` abandons
the thread after its timeout and the process exits when its other stages are
done. One symbol at one price, so that cash, exposure cap and position are
counts of shares. `Allowed` looks at the whole account and `Covered`, the
transaction's own comparisons, only at what is not Kiasha's (`KiashaShares`,
constant here), so a row can pass every check and be refused by every commit.
`Covered` also holds a BUY to `room`, what the daily notional limit and the loss
breaker still allow. Both are used up by Kiasha's fills alone (their sums read
the events `KIASHA_AI_PAPER_FILLED` and `KIASHA_AI_PAPER_SOLD`), so `room` is
the world's to change (`ChangeRoom`): it shrinks, closes after a loss, and comes
back with a new day. `Direct(k)` and `Queued(k)` are the two ledger keys one
client key may lead to.

### AnalysisLedger

Statements outside `sync_universe` commit one by one, so each is an action:
`SyncUniverse` (one transaction, no lock), `EnterDrain` (lock, reclaim, the
SELECT of `requeue_transient`), `Requeue` (one UPDATE), `Claim`, `RecordVerdict`,
`RecordOutage`, `RecordError`, `Unresolved`, `Leave`; `SkipDrain` finds the lock
taken. `Peek` is the worker's
`_needs_work`, which requeues without the lock. `Crash` kills a process and the
kernel frees its lock. A row's reason is reduced to whether it tells of a
dropped connection; times are reduced to being past the refresh window (`Age`).
`EnterDrain` joins reclaim and the SELECT, and `Claim` joins the choice of a row
and its mark: in between, the only writers without the lock are a peek and a
sync, and neither touches a row that is pending with a try left to make. The
one-time requeue of results masked by a local fault is part of `Legacy`.

### ScanGate

Each call is a thread. `Enter` and `Pop` are the two critical sections;
`Acquire`, `QueueTimeout`, `ScanEnds`, `Release` and `SetFuture` are the leader's
other steps, in the code's order: the permit is released before the pop on
success and after the future is set on failure (`finally`). `Share` and
`FollowTimeout` are the follower's. A result is named by the call that produced
it, so a follower's answer can be compared with its leader's.

### OrderApproval

Every call of the audit store is a transaction, so a handler is a chain of
actions: `Preview` (the look-up of the key), `CheckRisk` (the notional of the
day), `SaveIntent` and `SaveAnswer`; `Submit`, then `CommitFill` (the ledger's
transaction, which also marks the intent) or `SavePending`; `ReadForApproval`
and `SaveResolution`. `Abort` ends a handler between any two, as an error or a
restart does, and whatever it had committed stays. `status`, `order` and
`answer` are rows; `moved` counts the fills of an intent in the ledger. The
composition with the account is this count: `PaperLedger` says what one fill
does, `IntentBoundary` how often it may happen. An order is `limited` or not: only
with a limit price has it a notional, which the cap is compared with (`Counted`)
and which `CommittedNotional` sums; without one it needs no room and takes none.
Any other check of the risk gate, the symbol's net position of the day among
them, may refuse an order, which is what `Abort` does to a preview.

### AutoInvestRun

`Claim` inserts the day's row or takes it over (`RETRYABLE`, or `RUNNING` and
old): the timer's run only in the window of the trading day, 09:00 to 12:30
(`OpenWindow`, `CloseWindow`), a forced one at any time. `ForceRun` goes on
without the row. A run offers positions
(`SellPosition`), ranks (`Discover`), and buys (`ReadAccount`, then
`BuyCandidate` or `PassCandidate`): the account is read in one transaction and
charged in another, with `ManualTrade` in between. `EndRun` and `FailRun` write
the row by its id alone. `Crash` kills a process; `Age` makes the row of one
that is dead older than `stale_running_after_seconds`. Shares cost 1, so that
prices and rounding are gone; what is ranked, what the model proposes and what
the risk gate says are choices. A refused fill is a code passed over.

### PerformanceOutcomes

`StartPass` reads the batch once; each observation is then `Fetch` (or
`FetchFails`), `Check` (the SELECT) and `Write` (the UPDATE's transaction), which
another pass or the repair may precede. `StartRepair`, `Repair`, `CommitRepair`
are one transaction, whose lock keeps writers out from its first UPDATE on.
`Mature` and `Correct` are the world's: a history reaches the horizon, or changes
afterwards. `KillPass`, `KillRepair` and the failing fetches are bounded by
`MaxFaults`. The four columns of an outcome are always written together and are
one value.

### AuthSession

A device has what the user does on its screen (`VerifyPassword`, `OpenSession`,
`StoreOpened`; `StartLogout`, `ServeLogout`, `EndLogout`) beside one refresh
(`StartRefresh`, `ServeRefresh`, `EndRefresh`), over the same storage; any
request or reply may be lost. `ChangePassword`, `IssueCode`, `ResetPassword`
and the expiry of sessions and codes are the server's. `disturbed` remembers
that a device met what its refreshes cannot mend: a lost reply, a refusal that
was not its doing, a password changed elsewhere, a screen and a refresh that
overlapped. A dead token that nobody holds stands for a new one, which is what
makes a finite set of tokens enough. Access tokens are checked without the
database and are not tracked. A session row knows its first token and how often
the password had been changed when it was opened (`opened`); `changes` counts
changes and resets, up to the bound `MaxChanges`. A refresh hands both on.

### RequestGovernor

`Grant` and `Refuse` are `_acquire`, `Trip` is `_trip`, each under the lock;
`Send`, `Return`, `BackOff` and `GiveUp` are what a thread does outside it. `Slot`
lies in the future when others wait, so a grant is a promise that `Send` keeps
at its time or later. The jitter of a cooldown is any of the values it may take,
in whole units.

### ScanArtifact

Scans take no lock: `Decide` is the end of a scan's work and of its look at the
artifact, `WriteScan` or `DropScan` what it does then. The benchmark jobs hold the
market's lock from `StartRefresh`, `StartReprice` or `StartRebuild` on: they read
the current artifact again (`ReadCurrent`), wait for a scan or quotes (`Scanned`,
`Priced`), may reject the outcome (`Reject`), and publish in up to four writes:
`RetireBase`, `WriteBase`, `KeepPrev`, `Publish`. `Crash` stops one anywhere;
`Rollback` is the operator's `mv` of `.prev`, while no job runs. `overtaken`
remembers that somebody outside the lock wrote since a writer read; `cut`, that
a publication was stopped between its writes. A file is its stamp, whether it is
complete, whether it was repriced, and whether from repriced prices. `.base.prev`
is written and never read, and is left out.

## 3. Runs

| Run | Question | Bounds |
|---|---|---|
| `paper_ledger` (pass) | do money and shares stay on their side of the mandate? | 4 fills, 2 symbols, prices 36 and 72, quantities 1 and 2, allocations 72 and 180, 2 mandate requests, 2 days |
| `manual_queue` (pass) | is a queued order filled once, decided once, decided at all? | a BUY and a SELL of one share, 2 requests, batches of 1, any number of crashes and failures, a daily limit of 1, one share of Kiasha's |
| `double_fill` (violation) | does one client key fill once? | same, batches of 2 |
| `analysis_ledger` (pass) | does the lock own rows, and do verdicts survive bystanders? | 2 rows, 2 processes, 2 attempts, batch of 2, 1 crash, symmetric processes |
| `scan_gate` (pass) | permits, single flight, honest outcomes, `SharedFlight`; does everybody outside a scan move on? | 3 calls, 3 keys, 2 permits |
| `order_approval` (pass) | does money follow the rows, how far is the cap passed, is an answered key quiet? | 3 intents, 1 key, 2 handlers, orders of 1 with a limit price or without, against a cap of 1, symmetric |
| `resolution` (violation) | is a verdict final? | 1 intent, 2 handlers, cap of 2 |
| `auto_invest` (pass) | one owner, limits of a run, clean retries; is a dead run taken over? | the timer and a client, 2 codes, 1 of them held, 2 trades, budget 2, cash 3, reserve 1, 1 crash, one window |
| `auth_session` (pass) | do sessions neither multiply nor outlive a password, and devices stay signed in? | 2 devices, 4 tokens held at once, 2 codes, 2 changes or resets, symmetric |
| `request_governor` (pass) | do slots keep their distance and hours their budget? | 3 threads, interval 2, hours of 7, budget of 3, clock up to 8, 1 retry, symmetric |
| `performance` (pass) | do grades follow outcomes, and is everything evaluated that can be? | 3 observations in batches of 2, 1 that never can be, 1 correction, 1 fault, 1 repair |
| `scan_artifact` (pass) | is only what its writer could not see lost, and does nothing compound? | 2 jobs, 2 scans, 4 stamps, 1 crash, 1 rollback, window of 2, symmetric |

Why the bounds are enough: every property relates at most two orders, rows,
intents or symbols, or two actors; each run has one more actor or step than the
shortest scenario needs. For the ledger that is a BUY, a partial SELL, a stop and
a new mandate; for the queue a fill, a crash and a second pass, and a row more
than a pass reads; for the analyses a
killed worker, its successor and a peek; for the gate a leader, its follower and a
caller that waits for a permit; for the intents two handlers that preview
together against a cap one of them fills, and a third intent that finds it
passed; for Auto Invest a run that dies, the run that takes over and the trade
of a user in between; for the sessions a refresh whose reply is lost and a
second device that changes the password, twice so that a session of the first
change is there to be ended by the second; for the governor more slots than an
hour has, and an hour that ends; for the outcomes a batch with one place taken
by what is never evaluated; for the files a job, a scan that overtakes it, and a
job that starts from what is left.

Prices of the ledger are multiples of 36, which makes every average cost of the
quantities explored exact, so that the integer division of `NewAverage` loses
nothing. The share of Kiasha's in the queue's position lets a SELL pass the checks
and fail at every commit, and a daily limit that closes does the same to a BUY, so
that rows do stay pending for ever; a batch has room for one row of two, as the
code's 100 places have for fewer than all, so that a refused row keeps another
waiting. The symmetric runs check no liveness.

The types of queue and analyses are checked and proved, those of the other
components only proved. Deadlock is not checked where the model may stop: the
ledger when its finite keys are answered and its days are over, the gate when
every call has returned, the governor and the files when their bounded clock
has run out. Their configurations say so.

The configurations beside the listed runs (`StaleCash`, `Horizon`, `NeverCloses`,
`CancelledFill`, `MarketOrders`, `Retries`, `DailyTrades`, `LogoutRace`,
`RetryAfter`, `Compounded`) each end in the counterexample of section 5.

## 4. Fairness

- Queue: the market opens and closes (weak); a handler that has begun ends
  (weak); the timer starts a pass in some session (strong, since the session
  comes and goes and the timer fires every five minutes of it); a pass that has
  begun makes its next step, whichever it is, or dies (weak). Nothing is assumed
  of quotes, of the recommendation, of the daily limits, or of how many passes
  die. So a row may stay pending for ever, and `OrdersDecided` says what has to go
  wrong again and again for that (`Setback`): a pass dies with the row in its
  batch, the row itself fails or is refused, or the pass fails, or dies, at an
  older row while the batch has no place for this one. A row never waits for ever
  because of younger rows, or of those before it in its own batch.
- Gate: weak fairness of every thread step except the end of a scan, and of
  `Enter`: a scan may hang and a call need not come. Both waits have timeouts in
  the code, so waiting is always finite.
- Auto Invest: a run goes on (weak, per process: it takes up nothing new after
  its 200 s, and its calls have timeouts), the window opens (weak), the timer
  fires every five minutes of it and claims (weak: the claim is enabled only in
  the window), and the row of a dead process grows old (weak). The window may
  close at any time after it opened, and nothing makes it close.
  `DeadRunIsTakenOver` says that a `RUNNING` row is finished or taken over, or
  the window is over and no process owns it: a run that dies less than 1800 s
  before 12:30 leaves the row `RUNNING` for the rest of the day, unless a forced
  run takes it. `Age` needs that no live process owns the row: the docstring of
  the claim (`kiasha_auto_invest.py:315-317`) takes it from 1800 s of staleness
  being well above all budgets together. A run that outlived them would share
  the day with its successor. `MaxCrashes` bounds the processes that die.
- Performance: sessions pass (weak), and a pass or a repair that began goes on;
  the timer starts a pass every trading day (weak, as part of a pass's steps).
  `MaxBroken < Limit` is an assumption: a batch full of observations that can
  never be evaluated would keep the younger ones out, because the oldest are
  read first. Faults are bounded by `MaxFaults`.
- Ledger: fairness only for `NeverCloses.cfg`, of the clock and of
  `CompleteIfFlat`, so that its counterexample is not a system that merely
  stopped.
- None is assumed of the intents, the sessions, the governor and the files,
  about which nothing is claimed to happen in the end.

## 5. Findings

Where the code and what the repository says of it disagree, a property states
what is said and TLC finds its counterexample. Two are listed runs, with the lines
they quote in `PROJECT.json`:

1. `double_fill` (`OneFillPerKey`): an order queued out of session and retried in
   session is filled under two different ledger keys.
2. `resolution` (`ResolutionIsFinal`): submitting a resolved intent saves
   `PENDING_APPROVAL` over its verdict, and of two concurrent resolutions the
   last write wins; `execution.py:141-147` says resolved intents are returned
   unchanged.
The others have a configuration of their own:

3. `MarketOrders` (`ApprovalsWithinCap`): an order without a limit price has no
   notional for the risk gate (`risk.py:189-197`) and is filtered out of the sum of
   the day (`audit_store.py:554`), so orders for approval without one pass the cap
   one after the other (the configuration has one handler, two intents and a cap of
   1); `PROJECT_STATUS.md:984-989` reports that serial submissions for approval no
   longer bypass it. What holds is `OvershootBounded`, of the orders with a limit
   price.
4. `StaleCash` (`ReserveBacked`): the balance a mandate is checked against is
   read earlier, in another transaction. The account may be over-allocated.
5. `Horizon` (`NoBuyAfterHorizon`): `ends_at` is stored and shown, and no fill
   looks at it.
6. `NeverCloses` (`FlatStoppedMandateCloses`): `complete_if_flat` has no caller
   in production.
7. `CancelledFill` (`CancelledNeverFilled`): a pass that dies after the fill
   leaves a row the next pass may cancel, because its checks come before the
   replay.
8. `Retries` (`RetriesBounded`): an outage leaves a pending row with a stored
   result, and `record_error` never ends the retries of such a row.
9. `DailyTrades` (`DailyTradesKept`): `TASKS.md:47` speaks of "up to 3 total Paper
   trades/day"; trades and budget are counted per run
   (`kiasha_auto_invest.py:623`, `:633`), and a forced run of the same day starts
   from zero.
10. `LogoutRace` (`LogoutIsFinal`): a refresh under way while the user logs out
    stores its replacement token afterwards, which is what the comment at
    `auth-session.ts:90-91` wants to avoid.
11. `RetryAfter` (`RetryAfterHonoured`): `http_governor.py:3-6` says a cooldown
    honours `Retry-After`; a later 429 with a shorter wait overwrites the
    cooldown of an earlier one (line 65), and `MAX_COOLDOWN_S` cuts a longer one.
12. `Compounded` (`NeverCompounded`): `benchmark_refresh.py:311-312` says chained
    repricing always restarts from the pristine scan. A ledger rebuild killed
    after moving the old base away (line 421) and before writing the new one
    (line 424) leaves a repriced artifact without its base, and the next
    repricing goes on from repriced rows. `NoDrift` is the promise that holds: only
    after a publication was cut.

## 6. Proofs

Theorems hold for every value of the constants under the one named assumption of
each module (`LedgerAssumption`, `GateAssumption`, ...), which TLC evaluates on
every run of it. Every invariant and every safety property of the passing runs
is one, and so are the three refinements; what is left to TLC is at the end.

**PaperLedger.** `LedgerInv` is inductive: every column has its type, and the
account holds at least the shares the open mandate does. Neither half is
inductive alone: a manual SELL leaves a position in `Nat` only because the
mandate's shares are backed, and a fill keeps them backed only because the
columns are numbers. `LedgerInvariant` establishes it, one lemma for each fill
and one for the rest; `LedgerTyped` and `SharesBacked` are parts of it.
`ReserveKept`, `StopKept` and `BreakerKept` are action properties: one step from
a state of the invariant, with `OnlyFillsMoveCash` disposing of the actions that
move no cash. `LedgerRefinesBoundary` is the refinement: the initial state maps
to the two full buckets, and each fill maps to a trade of its owner, creation and
closing to a transfer, everything else to a stutter. `cash >= mcash` is not part
of any invariant: `StaleCash.cfg` shows it is false, which is why the promise
proved is that a backed reserve is never eroded.

Two more invariants are sums. `CashConserved` says that the balance is the opening
cash and what the stored responses moved: a fill answers one key that had no
response, so it changes one summand, by what it adds to the cash. `EquityIdentity`
says the same of a mandate's books: what a fill takes from or adds to its cash, it
adds to or takes from its positions at cost or its realized result. It has a
hypothesis, `AveragesExact`: at a BUY the new average, times the shares, is what
they cost. The code keeps averages in a `REAL` column; the model's are whole
numbers, and rounding one would let a later SELL lose the rest. The prices of the
run are chosen so that no average is rounded, so its states satisfy the
hypothesis (TLC finds no step that breaks it); without it the model's rounding,
which the code does not have, would break the identity.

**Totals.** The model adds with the folds of the community modules, which take
elements in an order of their own. `SumsInAnyOrder` says that any order gives the
same, and `TotalOf`, `TotalChanges`, `TotalGrows`, `TotalAtMost` and `TotalPart`
what a sum is when an element is added or changed, when summands grow or are
bounded, and when the others are zero. There is no induction over sets here: of
the subsets that would refute a lemma, `LeastSubset` takes one that has none
below it, and the lemma holds of it because it holds of what is left without one
element. `LeastNumber`, that naturals in a set have a least one, comes from the
library's theorem that `<` on `Nat` is well-founded.

**OrderApproval.** `FilledAsRecorded` is not inductive, because a handler carries
an intent from the step that reads it to the step that writes it. The invariant
adds which statuses the mode of a row allows (`ModeFitsStatus`) and which modes
and statuses the handlers carry (`CarriedFits`): a paper intent is never saved by
an approver, so nothing overwrites a `PAPER_FILLED`. The refinement
`OrdersRefineBoundary` and `AnswerKept` follow from it step by step, and so does
`AnsweredKeysAreQuiet`: a look-up that finds the answer begins no preview, and the
answer stays. Only a preview under way saves a row, so no row comes of such a key.

`OvershootKept` needs an invariant about what is on its way: `WithinOvershoot`
adds to the orders that await approval (`Awaiting`) those of the handlers that
have passed the check and not saved (`Coming`), and bounds both together by the
cap and one largest order for each handler but one, counting limit prices only. The check that lets an order
through sees room for it beside everything committed, and each of the other
handlers brings at most one (`CheckKeepsBound`); saving moves a summand from one
total to the other (`SaveKeepsBound`); every other step writes a status over one
that counts already, or over a rejection, which takes the order out of the bound
for good (`OthersRaiseNothing`). It assumes a largest notional, which
`policy.max_order_notional` is, and at least one handler.

**ManualPaperQueue.** `FilledRowsFilledOnce` is about rows and ledger, and the pass
carries a batch and a verdict between them. `QueueInv` adds that every row of the
batch is still due and the pass not idle while it has one (`BatchIsDue`), and that
a verdict of `PAPER_FILLED` tells of a fill under that row's key (`VerdictIsTrue`).
The row is chosen by its time, so `RowInBatch` has to show that a batch has an
oldest one: its times are a set of naturals. Nothing is added to the batch of a
pass and no row is dated twice, so the row stays the same until it is finished
(`RowStays`). `DecisionsAreFinal` is one step from that invariant: the pass writes
and fills only its row, which is due, and a request fills only under the client's
own key.

**AnalysisLedger.** `LedgerInv` says that who drains holds the lock and nobody else
does (`LockHeld`), that a row is in hand exactly while it is analyzed and there is
room for it (`InHand`), and that rows are marked before their first result and
complete by one (`ResultsFit`). `LedgerAnalyzingIsOwned` follows from the lock:
marks are made only by its holder, one at a time, and the next holder begins by
taking back those of one that died. `ResultsFit` is why taking a row in hand again
leaves a `COMPLETE` one as it is: only a row without a result is marked.
`LedgerOutageIsNoVerdict` is part of the same induction, and
`LedgerCompleteIsKept` one step from it: whoever else writes, the peek that requeues
without the lock included, writes over rows that are not `COMPLETE`.

**RequestGovernor.** Slots are granted in order (`NextIsLater`), so the hour that
ends with a new slot holds nothing but the window and that slot; what the window
has forgotten is an hour old (`Forgotten`) and in no hour of a later slot.

**ScanGate.** `GateInv` says that the table of futures holds exactly the calls
between their two critical sections, each under its key; that the future of
such a call is not set; and that answers are those of the leader. It is needed
because none of the properties is inductive: `OneScanPerKey` follows from the
table being exact, `NoLateJoin` from the futures in the table being open, and
`OutcomeShared` from nobody having answered from a future before it is set.
`PermitsKept` adds the cardinality of the holders, and with it `GateTyped`
bounds the semaphore. `GateImplementsFlights` is the refinement: the table is what
is boarding, the futures are the landings; the two critical sections map to opening
or joining and to closing, setting the future to landing, and what the semaphore
does to nothing. That a flight lands only when nobody can board it any more is the
table being exact; the run checks `ImplementsFlights`, which has `NoLateJoin` in it,
instead of `NoLateJoin`.

**ScanArtifact.** Every repriced file has its scan in `.base` (`Backed`): the
artifact and `.prev` between publications, and what a job is about to write in the
base it is about to leave (`Coming`). During a publication the files need not
agree; the lock makes one job work at a time, and `cut` covers what a killed one
leaves, which is exactly the case `Compounded.cfg` shows to be real.

`NothingSeenIsLost` compares what a writer puts in place with what it replaces,
which nothing in one state does: a second invariant, `SeenInv`, says that a stamp
belongs to one scan, whose copies and repricings are equally complete
(`Stamped`); that a job nobody has overtaken still finds the artifact it read, and
what it will publish does not lose it (`JobSees`); and that such a scan's result is
newer than the artifact (`ScanSees`). `OneRollbackUndoes` is its last part, `Keeps`:
before the last write of such a publication `.prev` is the artifact itself.

**AutoInvestRun.** The limits of a run hold because what it has paid never passes
what it counts as spent, and because a code it is about to buy was not sold and
found a trade left (`RunFits`). `OneOwnerOfTheDay` needs the row's state beside
its owners: while one lives, the row is `RUNNING` and not old. That a day tried
again moved nothing (`RetriesAreClean`) needs `NothingIsLost`: while no process has
died, a `RUNNING` row has a live owner, whose trades include whatever moved.
`ReserveRemains` is one step: a BUY costs no more than the cash the run has read
leaves above the reserve, and finds at least that cash.

**PerformanceOutcomes.** Grades follow outcomes because votes stand still once
there can be one (`SettledFirst`): what has, or is about to get, an outcome has a
history that reaches its horizon, and such a history never gets short again.

**AuthSession.** `RefreshKeepsSession` needs where the session of a device may be
at any moment, in its storage, in a request or in a reply (`DeviceFits`), and that
no token is held by two devices (`Exclusive`), so that nothing one does ends the
session of another. One session per login follows from the rotation being one
transaction. `ChangesEnd` says that every live session was opened since the last
change or reset: the sweep leaves none behind, and a refresh, which inherits the
count of what it refreshes, finds its token revoked or was swept itself. It says
nothing of the password a session was opened with: a login that compared the old
one before a change and inserts its session afterwards is let through
(`local_auth.py:285`), and no property covers it.

Only model-checked: the four liveness properties (`OrdersDecided`,
`EveryCallerMovesOn`, `DeadRunIsTakenOver`, `MatureIsEvaluated`), which need
fairness and so `ENABLED`, out of the prover's reach; and the three properties the
code refutes, whose counterexamples TLC gives.

## 7. Plan

1. A specification of the queue's promise (a row is filled at most once and then
   decided) that `ManualPaperQueue` implements, its refinement proved from
   `QueueInv`.
2. The safety part under the liveness properties: what a state in which nothing
   moves on looks like, so that fairness has only one step to add.
3. The exposure limits two BUYs may pass together, stated with the risk policy;
   the administrators' routes; the market scan stage of the runner.

## 8. Not modelled

- Risk and recommendation scoring: pure floating-point functions. The models
  choose their verdicts freely, so that what is shown holds whatever they say.
- Listed-company ingestion, data providers and filing parsers
  (`global_markets/oam_esef.py`, `esef.py`, `pdf_statements.py`,
  `german_issuer.py`, `codal_data.py` and their like): by far the most of the
  repository's lines. They turn documents into numbers, keep no state but files
  they replace, and meet no other process; their correctness is about formats,
  which an abstract model leaves out and their unit tests cover. This is why
  the map covers a small share of the lines: it covers those that share state.
- Discovery, ranking and the freshness verdicts of the scanner; the reports over
  the audit log, the market memory and the equity snapshots, which nothing of the
  core reads back.
- The Node backend, an API over its own database apart from the Python services;
  the screens of the mobile clients; deployment, tools and documents.
- `record_fill` and the live broker gateway, which nothing in production calls.
