--------------------------- MODULE ManualPaperQueue ---------------------------
(***************************************************************************)
(* A user's own Paper orders: src/analysis/manual_paper_routes.py, run by  *)
(* the HTTP handlers and, every five minutes, by one process               *)
(* (src/analysis/run_kiasha_auto_invest.py).                               *)
(*                                                                         *)
(* An order arriving in session is filled at once under the client's       *)
(* idempotency key.  One arriving out of session is queued, and the runner *)
(* fills it later under a key of its own ("queue-fill:<queue id>").  The   *)
(* runner's pass is a daemon thread abandoned after 30 s and killed when   *)
(* the process exits, so it may stop between any two of its steps, and any *)
(* step of it may fail: the row it is at then stays pending.               *)
(*                                                                         *)
(* One symbol at one price, so cash, equity caps and the cash reserve are  *)
(* all counted in shares.  The checks look at the whole account, the fill  *)
(* transaction only at the part that is not Kiasha's, and, for a BUY, at   *)
(* what the account's daily limits still allow.  Those limits are used up  *)
(* by Kiasha's own fills, never by these.                                  *)
(***************************************************************************)
EXTENDS Integers, FiniteSets

CONSTANTS ClientKeys,  \* client idempotency keys, one per order the user wants
          Posts,       \* concurrent POSTs, several of which may carry one key
          Side,        \* Side[k]: "BUY" or "SELL"
          Quantity,    \* Quantity[k]
          Calls,       \* recommendations explored, of BUY, SELL and HOLD
          KiashaShares,\* shares in the position that are the mandate's
          MaxShares,   \* the position the symbol cap and the cash reserve allow
          CashShares,  \* the position the user's unreserved cash pays for
          DailyShares, \* the purchase the whole daily notional limit allows
          Limit        \* rows one pass reads (100 in the code)

ASSUME QueueAssumption ==
  /\ Side \in [ClientKeys -> {"BUY", "SELL"}]
  /\ Quantity \in [ClientKeys -> Nat \ {0}]
  /\ Calls \subseteq {"BUY", "SELL", "HOLD"}
  /\ KiashaShares \in Nat
  /\ MaxShares \in Nat
  /\ CashShares \in Nat
  /\ DailyShares \in Nat
  /\ Limit \in Nat \ {0}

VARIABLES
  open,     \* whether the market session is open
  call,     \* what decide() recommends for the symbol now
  room,     \* the purchase the daily limits still allow, 0 after too big a loss
  owned,    \* paper_positions.quantity
  fills,    \* fills committed under each idempotency key of the ledger
  queue,    \* manual_paper_queue.status by client key, NONE without a row
  created,  \* manual_paper_queue.created_at by client key, 0 without a row
  latest,   \* the created_at of the newest row
  post,     \* what each request is about to do, and for which key
  stage,    \* what the pass is about to do
  batch,    \* the rows the pass has read and not finished
  verdict   \* the status the pass is about to record

world     == <<open, call, room>>
ledger    == <<owned, fills>>
queueRows == <<queue, created, latest>>
pass      == <<stage, batch, verdict>>
queueVars == <<world, ledger, queueRows, post, pass>>

Cancelled == {"CANCELLED_SIGNAL", "CANCELLED_RISK"}
Decided   == Cancelled \cup {"PAPER_FILLED"}

\* The two idempotency keys one order may be filled under.
Direct(k) == <<"client", k>>
Queued(k) == <<"queue-fill", k>>
LedgerKeys == {"client", "queue-fill"} \X ClientKeys

NoPost == [step |-> "idle"]
At(step, k) == [step |-> step, key |-> k]
PostSteps == {NoPost} \cup [step : {"enqueue", "check", "commit"}, key : ClientKeys]

QueueInit ==
  /\ open = FALSE
  /\ call \in Calls
  /\ room = DailyShares
  /\ owned = KiashaShares
  /\ fills = [fk \in LedgerKeys |-> 0]
  /\ queue = [k \in ClientKeys |-> "NONE"]
  /\ created = [k \in ClientKeys |-> 0]
  /\ latest = 0
  /\ post = [r \in Posts |-> NoPost]
  /\ stage = "idle"
  /\ batch = {}
  /\ verdict = "PENDING_MARKET_OPEN"

------------------------------------------------------------------------------
(***************************************************************************)
(* _execute_checked: the checks read the account, the commit is a          *)
(* transaction of its own.                                                 *)
(***************************************************************************)

\* The account limits, the owned shares of a SELL and the session of the risk
\* gate, as read before the fill is committed.
Allowed(k) ==
  /\ open
  /\ Side[k] = "SELL" => Quantity[k] <= owned
  /\ Side[k] = "BUY"  => owned + Quantity[k] <= MaxShares

\* Mutant: the ledger never finds a key it has answered.
NeverAnswered(fk) == fills[fk] < 0

\* The replay check that opens both fill transactions.
Answered(fk) == fills[fk] > 0

\* Mutant: a SELL is not compared with the position when it commits.
CoveredOnBuy(k) ==
  Side[k] = "BUY" => owned + Quantity[k] <= CashShares /\ Quantity[k] <= room

\* What the transaction itself compares: the user's part of the position, or
\* of the cash, and for a BUY the day's notional and the day's losses.
Covered(k) ==
  /\ Side[k] = "SELL" => owned - Quantity[k] >= KiashaShares
  /\ Side[k] = "BUY"  => owned + Quantity[k] <= CashShares /\ Quantity[k] <= room

Fill(fk, k) ==
  /\ ~Answered(fk)
  /\ Covered(k)
  /\ owned' = IF Side[k] = "BUY" THEN owned + Quantity[k] ELSE owned - Quantity[k]
  /\ fills' = [fills EXCEPT ![fk] = @ + 1]

------------------------------------------------------------------------------
(***************************************************************************)
(* POST /manual-paper/{code}.                                              *)
(***************************************************************************)

\* The recommendation agrees with the order; the session decides the path.  An
\* order refused here, like one refused below, leaves nothing behind.
Arrive(r, k) ==
  /\ post[r] = NoPost
  /\ call = Side[k]
  /\ post' = [post EXCEPT ![r] = At(IF open THEN "check" ELSE "enqueue", k)]
  /\ UNCHANGED <<world, ledger, queueRows, pass>>

\* _enqueue: at most one row for a client key, whatever its status.
Enqueue(r) ==
  /\ post[r].step = "enqueue"
  /\ LET k == post[r].key IN
       IF queue[k] = "NONE"
         THEN /\ queue' = [queue EXCEPT ![k] = "PENDING_MARKET_OPEN"]
              /\ latest' = latest + 1
              /\ created' = [created EXCEPT ![k] = latest + 1]
         ELSE UNCHANGED queueRows
  /\ post' = [post EXCEPT ![r] = NoPost]
  /\ UNCHANGED <<world, ledger, pass>>

CheckOrder(r) ==
  /\ post[r].step = "check"
  /\ LET k == post[r].key IN
       post' = [post EXCEPT ![r] =
                     IF call = Side[k] /\ Allowed(k) THEN At("commit", k) ELSE NoPost]
  /\ UNCHANGED <<world, ledger, queueRows, pass>>

\* No verified quote (404, 409), a busy database: whatever step fails, the
\* request ends without it.
FailOrder(r) ==
  /\ post[r] # NoPost
  /\ post' = [post EXCEPT ![r] = NoPost]
  /\ UNCHANGED <<world, ledger, queueRows, pass>>

\* A replay and a refusal (409) end the request without a fill.
CommitOrder(r) ==
  /\ post[r].step = "commit"
  /\ LET k == post[r].key IN
       \/ Fill(Direct(k), k)
       \/ (Answered(Direct(k)) \/ ~Covered(k)) /\ UNCHANGED ledger
  /\ post' = [post EXCEPT ![r] = NoPost]
  /\ UNCHANGED <<world, queueRows, pass>>

------------------------------------------------------------------------------
(***************************************************************************)
(* process_due_manual_paper_orders.                                        *)
(***************************************************************************)

\* Mutant: every row is read again, decided or not.
EveryRow == {k \in ClientKeys : queue[k] # "NONE"}

\* WHERE status='PENDING_MARKET_OPEN'.
Due == {k \in ClientKeys : queue[k] = "PENDING_MARKET_OPEN"}

\* Mutant: ORDER BY created_at DESC, as in the listing of a user's orders.
NewestSelected == {k \in Due : Cardinality({j \in Due : created[j] > created[k]}) < Limit}

\* ORDER BY created_at ASC LIMIT ?: fewer than Limit due rows are older.
Selected == {k \in Due : Cardinality({j \in Due : created[j] < created[k]}) < Limit}

StartPass ==
  /\ stage = "idle"
  /\ open
  /\ Selected # {}
  /\ batch' = Selected
  /\ stage' = "check"
  /\ UNCHANGED <<world, ledger, queueRows, post, verdict>>

\* The row the pass is at: the oldest it has not finished.
Oldest == {k \in batch : \A j \in batch : created[k] <= created[j]}
AnyOf(S) == CHOOSE k \in S : TRUE
Row == AnyOf(Oldest)

\* On to the next row, or out of the pass; the finished row's verdict goes.
NextRow ==
  /\ batch' = batch \ {Row}
  /\ stage' = IF batch = {Row} THEN "idle" ELSE "check"
  /\ verdict' = "PENDING_MARKET_OPEN"

Conclude(status) ==
  /\ verdict' = status
  /\ stage' = "record"
  /\ UNCHANGED batch

\* The row's quote is verified and everything is checked again.
CheckRow ==
  /\ stage = "check"
  /\ LET k == Row IN
       IF call # Side[k] THEN Conclude("CANCELLED_SIGNAL")
       ELSE IF ~Allowed(k) THEN Conclude("CANCELLED_RISK")
       ELSE stage' = "commit" /\ UNCHANGED <<batch, verdict>>
  /\ UNCHANGED <<world, ledger, queueRows, post>>

\* The sources know no such symbol (404), or the risk gate has another
\* objection: the kill switch, the score, the age of the quote.
RejectRow ==
  /\ stage = "check"
  /\ Conclude("CANCELLED_RISK")
  /\ UNCHANGED <<world, ledger, queueRows, post>>

\* A replayed fill is a fill.
CommitRow ==
  /\ stage = "commit"
  /\ Fill(Queued(Row), Row) \/ (Answered(Queued(Row)) /\ UNCHANGED ledger)
  /\ Conclude("PAPER_FILLED")
  /\ UNCHANGED <<world, queueRows, post>>

\* The transaction refuses the row (a ValueError), which stays pending.
RefuseRow ==
  /\ stage = "commit"
  /\ ~Answered(Queued(Row)) /\ ~Covered(Row)
  /\ NextRow
  /\ UNCHANGED <<world, ledger, queueRows, post>>

\* The sources are down (409, 502, 503, 504) or a step raises anything else, the
\* recording of a fill included: the row stays pending.
DeferRow ==
  /\ stage # "idle"
  /\ NextRow
  /\ UNCHANGED <<world, ledger, queueRows, post>>

\* _set_queue_result, whatever the row says by now.
RecordRow ==
  /\ stage = "record"
  /\ queue' = [queue EXCEPT ![Row] = verdict]
  /\ NextRow
  /\ UNCHANGED <<world, ledger, created, latest, post>>

\* The pass is abandoned and its process exits.
Crash ==
  /\ stage # "idle"
  /\ stage' = "idle"
  /\ batch' = {}
  /\ verdict' = "PENDING_MARKET_OPEN"
  /\ UNCHANGED <<world, ledger, queueRows, post>>

------------------------------------------------------------------------------
OpenMarket  == ~open /\ open' = TRUE /\ UNCHANGED <<call, room, ledger, queueRows, post, pass>>
CloseMarket == open /\ open' = FALSE /\ UNCHANGED <<call, room, ledger, queueRows, post, pass>>
ChangeCall  == call' \in Calls \ {call} /\ UNCHANGED <<open, room, ledger, queueRows, post, pass>>

\* Kiasha buys, sells at a loss, or a new day begins.
ChangeRoom ==
  /\ room' \in (0..DailyShares) \ {room}
  /\ UNCHANGED <<open, call, ledger, queueRows, post, pass>>

HandlePost(r) == Enqueue(r) \/ CheckOrder(r) \/ FailOrder(r) \/ CommitOrder(r)

StepPass == CheckRow \/ RejectRow \/ CommitRow \/ RefuseRow \/ RecordRow \/ DeferRow \/ Crash

QueueNext ==
  \/ \E r \in Posts : HandlePost(r) \/ \E k \in ClientKeys : Arrive(r, k)
  \/ StartPass \/ StepPass
  \/ OpenMarket \/ CloseMarket \/ ChangeCall \/ ChangeRoom

(***************************************************************************)
(* The market opens and closes, a handler ends, the timer starts a pass on *)
(* some open market, and a pass that has begun goes on or is abandoned.    *)
(* Nothing is said of how often rows fail or passes die.                   *)
(***************************************************************************)
QueueFairness ==
  /\ WF_queueVars(OpenMarket) /\ WF_queueVars(CloseMarket)
  /\ \A r \in Posts : WF_queueVars(HandlePost(r))
  /\ SF_queueVars(StartPass) /\ WF_queueVars(StepPass)

QueueSpec == QueueInit /\ [][QueueNext]_queueVars

FairQueueSpec == QueueSpec /\ QueueFairness

------------------------------------------------------------------------------
(***************************************************************************)
(* Properties.                                                             *)
(***************************************************************************)

\* Every column and every local of the handlers holds a value of its type; in
\* particular no order of fills sells a share of Kiasha's.
QueueTypeOK ==
  /\ open \in BOOLEAN
  /\ call \in Calls
  /\ room \in 0..DailyShares
  /\ owned \in Nat /\ owned >= KiashaShares
  /\ fills \in [LedgerKeys -> Nat]
  /\ queue \in [ClientKeys -> {"NONE", "PENDING_MARKET_OPEN"} \cup Decided]
  /\ created \in [ClientKeys -> Nat]
  /\ latest \in Nat
  /\ post \in [Posts -> PostSteps]
  /\ stage \in {"idle", "check", "commit", "record"}
  /\ batch \subseteq ClientKeys
  /\ verdict \in {"PENDING_MARKET_OPEN"} \cup Decided

\* A row says PAPER_FILLED only when the ledger holds exactly one fill of it,
\* however many passes died between the fill and the row.
FilledRowsFilledOnce ==
  \A k \in ClientKeys :
    /\ fills[Queued(k)] <= 1
    /\ queue[k] = "PAPER_FILLED" => fills[Queued(k)] = 1

\* A row once decided keeps its status, and nothing is filled for it any more:
\* a pass never works from a row another pass has finished.
DecidedIsFinal ==
  [][\A k \in ClientKeys : queue[k] \in Decided =>
       /\ queue'[k] = queue[k]
       /\ fills'[Queued(k)] = fills[Queued(k)]]_queueVars

\* What keeps row k waiting: a pass that dies with k in its batch, a failure or a
\* refusal of k itself, or one of an older row in a batch too small for k.
Setback(k) ==
  \/ Crash /\ k \in batch
  \/ /\ Crash \/ DeferRow \/ RefuseRow
     /\ Row = k \/ (k \notin batch /\ created[Row] < created[k])

\* A row that stays pending for ever meets such a setback again and again: no
\* row waits because of a younger one, or of one before it in the same batch.
OrdersDecided ==
  \A k \in ClientKeys :
    <>[](queue[k] = "PENDING_MARKET_OPEN") => []<><<Setback(k)>>_queueVars

\* docs/KIASHA_CAPITAL_MANDATE.md:22: a retry never moves money twice; one
\* client key buys or sells once, in session or through the queue.
OneFillPerKey ==
  \A k \in ClientKeys : fills[Direct(k)] + fills[Queued(k)] <= 1

\* src/analysis/manual_paper_routes.py:164-165: a cancelled row was refused,
\* so the account holds no fill of it.
CancelledNeverFilled ==
  \A k \in ClientKeys : queue[k] \in Cancelled => fills[Queued(k)] = 0
==============================================================================
