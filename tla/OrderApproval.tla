---------------------------- MODULE OrderApproval ----------------------------
(***************************************************************************)
(* Order intents: preview, submit, approve and reject, the handlers of     *)
(* src/analysis/api_server.py over src/analysis/audit_store.py, with the   *)
(* transitions of src/analysis/execution.py.                               *)
(*                                                                         *)
(* Every call of the store is a transaction of its own, so a handler is a  *)
(* chain of actions with other handlers in between, and a restart may cut  *)
(* it anywhere.  Only the fill of a Paper intent is one transaction: it    *)
(* looks for its key, moves the money and marks the intent.                *)
(*                                                                         *)
(* One day, one user and one symbol.  An order has a limit price or is     *)
(* without one, and what it is worth is a small number; only a limit price *)
(* makes it a notional the daily cap knows of.  A refusal by any other     *)
(* check of the risk gate, the symbol's net position of the day among      *)
(* them, ends the preview as Abort does.  Audit events are written and     *)
(* shown, never read back by these handlers, and are left out.             *)
(***************************************************************************)
EXTENDS Integers, FiniteSetsExt

CONSTANTS Intents,     \* uuids: a bound on the intents ever created
          Keys,        \* Idempotency-Key values clients send with a preview
          NoKey,       \* the header is optional
          NoIntent,
          Requests,    \* concurrent handlers
          Notionals,   \* what an order is worth: quantity times limit, or market, price
          DailyCap     \* policy.max_daily_notional

ASSUME OrderAssumption ==
  /\ NoKey \notin Keys
  /\ NoIntent \notin Intents
  /\ Notionals \subseteq Nat \ {0}
  /\ \E n \in Notionals : \A m \in Notionals : m <= n    \* policy.max_order_notional
  /\ DailyCap \in Nat
  /\ IsFiniteSet(Intents)
  /\ IsFiniteSet(Requests) /\ Requests # {}

VARIABLES
  status,    \* order_intents.status, NONE without a row
  order,     \* what the row was created with
  answer,    \* idempotency_keys: the intent in the stored answer of a preview
  moved,     \* fills the ledger committed under orders-submit:<intent>
  request,   \* what each handler is about to do
  revived    \* history: rejected intents that came back to life

rows == <<status, order, answer>>
vars == <<status, order, answer, moved, request, revived>>

Modes     == {"paper", "approval"}
Verdicts  == {"APPROVED", "REJECTED"}
Committed == {"PAPER_FILLED", "PENDING_APPROVAL", "APPROVED"}
Statuses  == Committed \cup {"NONE", "SIMULATED", "REJECTED"}

Orders  == [mode : Modes, limited : BOOLEAN, notional : Notionals]
NoOrder == [mode |-> "none"]
Idle    == [step |-> "idle"]

Saved(i) == status[i] # "NONE"

Init ==
  /\ status = [i \in Intents |-> "NONE"]
  /\ order = [i \in Intents |-> NoOrder]
  /\ answer = [k \in Keys |-> NoIntent]
  /\ moved = [i \in Intents |-> 0]
  /\ request = [r \in Requests |-> Idle]
  /\ revived = {}

Go(r, next) == request' = [request EXCEPT ![r] = next]

------------------------------------------------------------------------------
(***************************************************************************)
(* POST /orders/preview.                                                   *)
(***************************************************************************)

\* Mutant: the stored answer is not looked up.
AlwaysUnanswered(k) == k \in Keys \cup {NoKey}

\* get_idempotent_response finds nothing, or there is no key to look for.
\* Otherwise the stored answer is returned and nothing happens.
Unanswered(k) == k \in Keys => answer[k] = NoIntent

Preview(r, o, k) ==
  /\ request[r] = Idle
  /\ Unanswered(k)
  /\ Go(r, [step |-> "check", order |-> o, key |-> k])
  /\ UNCHANGED <<rows, moved, revived>>

\* Mutant: only what was filled counts, as if orders awaiting approval were not
\* committed.
FilledNotional ==
  MapThenSumSet(LAMBDA i : order[i].notional,
                {i \in Intents : status[i] = "PAPER_FILLED" /\ order[i].limited})

\* submitted_notional_today: WHERE limit_price IS NOT NULL.
CommittedNotional ==
  MapThenSumSet(LAMBDA i : order[i].notional,
                {i \in Intents : status[i] \in Committed /\ order[i].limited})

\* order_notional or 0.0: without a limit price there is no notional.
Counted(o) == IF o.limited THEN o.notional ELSE 0

\* evaluate_order_risk, with the notional as it is now.  The row is written
\* later.
CheckRisk(r) ==
  /\ request[r].step = "check"
  /\ LET o == request[r].order IN
       Go(r, IF CommittedNotional + Counted(o) <= DailyCap
               THEN [step |-> "save", order |-> o, key |-> request[r].key]
               ELSE Idle)
  /\ UNCHANGED <<rows, moved, revived>>

\* build_order_intent and save_intent, under a fresh id.
SaveIntent(r, i) ==
  /\ request[r].step = "save"
  /\ ~Saved(i)
  /\ LET o == request[r].order
         k == request[r].key IN
       /\ status' = [status EXCEPT ![i] =
                       IF o.mode = "paper" THEN "SIMULATED" ELSE "PENDING_APPROVAL"]
       /\ order' = [order EXCEPT ![i] = o]
       /\ Go(r, IF k = NoKey THEN Idle ELSE [step |-> "answer", intent |-> i, key |-> k])
  /\ UNCHANGED <<answer, moved, revived>>

\* save_idempotent_response: ON CONFLICT DO NOTHING.
StoreAnswer(k, i) == [answer EXCEPT ![k] = IF @ = NoIntent THEN i ELSE @]

SaveAnswer(r) ==
  /\ request[r].step = "answer"
  /\ answer' = StoreAnswer(request[r].key, request[r].intent)
  /\ Go(r, Idle)
  /\ UNCHANGED <<status, order, moved, revived>>

------------------------------------------------------------------------------
(***************************************************************************)
(* POST /orders/submit.  A Paper intent goes to the PaperBroker and on to  *)
(* the ledger; an intent for approval waits.                               *)
(***************************************************************************)

Submit(r, i) ==
  /\ request[r] = Idle
  /\ Saved(i)
  /\ status[i] \notin {"PAPER_FILLED", "PENDING_APPROVAL"}
  /\ Go(r, [step |-> IF order[i].mode = "paper" THEN "fill" ELSE "pend", intent |-> i])
  /\ UNCHANGED <<rows, moved, revived>>

\* Mutant: the ledger forgets the key of a fill it has committed.
NeverFilled(i) == moved[i] >= 0

\* The ledger finds no answer under orders-submit:<intent>.
Unfilled(i) == moved[i] = 0

\* commit_buy_fill or commit_sell_fill: money, intent and key in one
\* transaction.
CommitFill(r) ==
  /\ request[r].step = "fill"
  /\ LET i == request[r].intent IN
       IF Unfilled(i)
         THEN /\ moved' = [moved EXCEPT ![i] = @ + 1]
              /\ status' = [status EXCEPT ![i] = "PAPER_FILLED"]
         ELSE UNCHANGED <<moved, status>>
  /\ Go(r, Idle)
  /\ UNCHANGED <<order, answer, revived>>

\* The receipt of an intent for approval is saved over whatever the row says
\* by now.
SavePending(r) ==
  /\ request[r].step = "pend"
  /\ LET i == request[r].intent IN
       /\ status' = [status EXCEPT ![i] = "PENDING_APPROVAL"]
       /\ revived' = IF status[i] = "REJECTED" THEN revived \cup {i} ELSE revived
  /\ Go(r, Idle)
  /\ UNCHANGED <<order, answer, moved>>

------------------------------------------------------------------------------
(***************************************************************************)
(* POST /orders/{id}/approve and /reject: _resolve_approval.               *)
(***************************************************************************)

\* Mutant: the transition forgets that only an approval-mode intent may be
\* resolved.
AnyMode(i) == order[i].mode \in Modes

Resolvable(i) == order[i].mode = "approval"

\* approve_order_intent, reject_order_intent: what is resolved stays as it is.
Resolution(i, verdict) == IF status[i] = "PENDING_APPROVAL" THEN verdict ELSE status[i]

ReadForApproval(r, i, verdict) ==
  /\ request[r] = Idle
  /\ Saved(i)
  /\ Resolvable(i)
  /\ Go(r, [step |-> "resolve", intent |-> i, status |-> Resolution(i, verdict)])
  /\ UNCHANGED <<rows, moved, revived>>

\* save_intent writes what was read and transformed, whatever happened since.
SaveResolution(r) ==
  /\ request[r].step = "resolve"
  /\ LET i == request[r].intent
         s == request[r].status IN
       /\ status' = [status EXCEPT ![i] = s]
       /\ revived' = IF status[i] = "REJECTED" /\ s # "REJECTED"
                       THEN revived \cup {i} ELSE revived
  /\ Go(r, Idle)
  /\ UNCHANGED <<order, answer, moved>>

------------------------------------------------------------------------------

\* A handler ends early: another objection of the risk gate, an exception (no
\* verified data, a refused fill, a busy database) or a restart of the service.
Abort(r) ==
  /\ request[r] # Idle
  /\ Go(r, Idle)
  /\ UNCHANGED <<rows, moved, revived>>

Handle(r) ==
  \/ \E o \in Orders, k \in Keys \cup {NoKey} : Preview(r, o, k)
  \/ CheckRisk(r)
  \/ \E i \in Intents : SaveIntent(r, i)
  \/ SaveAnswer(r)
  \/ \E i \in Intents : Submit(r, i)
  \/ CommitFill(r)
  \/ SavePending(r)
  \/ \E i \in Intents, verdict \in Verdicts : ReadForApproval(r, i, verdict)
  \/ SaveResolution(r)
  \/ Abort(r)

Next == \E r \in Requests : Handle(r)

Spec == Init /\ [][Next]_vars
------------------------------------------------------------------------------
(***************************************************************************)
(* Properties.                                                             *)
(***************************************************************************)

Steps ==
  {Idle}
    \cup [step : {"check", "save"}, order : Orders, key : Keys \cup {NoKey}]
    \cup [step : {"answer"}, intent : Intents, key : Keys]
    \cup [step : {"fill", "pend"}, intent : Intents]
    \cup [step : {"resolve"}, intent : Intents, status : Statuses]

\* Every column and every handler has a value of its kind, and an intent has
\* an order exactly when it has a row.
TypeOK ==
  /\ status \in [Intents -> Statuses]
  /\ order \in [Intents -> Orders \cup {NoOrder}]
  /\ answer \in [Keys -> Intents \cup {NoIntent}]
  /\ moved \in [Intents -> Nat]
  /\ request \in [Requests -> Steps]
  /\ revived \in SUBSET Intents
  /\ \A i \in Intents : Saved(i) <=> order[i] \in Orders

\* Money and rows agree: an intent is filled in the ledger exactly as often as
\* its row says PAPER_FILLED, once or not at all, and never when it waits for an
\* approver, however many submits, approvals and rejections overlap.
FilledAsRecorded ==
  \A i \in Intents : moved[i] = IF status[i] = "PAPER_FILLED" THEN 1 ELSE 0

\* Handlers that have looked key k up and not finished.
Previewing(k) ==
  {r \in Requests : request[r].step \in {"check", "save"} /\ request[r].key = k}

Settled(k) == answer[k] # NoIntent /\ Previewing(k) = {}

\* Once a key is answered and the previews that were under way have ended, the
\* key is quiet: no retry of it ever begins another preview, which alone creates
\* orders.
AnsweredKeyIsQuiet == [][\A k \in Keys : Settled(k) => Settled(k)']_vars

\* The answer of a key never changes: every replay tells the client the same.
AnswerIsKept ==
  [][\A k \in Keys : answer[k] # NoIntent => answer'[k] = answer[k]]_vars

Largest == CHOOSE n \in Notionals : \A m \in Notionals : m <= n

\* Orders for approval that were never rejected.
ForApproval == {i \in Intents \ revived : status[i] \in Committed /\ order[i].mode = "approval"}

\* What concurrent previews, each of which read the notional before the others
\* wrote theirs, may add to the daily cap: an order for each other handler.
Overshoot == DailyCap + (Cardinality(Requests) - 1) * Largest

\* Those of them that name a limit price pass the cap by no more than that.  The
\* others neither need room under the cap nor take any.
OvershootBounded ==
  MapThenSumSet(LAMBDA i : order[i].notional, {i \in ForApproval : order[i].limited}) <= Overshoot

\* PROJECT_STATUS.md:984-989: serial submissions for approval do not bypass the
\* daily cap.  Limit price or not, those of one handler stay within it.
ApprovalsWithinCap ==
  MapThenSumSet(LAMBDA i : order[i].notional, ForApproval) <= Overshoot

\* An approver's verdict is final: execution.py resolves only what is pending,
\* and "returns it unchanged" otherwise.
ResolutionIsFinal ==
  [][\A i \in Intents : status[i] \in Verdicts => status'[i] = status[i]]_vars

\* The abstract promise: a fill moves money once, in the step that ends the
\* intent's life.
Boundary == INSTANCE IntentBoundary WITH
  state <- [i \in Intents |-> IF status[i] = "NONE" THEN "absent"
                              ELSE IF status[i] = "PAPER_FILLED" THEN "filled" ELSE "open"],
  money <- moved

ImplementsBoundary == Boundary!Spec
==============================================================================
