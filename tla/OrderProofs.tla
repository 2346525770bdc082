----------------------------- MODULE OrderProofs -----------------------------
(***************************************************************************)
(* Proofs about what a user orders: intents and their approval             *)
(* (OrderApproval), for any number of intents, keys, handlers and          *)
(* notionals, and the queue of manual Paper orders (ManualPaperQueue), for *)
(* any keys, requests, quantities and limits.                              *)
(*                                                                         *)
(* OrderApproval: FilledAsRecorded is not inductive: a handler carries an  *)
(* intent from the step that reads it to the step that writes it, so the   *)
(* invariant also says which modes those handlers carry and which statuses *)
(* a mode allows.  OvershootBounded is about a sum, and not inductive      *)
(* either: a check that has passed is an order to come, so the invariant   *)
(* adds to the orders that await approval those that are on their way.     *)
(*                                                                         *)
(* ManualPaperQueue: the pass carries a batch and a verdict from step to   *)
(* step, so the invariant says that the batch is due, that a verdict of    *)
(* PAPER_FILLED tells of a fill under the row's key, and, because the row  *)
(* is chosen by its time, that a batch has an oldest row.                  *)
(***************************************************************************)
EXTENDS OrderApproval, ManualPaperQueue, Totals

------------------------------------------------------------------------------
(***************************************************************************)
(* OrderApproval.                                                           *)
(***************************************************************************)

\* A row's status is one its mode allows.
ModeFitsStatus ==
  \A i \in Intents : Saved(i) =>
    IF order[i].mode = "paper" THEN status[i] \in {"SIMULATED", "PAPER_FILLED"}
    ELSE status[i] \in {"PENDING_APPROVAL", "APPROVED", "REJECTED"}

\* A handler about to write an intent carries one of the right mode, and a
\* status that mode allows.
CarriedFits ==
  \A r \in Requests :
    /\ request[r].step = "fill" =>
         Saved(request[r].intent) /\ order[request[r].intent].mode = "paper"
    /\ request[r].step \in {"pend", "resolve"} =>
         Saved(request[r].intent) /\ order[request[r].intent].mode = "approval"
    /\ request[r].step = "resolve" =>
         request[r].status \in {"PENDING_APPROVAL", "APPROVED", "REJECTED"}

OrderInv == TypeOK /\ FilledAsRecorded /\ ModeFitsStatus /\ CarriedFits

\* The step a handler is at decides which fields its record has.
LEMMA StepFields ==
  ASSUME TypeOK, NEW r \in Requests
  PROVE  /\ request[r].step \in {"check", "save"} =>
              request[r].order \in Orders /\ request[r].key \in Keys \cup {NoKey}
         /\ request[r].step = "answer" => request[r].key \in Keys
         /\ request[r].step \in {"answer", "fill", "pend", "resolve"} =>
              request[r].intent \in Intents
         /\ request[r].step = "resolve" => request[r].status \in Statuses
  BY DEF TypeOK, Steps, Idle

\* No row is an order, and the modes of orders are the two modes.
LEMMA OrderFields ==
  /\ NoOrder \notin Orders
  /\ \A o \in Orders : o.mode \in {"paper", "approval"}
<1>1. \A o \in Orders : o.mode \in {"paper", "approval"}
  BY DEF Orders, Modes
<1>2. NoOrder.mode = "none"
  BY DEF NoOrder
<1> QED
  BY <1>1, <1>2

\* An empty store satisfies the invariant.
LEMMA InitOrder == Init => OrderInv
<1> SUFFICES ASSUME Init PROVE OrderInv
  OBVIOUS
<1>1. TypeOK
  BY OrderFields DEF Init, TypeOK, Saved, Steps, Statuses
<1>2. FilledAsRecorded /\ ModeFitsStatus
  BY DEF Init, FilledAsRecorded, ModeFitsStatus, Saved
<1>3. CarriedFits
  BY DEF Init, CarriedFits, Idle
<1> QED
  BY <1>1, <1>2, <1>3 DEF OrderInv

\* A handler that only takes note of what it read changes no row; what it
\* carries must fit.
LEMMA NoteKeepsOrder ==
  ASSUME OrderInv, NEW r \in Requests, NEW next \in Steps, Go(r, next),
         UNCHANGED <<rows, moved, revived>>,
         next.step = "fill" => Saved(next.intent) /\ order[next.intent].mode = "paper",
         next.step \in {"pend", "resolve"} =>
           Saved(next.intent) /\ order[next.intent].mode = "approval",
         next.step = "resolve" => next.status \in {"PENDING_APPROVAL", "APPROVED", "REJECTED"}
  PROVE  OrderInv'
<1>1. TypeOK'
  BY DEF OrderInv, TypeOK, Go, rows, Saved
<1>2. FilledAsRecorded' /\ ModeFitsStatus'
  BY DEF OrderInv, FilledAsRecorded, ModeFitsStatus, Saved, rows
<1>3. CarriedFits'
  <2>1. \A s \in Requests : request'[s] = IF s = r THEN next ELSE request[s]
    BY DEF OrderInv, TypeOK, Go
  <2> QED
    BY <2>1 DEF OrderInv, CarriedFits, Saved, rows
<1> QED
  BY <1>1, <1>2, <1>3 DEF OrderInv

\* A new row is simulated or pending, and nothing has moved for it.
LEMMA SaveKeepsOrder ==
  ASSUME OrderInv, NEW r \in Requests, NEW i \in Intents, SaveIntent(r, i)
  PROVE  OrderInv'
<1> DEFINE o == request[r].order
           k == request[r].key
           next == IF k = NoKey THEN Idle ELSE [step |-> "answer", intent |-> i, key |-> k]
<1>1. o \in Orders /\ o.mode \in {"paper", "approval"} /\ k \in Keys \cup {NoKey}
  BY StepFields, OrderFields DEF SaveIntent, OrderInv
<1>2. /\ ~Saved(i)
      /\ status' = [status EXCEPT ![i] = IF o.mode = "paper" THEN "SIMULATED"
                                         ELSE "PENDING_APPROVAL"]
      /\ order' = [order EXCEPT ![i] = o]
      /\ request' = [request EXCEPT ![r] = next]
      /\ UNCHANGED <<answer, moved, revived>>
  BY DEF SaveIntent, Go
<1>3. next \in Steps /\ next.step \in {"idle", "answer"}
  BY <1>1 DEF Steps, Idle
<1> HIDE DEF o, k, next
<1>4. TypeOK'
  BY <1>1, <1>2, <1>3 DEF OrderInv, TypeOK, Saved, Statuses, Committed
<1>5. FilledAsRecorded'
  BY <1>2 DEF OrderInv, TypeOK, FilledAsRecorded, Saved
<1>6. ModeFitsStatus'
  BY <1>1, <1>2 DEF OrderInv, TypeOK, ModeFitsStatus, Saved
<1>7. CarriedFits'
  <2>1. \A s \in Requests : request'[s] = IF s = r THEN next ELSE request[s]
    BY <1>2 DEF OrderInv, TypeOK
  <2>2. \A j \in Intents : Saved(j) => Saved(j)' /\ order'[j] = order[j]
    BY <1>1, <1>2 DEF OrderInv, TypeOK, Saved
  <2>3. \A s \in Requests :
          request[s].step \in {"fill", "pend", "resolve"} => request[s].intent \in Intents
    BY StepFields DEF OrderInv
  <2> QED
    BY <1>3, <2>1, <2>2, <2>3 DEF OrderInv, CarriedFits
<1> QED
  BY <1>4, <1>5, <1>6, <1>7 DEF OrderInv

\* Writing the status of a row that is saved keeps the invariant when the
\* status fits the mode and the money follows.
LEMMA WriteKeepsOrder ==
  ASSUME OrderInv, NEW r \in Requests, NEW i \in Intents, NEW s \in Statuses,
         Saved(i), s # "NONE", Go(r, Idle),
         status' = [status EXCEPT ![i] = s],
         UNCHANGED <<order, answer>>,
         revived' \in SUBSET Intents,
         order[i].mode = "paper" => s \in {"SIMULATED", "PAPER_FILLED"},
         order[i].mode # "paper" => s \in {"PENDING_APPROVAL", "APPROVED", "REJECTED"},
         moved' = [moved EXCEPT ![i] = IF s = "PAPER_FILLED" THEN 1 ELSE 0]
  PROVE  OrderInv'
<1>1. TypeOK'
  BY DEF OrderInv, TypeOK, Saved, Go, Steps
<1>2. FilledAsRecorded'
  BY DEF OrderInv, TypeOK, FilledAsRecorded
<1>3. ModeFitsStatus'
  BY DEF OrderInv, TypeOK, ModeFitsStatus, Saved
<1>4. CarriedFits'
  <2>1. \A q \in Requests : request'[q] = IF q = r THEN Idle ELSE request[q]
    BY DEF OrderInv, TypeOK, Go
  <2>2. \A j \in Intents : Saved(j) => Saved(j)'
    BY DEF OrderInv, TypeOK, Saved
  <2>3. \A q \in Requests :
          request[q].step \in {"fill", "pend", "resolve"} => request[q].intent \in Intents
    BY StepFields DEF OrderInv
  <2> QED
    BY <2>1, <2>2, <2>3 DEF OrderInv, CarriedFits, Idle
<1> QED
  BY <1>1, <1>2, <1>3, <1>4 DEF OrderInv

\* A fill is committed once and marks its row; a replay changes nothing.
LEMMA FillKeepsOrder ==
  ASSUME OrderInv, NEW r \in Requests, CommitFill(r)
  PROVE  OrderInv'
<1> DEFINE i == request[r].intent
<1>1. i \in Intents /\ Saved(i) /\ order[i].mode = "paper"
  BY StepFields DEF CommitFill, OrderInv, CarriedFits
<1>2. CASE Unfilled(i)
  <2>1. moved' = [moved EXCEPT ![i] = 1]
    BY <1>1, <1>2 DEF CommitFill, Unfilled, OrderInv, TypeOK
  <2>2. status' = [status EXCEPT ![i] = "PAPER_FILLED"]
    BY <1>2 DEF CommitFill
  <2>3. Go(r, Idle) /\ UNCHANGED <<order, answer, revived>>
    BY DEF CommitFill
  <2>4. "PAPER_FILLED" \in Statuses /\ revived' \in SUBSET Intents
    BY <2>3 DEF Statuses, Committed, OrderInv, TypeOK
  <2> HIDE DEF i
  <2> QED
    BY <1>1, <2>1, <2>2, <2>3, <2>4, WriteKeepsOrder
<1>3. CASE ~Unfilled(i)
  <2>1. Go(r, Idle) /\ UNCHANGED <<rows, moved, revived>>
    BY <1>3 DEF CommitFill, rows
  <2> QED
    BY <2>1, NoteKeepsOrder DEF Steps, Idle
<1> QED
  BY <1>2, <1>3

\* What is saved for an intent for approval fits it, and no money moves.
LEMMA ApprovalKeepsOrder ==
  ASSUME OrderInv, NEW r \in Requests, SavePending(r) \/ SaveResolution(r)
  PROVE  OrderInv'
<1> DEFINE i == request[r].intent
           s == IF SavePending(r) THEN "PENDING_APPROVAL" ELSE request[r].status
<1>1. i \in Intents /\ Saved(i) /\ order[i].mode = "approval"
  BY StepFields DEF SavePending, SaveResolution, OrderInv, CarriedFits
<1>2. s \in {"PENDING_APPROVAL", "APPROVED", "REJECTED"}
  BY DEF SavePending, SaveResolution, OrderInv, CarriedFits
<1>3. /\ status' = [status EXCEPT ![i] = s]
      /\ Go(r, Idle)
      /\ UNCHANGED <<order, answer, moved>>
      /\ revived' \in SUBSET Intents
  BY <1>1 DEF SavePending, SaveResolution, OrderInv, TypeOK
<1>4. moved' = [moved EXCEPT ![i] = 0]
  <2>1. moved[i] = 0 /\ moved \in [Intents -> Nat]
    BY <1>1, OrderFields DEF OrderInv, TypeOK, FilledAsRecorded, ModeFitsStatus
  <2> QED
    BY <1>1, <1>3, <2>1
<1>5. s \in Statuses /\ s # "NONE" /\ s # "PAPER_FILLED"
  BY <1>2 DEF Statuses, Committed
<1> HIDE DEF i, s
<1> QED
  BY <1>1, <1>2, <1>3, <1>4, <1>5, WriteKeepsOrder

\* A resolution only ever carries a status an intent for approval may have.
LEMMA ResolutionFits ==
  ASSUME OrderInv, NEW i \in Intents, NEW ruling \in Verdicts, Saved(i), Resolvable(i)
  PROVE  Resolution(i, ruling) \in {"PENDING_APPROVAL", "APPROVED", "REJECTED"}
  BY DEF OrderInv, ModeFitsStatus, Resolution, Resolvable, Verdicts

\* Every handler's step keeps the invariant.
LEMMA HandleKeepsOrder ==
  ASSUME OrderInv, NEW r \in Requests, Handle(r)
  PROVE  OrderInv'
<1>1. CASE \E o \in Orders, k \in Keys \cup {NoKey} : Preview(r, o, k)
  <2>1. PICK o \in Orders, k \in Keys \cup {NoKey} : Preview(r, o, k)
    BY <1>1
  <2>2. [step |-> "check", order |-> o, key |-> k] \in Steps
    BY DEF Steps
  <2> QED
    BY <2>1, <2>2, NoteKeepsOrder DEF Preview
<1>2. CASE CheckRisk(r)
  <2> DEFINE o == request[r].order
             k == request[r].key
             next == IF CommittedNotional + Counted(o) <= DailyCap
                       THEN [step |-> "save", order |-> o, key |-> k] ELSE Idle
  <2>1. o \in Orders /\ k \in Keys \cup {NoKey}
    BY <1>2, StepFields DEF CheckRisk, OrderInv
  <2>2. next \in Steps /\ next.step \in {"save", "idle"}
    BY <2>1 DEF Steps, Idle
  <2>3. Go(r, next) /\ UNCHANGED <<rows, moved, revived>>
    BY <1>2 DEF CheckRisk
  <2> HIDE DEF next
  <2> QED
    BY <2>2, <2>3, NoteKeepsOrder
<1>3. CASE \E i \in Intents : SaveIntent(r, i)
  BY <1>3, SaveKeepsOrder
<1>4. CASE SaveAnswer(r)
  <2>1. request[r].key \in Keys /\ request[r].intent \in Intents
    BY <1>4, StepFields DEF SaveAnswer, OrderInv
  <2>2. answer' \in [Keys -> Intents \cup {NoIntent}]
    BY <1>4, <2>1 DEF SaveAnswer, StoreAnswer, OrderInv, TypeOK
  <2>3. TypeOK'
    BY <1>4, <2>2 DEF SaveAnswer, OrderInv, TypeOK, Go, Steps, Saved
  <2>4. FilledAsRecorded' /\ ModeFitsStatus'
    BY <1>4 DEF SaveAnswer, OrderInv, FilledAsRecorded, ModeFitsStatus, Saved
  <2>5. CarriedFits'
    BY <1>4 DEF SaveAnswer, OrderInv, TypeOK, CarriedFits, Go, Idle, Saved
  <2> QED
    BY <2>3, <2>4, <2>5 DEF OrderInv
<1>5. CASE \E i \in Intents : Submit(r, i)
  <2>1. PICK i \in Intents : Submit(r, i)
    BY <1>5
  <2> DEFINE next == [step |-> IF order[i].mode = "paper" THEN "fill" ELSE "pend",
                      intent |-> i]
  <2>2. order[i].mode \in {"paper", "approval"}
    BY <2>1, OrderFields DEF Submit, OrderInv, TypeOK
  <2>3. /\ next \in Steps
        /\ next.intent = i
        /\ next.step \in {"fill", "pend"}
        /\ next.step = "fill" <=> order[i].mode = "paper"
    BY DEF Steps
  <2>4. Go(r, next) /\ UNCHANGED <<rows, moved, revived>> /\ Saved(i)
    BY <2>1 DEF Submit
  <2> HIDE DEF next
  <2> QED
    BY <2>2, <2>3, <2>4, NoteKeepsOrder
<1>6. CASE CommitFill(r)
  BY <1>6, FillKeepsOrder
<1>7. CASE SavePending(r) \/ SaveResolution(r)
  BY <1>7, ApprovalKeepsOrder
<1>8. CASE \E i \in Intents, ruling \in Verdicts : ReadForApproval(r, i, ruling)
  <2>1. PICK i \in Intents, ruling \in Verdicts : ReadForApproval(r, i, ruling)
    BY <1>8
  <2> DEFINE next == [step |-> "resolve", intent |-> i, status |-> Resolution(i, ruling)]
  <2>2. Resolution(i, ruling) \in {"PENDING_APPROVAL", "APPROVED", "REJECTED"}
    BY <2>1, ResolutionFits DEF ReadForApproval
  <2>3. /\ next \in Steps
        /\ next.step = "resolve"
        /\ next.intent = i
        /\ next.status \in {"PENDING_APPROVAL", "APPROVED", "REJECTED"}
    BY <2>2 DEF Steps, Statuses, Committed
  <2>4. /\ Go(r, next) /\ UNCHANGED <<rows, moved, revived>>
        /\ Saved(i) /\ order[i].mode = "approval"
    BY <2>1 DEF ReadForApproval, Resolvable
  <2> HIDE DEF next
  <2> QED
    BY <2>3, <2>4, NoteKeepsOrder
<1>9. CASE Abort(r)
  BY <1>9, NoteKeepsOrder DEF Abort, Steps, Idle
<1> QED
  BY <1>1, <1>2, <1>3, <1>4, <1>5, <1>6, <1>7, <1>8, <1>9 DEF Handle

\* The invariant holds in every reachable state.
THEOREM OrderInvariant == Spec => []OrderInv
<1>1. OrderInv /\ [Next]_vars => OrderInv'
  <2> SUFFICES ASSUME OrderInv, [Next]_vars PROVE OrderInv'
    OBVIOUS
  <2>1. CASE Next
    BY <2>1, HandleKeepsOrder DEF Next
  <2>2. CASE UNCHANGED vars
    BY <2>2 DEF vars, OrderInv, TypeOK, FilledAsRecorded, ModeFitsStatus, CarriedFits, Saved
  <2> QED
    BY <2>1, <2>2
<1> QED
  BY InitOrder, <1>1, PTL DEF Spec

\* Type correctness of the store and of every handler.
THEOREM OrderTyped == Spec => []TypeOK
<1>1. OrderInv => TypeOK
  BY DEF OrderInv
<1> QED
  BY OrderInvariant, <1>1, PTL

\* The ledger has filled an intent exactly as often as its row says, whatever
\* submits, approvals and rejections overlap.
THEOREM FilledOnceAndRecorded == Spec => []FilledAsRecorded
<1>1. OrderInv => FilledAsRecorded
  BY DEF OrderInv
<1> QED
  BY OrderInvariant, <1>1, PTL

\* Rows are never taken away, and only a preview that saves adds one.
LEMMA RowsOnlyGrow ==
  ASSUME OrderInv, NEW r \in Requests, Handle(r), NEW i \in Intents
  PROVE  /\ Saved(i) => Saved(i)' /\ order'[i] = order[i]
         /\ Saved(i)' /\ ~Saved(i) => SaveIntent(r, i) /\ order'[i] = request[r].order
<1>1. CASE \E j \in Intents : SaveIntent(r, j)
  <2>1. PICK j \in Intents : SaveIntent(r, j)
    BY <1>1
  <2>2. CASE i = j
    BY <2>1, <2>2 DEF SaveIntent, Saved, OrderInv, TypeOK
  <2>3. CASE i # j
    BY <2>1, <2>3 DEF SaveIntent, Saved, OrderInv, TypeOK
  <2> QED
    BY <2>2, <2>3
<1>2. CASE CommitFill(r) \/ SavePending(r) \/ SaveResolution(r)
  <2> DEFINE j == request[r].intent
  <2>1. j \in Intents /\ Saved(j) /\ UNCHANGED order
    BY <1>2, StepFields DEF CommitFill, SavePending, SaveResolution, OrderInv, CarriedFits
  <2>2. UNCHANGED status \/ \E s \in Statuses \ {"NONE"} : status' = [status EXCEPT ![j] = s]
    BY <1>2
    DEF CommitFill, SavePending, SaveResolution, OrderInv, CarriedFits, Statuses, Committed
  <2> QED
    BY <2>1, <2>2 DEF Saved, OrderInv, TypeOK
<1>3. CASE ~(CommitFill(r) \/ SavePending(r) \/ SaveResolution(r)
             \/ \E j \in Intents : SaveIntent(r, j))
  <2>1. UNCHANGED <<status, order>>
    BY <1>3 DEF Handle, Preview, CheckRisk, SaveAnswer, Submit, ReadForApproval, Abort, rows
  <2> QED
    BY <2>1 DEF Saved
<1> QED
  BY <1>1, <1>2, <1>3

\* A stored answer stays; no look-up of its key begins a preview.
LEMMA AnswerStays ==
  ASSUME OrderInv, NEW r \in Requests, Handle(r), NEW k \in Keys, answer[k] # NoIntent
  PROVE  answer'[k] = answer[k]
<1>1. CASE SaveAnswer(r)
  BY <1>1 DEF SaveAnswer, StoreAnswer, OrderInv, TypeOK
<1>2. CASE ~SaveAnswer(r)
  BY <1>2 DEF Handle, Preview, CheckRisk, SaveIntent, Submit, CommitFill, SavePending,
     ReadForApproval, SaveResolution, Abort, rows
<1> QED
  BY <1>1, <1>2

\* The stored answer of a preview never changes.
THEOREM AnswerKept == Spec => AnswerIsKept
<1>1. OrderInv /\ [Next]_vars =>
        [\A k \in Keys : answer[k] # NoIntent => answer'[k] = answer[k]]_vars
  BY AnswerStays DEF Next
<1> QED
  BY OrderInvariant, <1>1, PTL DEF Spec, AnswerIsKept

\* A settled key has no preview under way, and none begins.
LEMMA NobodyPreviews ==
  ASSUME OrderInv, NEW r \in Requests, Handle(r), NEW k \in Keys, Settled(k)
  PROVE  Previewing(k)' = {}
<1>1. \A s \in Requests : ~(request[s].step \in {"check", "save"} /\ request[s].key = k)
  BY DEF Settled, Previewing
<1>2. \A s \in Requests : s # r => request'[s] = request[s]
  BY DEF Handle, Preview, CheckRisk, SaveIntent, SaveAnswer, Submit, CommitFill, SavePending,
     ReadForApproval, SaveResolution, Abort, Go, OrderInv, TypeOK
<1>3. ~(request'[r].step \in {"check", "save"} /\ request'[r].key = k)
  <2>1. CASE \E o \in Orders, j \in Keys \cup {NoKey} : Preview(r, o, j)
    BY <2>1 DEF Preview, Unanswered, Go, Settled, OrderInv, TypeOK
  <2>2. CASE CheckRisk(r)
    BY <1>1, <2>2 DEF CheckRisk, Go, Idle, OrderInv, TypeOK
  <2>3. CASE ~CheckRisk(r) /\ ~\E o \in Orders, j \in Keys \cup {NoKey} : Preview(r, o, j)
    BY <2>3 DEF Handle, SaveIntent, SaveAnswer, Submit, CommitFill, SavePending,
       ReadForApproval, SaveResolution, Abort, Go, Idle, OrderInv, TypeOK
  <2> QED
    BY <2>1, <2>2, <2>3
<1>4. \A s \in Requests :
        ~(request'[s].step \in {"check", "save"} /\ request'[s].key = k)
  BY <1>1, <1>2, <1>3
<1> QED
  BY <1>4 DEF Previewing

\* Once a key is answered and its previews have ended, no retry of it begins
\* another preview.
THEOREM AnsweredKeysAreQuiet == Spec => AnsweredKeyIsQuiet
<1>1. OrderInv /\ [Next]_vars => [\A k \in Keys : Settled(k) => Settled(k)']_vars
  <2> SUFFICES ASSUME OrderInv, Next, NEW k \in Keys, Settled(k)
               PROVE  Settled(k)'
    OBVIOUS
  <2>1. PICK r \in Requests : Handle(r)
    BY DEF Next
  <2> QED
    BY <2>1, AnswerStays, NobodyPreviews DEF Settled
<1> QED
  BY OrderInvariant, <1>1, PTL DEF Spec, AnsweredKeyIsQuiet

\* An order for approval that names a limit price and was never rejected, and
\* its notional.
Live(i) ==
  /\ i \notin revived /\ status[i] \in Committed
  /\ order[i].mode = "approval" /\ order[i].limited

Awaiting == [i \in Intents |-> IF Live(i) THEN order[i].notional ELSE 0]

\* A handler that has checked the risk of one and will save it.
Saving(r) ==
  /\ request[r].step = "save"
  /\ request[r].order.mode = "approval" /\ request[r].order.limited

Coming == [r \in Requests |-> IF Saving(r) THEN request[r].order.notional ELSE 0]

\* What awaits approval and what is on its way to it pass the cap by at most
\* one order for each handler but one: the check that let the last of them
\* through had room for it.
WithinOvershoot ==
  Total(Awaiting, Intents) + Total(Coming, Requests) <= Overshoot

\* There is a largest notional.
LEMMA LargestNotional ==
  /\ Largest \in Nat
  /\ \A o \in Orders : o.notional \in Nat /\ o.notional <= Largest
<1>1. Largest \in Notionals /\ \A m \in Notionals : m <= Largest
  BY OrderAssumption DEF OrderAssumption, Largest
<1> QED
  BY <1>1, OrderAssumption DEF OrderAssumption, Orders

\* The bound is a number.
LEMMA OvershootTyped == Overshoot \in Nat
<1>1. IsFiniteSet(Requests) /\ Requests # {} /\ DailyCap \in Nat
  BY OrderAssumption DEF OrderAssumption
<1>2. Cardinality(Requests) - 1 \in Nat
  BY <1>1, FS_EmptySet, FS_CardinalityType
<1>3. (Cardinality(Requests) - 1) * Largest \in Nat
  BY <1>2, LargestNotional
<1> QED
  BY <1>1, <1>3 DEF Overshoot

\* Summands and totals are numbers.
LEMMA SummandsTyped ==
  ASSUME TypeOK
  PROVE  /\ \A i \in Intents : Awaiting[i] \in Nat
         /\ \A r \in Requests : Coming[r] \in Nat /\ Coming[r] <= Largest
         /\ Total(Awaiting, Intents) \in Int
         /\ Total(Coming, Requests) \in Int
<1>1. \A i \in Intents : Live(i) => order[i] \in Orders
  BY DEF TypeOK, Live, Saved, Committed
<1>2. \A i \in Intents : Awaiting[i] \in Nat
  BY <1>1, LargestNotional DEF Awaiting
<1>3. \A r \in Requests : Saving(r) => request[r].order \in Orders
  BY StepFields DEF Saving
<1>4. \A r \in Requests : Coming[r] \in Nat /\ Coming[r] <= Largest
  BY <1>3, LargestNotional DEF Coming
<1>5. IsFiniteSet(Intents) /\ IsFiniteSet(Requests)
  BY OrderAssumption DEF OrderAssumption
<1>6. (\A i \in Intents : Awaiting[i] \in Int) /\ (\A r \in Requests : Coming[r] \in Int)
  BY <1>2, <1>4
<1> QED
  BY <1>2, <1>4, <1>5, <1>6, TotalOf

\* The sums of the model are totals.
Notional == [i \in Intents |-> order[i].notional]

LEMMA NotionalTotal ==
  ASSUME NEW A \in SUBSET Intents
  PROVE  MapThenSumSet(LAMBDA i : order[i].notional, A) = Total(Notional, A)
  BY ZenonT(40) DEF Total, Notional, MapThenSumSet, MapThenFoldSet

\* OvershootBounded is about the total of Awaiting, which is part of what the
\* risk check counts.
LEMMA AwaitingTotal ==
  ASSUME TypeOK
  PROVE  /\ OvershootBounded <=>
              Total(Awaiting, Intents) <= Overshoot
         /\ CommittedNotional \in Int
         /\ Total(Awaiting, Intents) <= CommittedNotional
<1> DEFINE A == {i \in ForApproval : order[i].limited}
           C == {i \in Intents : status[i] \in Committed /\ order[i].limited}
           v == [i \in Intents |-> IF i \in C THEN order[i].notional ELSE 0]
<1>1. A \in SUBSET Intents /\ C \in SUBSET Intents
  BY DEF ForApproval
<1>2. MapThenSumSet(LAMBDA i : order[i].notional, A) = Total(Notional, A)
  BY <1>1, NotionalTotal
<1>3. MapThenSumSet(LAMBDA i : order[i].notional, C) = Total(Notional, C)
  BY NotionalTotal
<1>4. IsFiniteSet(Intents)
  BY OrderAssumption DEF OrderAssumption
<1>5. \A i \in Intents : Awaiting[i] \in Int /\ Awaiting[i] = IF i \in A THEN Notional[i] ELSE 0
  BY SummandsTyped DEF Awaiting, Live, Notional, ForApproval
<1>6. \A i \in C : order[i] \in Orders
  BY DEF TypeOK, Saved, Committed
<1>7. \A i \in Intents : v[i] \in Int /\ v[i] = IF i \in C THEN Notional[i] ELSE 0
  BY <1>6, LargestNotional DEF Notional
<1>8. \A i \in Intents : Awaiting[i] <= v[i]
  BY <1>6, LargestNotional DEF Awaiting, Live
<1>9. OvershootBounded <=>
        MapThenSumSet(LAMBDA i : order[i].notional, A) <= Overshoot
  BY DEF OvershootBounded
<1>10. CommittedNotional = MapThenSumSet(LAMBDA i : order[i].notional, C)
  BY DEF CommittedNotional
<1> HIDE DEF A, C, v
<1>11. Total(Notional, A) = Total(Awaiting, Intents)
  BY <1>1, <1>4, <1>5, TotalPart
<1>12. Total(Notional, C) = Total(v, Intents)
  BY <1>1, <1>4, <1>7, TotalPart
<1>13. Total(v, Intents) \in Int
  BY <1>4, <1>7, TotalOf
<1>14. Total(Awaiting, Intents) <= Total(v, Intents)
  BY <1>4, <1>5, <1>7, <1>8, TotalGrows
<1> QED
  BY <1>2, <1>3, <1>9, <1>10, <1>11, <1>12, <1>13, <1>14

OvershootInv == OrderInv /\ WithinOvershoot

\* No handler carries an order before it has checked its risk.
LEMMA InitOvershoot == Init => WithinOvershoot
<1> SUFFICES ASSUME Init
             PROVE  WithinOvershoot
  OBVIOUS
<1>1. IsFiniteSet(Intents) /\ IsFiniteSet(Requests) /\ Requests # {} /\ DailyCap \in Nat
  BY OrderAssumption DEF OrderAssumption
<1>2. (\A i \in Intents : Awaiting[i] = 0) /\ (\A r \in Requests : Coming[r] = 0)
  BY DEF Init, Awaiting, Coming, Live, Saving, Idle, Committed
<1>3. Total(Awaiting, Intents) = 0 /\ Total(Coming, Requests) = 0
  BY <1>1, <1>2, TotalZero
<1> QED
  BY <1>3, OvershootTyped DEF WithinOvershoot

\* The summands are numbers after a step, too.
LEMMA SummandsTypedNext ==
  ASSUME TypeOK'
  PROVE  /\ \A i \in Intents : Awaiting'[i] \in Nat
         /\ \A r \in Requests : Coming'[r] \in Nat /\ Coming'[r] <= Largest
         /\ Total(Awaiting', Intents) \in Int
         /\ Total(Coming', Requests) \in Int
<1>1. (TypeOK => /\ \A i \in Intents : Awaiting[i] \in Nat
                 /\ \A r \in Requests : Coming[r] \in Nat /\ Coming[r] <= Largest
                 /\ Total(Awaiting, Intents) \in Int
                 /\ Total(Coming, Requests) \in Int)'
  BY SummandsTyped, PTL
<1> QED
  BY <1>1

\* A step that raises no summand keeps the bound.
LEMMA LessKeepsBound ==
  ASSUME OvershootInv, TypeOK',
         \A i \in Intents : Awaiting'[i] <= Awaiting[i],
         \A r \in Requests : Coming'[r] <= Coming[r]
  PROVE  WithinOvershoot'
<1> DEFINE a == Awaiting
           c == Coming
           aa == Awaiting'
           cc == Coming'
           bound == Overshoot
<1>1. IsFiniteSet(Intents) /\ IsFiniteSet(Requests)
  BY OrderAssumption DEF OrderAssumption
<1>2. Total(a, Intents) + Total(c, Requests) <= bound
  BY DEF OvershootInv, WithinOvershoot
<1>3. /\ \A i \in Intents : a[i] \in Int /\ aa[i] \in Int /\ aa[i] <= a[i]
      /\ \A r \in Requests : c[r] \in Int /\ cc[r] \in Int /\ cc[r] <= c[r]
      /\ Total(a, Intents) \in Int /\ Total(c, Requests) \in Int
      /\ Total(aa, Intents) \in Int /\ Total(cc, Requests) \in Int
  BY SummandsTyped, SummandsTypedNext DEF OvershootInv, OrderInv
<1>4. Total(aa, Intents) + Total(cc, Requests) <= bound => WithinOvershoot'
  BY DEF WithinOvershoot
<1>5. bound \in Int
  BY OvershootTyped
<1> HIDE DEF a, c, aa, cc, bound
<1>6. Total(aa, Intents) <= Total(a, Intents) /\ Total(cc, Requests) <= Total(c, Requests)
  BY <1>1, <1>3, TotalGrows
<1> QED
  BY <1>2, <1>3, <1>4, <1>5, <1>6

\* A check lets an order through that has room beside what is committed, and
\* each of the other handlers brings at most one more.
LEMMA CheckKeepsBound ==
  ASSUME OvershootInv, TypeOK', NEW r \in Requests, CheckRisk(r)
  PROVE  WithinOvershoot'
<1> DEFINE o == request[r].order
           aa == Awaiting'
           cc == Coming'
           n == Cardinality(Requests)
           R == Requests \ {r}
<1>1. IsFiniteSet(Requests) /\ IsFiniteSet(R) /\ Cardinality(R) = n - 1 /\ n \in Nat
  BY OrderAssumption, FS_RemoveElement, FS_CardinalityType, FS_Subset DEF OrderAssumption
<1>2. o \in Orders /\ o.notional \in Nat /\ DailyCap \in Nat /\ Largest \in Nat
  BY StepFields, LargestNotional, OrderAssumption
  DEF CheckRisk, OvershootInv, OrderInv, OrderAssumption
<1>3. aa = Awaiting
  BY DEF CheckRisk, rows, Awaiting, Live
<1>4. \A s \in R : request'[s] = request[s]
  BY DEF CheckRisk, Go, OvershootInv, OrderInv, TypeOK
<1>5. \A s \in R : cc[s] = Coming[s]
  BY <1>4 DEF Coming, Saving
<1>6. request'[r] = IF CommittedNotional + Counted(o) <= DailyCap
                      THEN [step |-> "save", order |-> o, key |-> request[r].key]
                      ELSE Idle
  BY DEF CheckRisk, Go, OvershootInv, OrderInv, TypeOK
<1>7. CASE cc[r] <= Coming[r]
  <2>1. \A s \in Requests : cc[s] <= Coming[s]
    BY <1>5, <1>7, SummandsTyped DEF OvershootInv, OrderInv
  <2>2. \A i \in Intents : aa[i] <= Awaiting[i]
    BY <1>3, SummandsTyped DEF OvershootInv, OrderInv
  <2> QED
    BY <2>1, <2>2, LessKeepsBound
<1>8. CASE ~(cc[r] <= Coming[r])
  <2>1. cc[r] # 0
    BY <1>8, SummandsTyped DEF OvershootInv, OrderInv
  <2>2. cc[r] = o.notional /\ CommittedNotional + o.notional <= DailyCap
    BY <1>6, <2>1 DEF Coming, Saving, Counted, Idle
  <2>3. /\ Total(Awaiting, Intents) <= CommittedNotional
        /\ CommittedNotional \in Int /\ Total(Awaiting, Intents) \in Int
    BY AwaitingTotal, SummandsTyped DEF OvershootInv, OrderInv
  <2>4. /\ \A s \in Requests : cc[s] \in Int /\ cc[s] <= Largest
        /\ Total(cc, Requests) \in Int
    BY SummandsTypedNext
  <2>5. Total(aa, Intents) + Total(cc, Requests) <= DailyCap + (n - 1) * Largest
          => WithinOvershoot'
    BY DEF WithinOvershoot, Overshoot
  <2> HIDE DEF aa, cc, o, n, R
  <2>6. Total(cc, Requests) = cc[r] + Total(cc, R)
    BY <1>1, <2>4, TotalOf DEF R
  <2>7. \A s \in R : cc[s] \in Int /\ cc[s] <= Largest
    BY <2>4 DEF R
  <2>8. Total(cc, R) <= (n - 1) * Largest /\ Total(cc, R) \in Int
    <3>1. Largest \in Int
      BY <1>2
    <3>2. Total(cc, R) <= Cardinality(R) * Largest
      BY <1>1, <2>7, <3>1, TotalAtMost
    <3>3. Total(cc, R) \in Int
      BY <1>1, <2>7, TotalOf
    <3> QED
      BY <1>1, <3>2, <3>3
  <2>9. (n - 1) * Largest \in Int
    BY <1>1, <1>2
  <2>10. Total(aa, Intents) = Total(Awaiting, Intents)
    BY <1>3
  <2> QED
    BY <1>2, <2>2, <2>3, <2>5, <2>6, <2>8, <2>9, <2>10
<1> QED
  BY <1>7, <1>8

\* A preview that saves brings to the rows what it was about to bring.
LEMMA SaveKeepsBound ==
  ASSUME OvershootInv, TypeOK', NEW r \in Requests, NEW i \in Intents, SaveIntent(r, i)
  PROVE  WithinOvershoot'
<1> DEFINE o == request[r].order
           a == Awaiting
           c == Coming
           aa == Awaiting'
           cc == Coming'
           bound == Overshoot
<1>1. IsFiniteSet(Intents) /\ IsFiniteSet(Requests)
  BY OrderAssumption DEF OrderAssumption
<1>2. Total(a, Intents) + Total(c, Requests) <= bound
  BY DEF OvershootInv, WithinOvershoot
<1>3. /\ \A j \in Intents : a[j] \in Int /\ aa[j] \in Int
      /\ \A s \in Requests : c[s] \in Int /\ cc[s] \in Int
      /\ Total(a, Intents) \in Int /\ Total(c, Requests) \in Int
  BY SummandsTyped, SummandsTypedNext DEF OvershootInv, OrderInv
<1>4. Total(aa, Intents) + Total(cc, Requests) <= bound => WithinOvershoot'
  BY DEF WithinOvershoot
<1>5. bound \in Int
  BY OvershootTyped
<1>6. o \in Orders /\ o.notional \in Nat
  BY StepFields, LargestNotional DEF SaveIntent, OvershootInv, OrderInv
<1>7. a[i] = 0 /\ \A j \in Intents : j # i => aa[j] = a[j]
  BY DEF SaveIntent, Saved, Awaiting, Live, Committed, OvershootInv, OrderInv, TypeOK
<1>8. cc[r] = 0 /\ \A s \in Requests : s # r => cc[s] = c[s]
  BY DEF SaveIntent, Go, Coming, Saving, Idle, OvershootInv, OrderInv, TypeOK
<1>9. aa[i] <= c[r]
  <2>1. c[r] = IF o.mode = "approval" /\ o.limited THEN o.notional ELSE 0
    BY DEF SaveIntent, Coming, Saving
  <2>2. order'[i] = o
    BY DEF SaveIntent, OvershootInv, OrderInv, TypeOK
  <2>3. aa[i] = 0 \/ (/\ order'[i].mode = "approval" /\ order'[i].limited
                      /\ aa[i] = order'[i].notional)
    BY DEF Awaiting, Live
  <2> QED
    BY <1>6, <2>1, <2>2, <2>3
<1> HIDE DEF a, c, aa, cc, bound, o
<1>10. Total(aa, Intents) = Total(a, Intents) + (aa[i] - a[i])
  BY <1>1, <1>3, <1>7, TotalChanges
<1>11. Total(cc, Requests) = Total(c, Requests) + (cc[r] - c[r])
  BY <1>1, <1>3, <1>8, TotalChanges
<1> QED
  BY <1>2, <1>3, <1>4, <1>5, <1>7, <1>8, <1>9, <1>10, <1>11

\* No other step raises a summand: a status is written only over one that
\* counts, or over a rejection, which leaves the bound for good.
LEMMA OthersRaiseNothing ==
  ASSUME OvershootInv, OrderInv', NEW r \in Requests, Handle(r), ~CheckRisk(r),
         \A i \in Intents : ~SaveIntent(r, i)
  PROVE  WithinOvershoot'
<1>1. \A s \in Requests : Coming'[s] <= Coming[s]
  <2>1. \A s \in Requests : request'[s] = request[s] \/ request'[s].step # "save"
    BY DEF Handle, Preview, SaveAnswer, Submit, CommitFill, SavePending, ReadForApproval,
       SaveResolution, Abort, Go, Idle, OvershootInv, OrderInv, TypeOK
  <2>2. \A s \in Requests : Coming'[s] = Coming[s] \/ Coming'[s] = 0
    BY <2>1 DEF Coming, Saving
  <2> QED
    BY <2>2, SummandsTyped DEF OvershootInv, OrderInv
<1>2. \A i \in Intents : Live(i)' => Live(i) /\ order'[i] = order[i]
  <2>1. CASE CommitFill(r)
    <3>1. UNCHANGED <<order, revived>>
      BY <2>1 DEF CommitFill
    <3>2. \A i \in Intents : status'[i] = status[i] \/ order[i].mode = "paper"
      BY <2>1, StepFields DEF CommitFill, OvershootInv, OrderInv, TypeOK, CarriedFits
    <3> QED
      BY <3>1, <3>2 DEF Live
  <2>2. CASE SavePending(r) \/ SaveResolution(r)
    <3>1. PICK j \in Intents : j = request[r].intent /\ Saved(j) /\ order[j].mode = "approval"
      BY <2>2, StepFields DEF SavePending, SaveResolution, OvershootInv, OrderInv, CarriedFits
    <3>2. /\ UNCHANGED order
          /\ \A i \in Intents : i # j => status'[i] = status[i]
          /\ revived \subseteq revived'
      BY <2>2, <3>1 DEF SavePending, SaveResolution, OvershootInv, OrderInv, TypeOK
    <3>3. status[j] = "REJECTED" => j \in revived' \/ status'[j] = "REJECTED"
      BY <2>2, <3>1 DEF SavePending, SaveResolution, OvershootInv, OrderInv, TypeOK
    <3>4. status[j] \in {"PENDING_APPROVAL", "APPROVED", "REJECTED"}
      BY <3>1 DEF OvershootInv, OrderInv, ModeFitsStatus
    <3>5. Live(j)' => Live(j)
      BY <3>1, <3>2, <3>3, <3>4 DEF Live, Committed
    <3>6. \A i \in Intents : i # j => (Live(i)' => Live(i))
      BY <3>2 DEF Live
    <3> QED
      BY <3>2, <3>5, <3>6
  <2>3. CASE ~(CommitFill(r) \/ SavePending(r) \/ SaveResolution(r))
    <3>1. UNCHANGED <<status, order, revived>>
      BY <2>3 DEF Handle, Preview, SaveAnswer, Submit, ReadForApproval, Abort, rows
    <3> QED
      BY <3>1 DEF Live
  <2> QED
    BY <2>1, <2>2, <2>3
<1>3. \A i \in Intents : Awaiting'[i] <= Awaiting[i]
  <2>1. \A i \in Intents : Awaiting'[i] = Awaiting[i] \/ Awaiting'[i] = 0
    BY <1>2 DEF Awaiting
  <2> QED
    BY <2>1, SummandsTyped DEF OvershootInv, OrderInv
<1> QED
  BY <1>1, <1>3, LessKeepsBound DEF OrderInv

\* Orders for approval that name a limit price and were never rejected pass the
\* daily cap by at most one order for each other handler, whatever orders
\* without a limit price come in between, for any number of handlers and orders.
THEOREM OvershootKept == Spec => []OvershootBounded
<1>1. OrderInv /\ OrderInv' /\ WithinOvershoot /\ [Next]_vars => WithinOvershoot'
  <2> SUFFICES ASSUME OvershootInv, OrderInv', [Next]_vars
               PROVE  WithinOvershoot'
    BY DEF OvershootInv
  <2>1. TypeOK'
    BY DEF OrderInv
  <2>2. CASE Next
    <3>1. PICK r \in Requests : Handle(r)
      BY <2>2 DEF Next
    <3> QED
      BY <2>1, <3>1, CheckKeepsBound, SaveKeepsBound, OthersRaiseNothing
  <2>3. CASE UNCHANGED vars
    <3>1. Awaiting' = Awaiting /\ Coming' = Coming
      BY <2>3 DEF vars, rows, Awaiting, Coming, Live, Saving
    <3> QED
      BY <3>1 DEF OvershootInv, WithinOvershoot
  <2> QED
    BY <2>2, <2>3
<1>2. OrderInv /\ WithinOvershoot => OvershootBounded
  <2> SUFFICES ASSUME OrderInv, WithinOvershoot
               PROVE  OvershootBounded
    OBVIOUS
  <2> DEFINE a == Total(Awaiting, Intents)
             c == Total(Coming, Requests)
             bound == Overshoot
  <2>1. a \in Int /\ c \in Int /\ bound \in Int
    BY SummandsTyped, OvershootTyped DEF OrderInv
  <2>2. \A r \in Requests : Coming[r] \in Int /\ Coming[r] >= 0
    BY SummandsTyped DEF OrderInv
  <2>3. c >= 0
    <3> DEFINE zero == [r \in Requests |-> 0]
    <3>1. IsFiniteSet(Requests)
      BY OrderAssumption DEF OrderAssumption
    <3>2. \A r \in Requests : zero[r] = 0 /\ zero[r] \in Int /\ zero[r] <= Coming[r]
      BY <2>2
    <3> HIDE DEF zero
    <3>3. Total(zero, Requests) = 0 /\ Total(zero, Requests) <= Total(Coming, Requests)
      BY <2>2, <3>1, <3>2, TotalZero, TotalGrows
    <3> QED
      BY <2>1, <3>3
  <2>4. a + c <= bound
    BY DEF WithinOvershoot
  <2>5. OvershootBounded <=> a <= bound
    BY AwaitingTotal DEF OrderInv
  <2> HIDE DEF a, c, bound
  <2> QED
    BY <2>1, <2>3, <2>4, <2>5
<1> QED
  BY InitOvershoot, OrderInvariant, <1>1, <1>2, PTL DEF Spec

\* What an intent is to the abstract specification.
Phase(i) == IF status[i] = "NONE" THEN "absent"
            ELSE IF status[i] = "PAPER_FILLED" THEN "filled" ELSE "open"

\* A step that neither fills nor creates leaves every intent's phase alone.
LEMMA QuietStep ==
  ASSUME UNCHANGED moved, \A i \in Intents : Phase(i)' = Phase(i)
  PROVE  UNCHANGED <<[i \in Intents |-> Phase(i)], moved>>
  OBVIOUS

\* Every step creates an intent, fills one, or is invisible.
LEMMA BoundaryStep ==
  ASSUME OrderInv, NEW r \in Requests, Handle(r)
  PROVE  \/ \E i \in Intents : Boundary!Create(i) \/ Boundary!Fill(i)
         \/ UNCHANGED <<[i \in Intents |-> Phase(i)], moved>>
<1>1. CASE \E i \in Intents : SaveIntent(r, i)
  <2>1. PICK i \in Intents : SaveIntent(r, i)
    BY <1>1
  <2>2. Boundary!Create(i)
    BY <2>1 DEF SaveIntent, Boundary!Create, OrderInv, TypeOK, Saved
  <2> QED
    BY <2>2
<1>2. CASE CommitFill(r)
  <2>1. PICK i \in Intents : i = request[r].intent /\ Saved(i)
    BY <1>2, StepFields DEF CommitFill, OrderInv, CarriedFits
  <2>2. CASE Unfilled(i)
    <3>1. status[i] # "PAPER_FILLED" /\ status[i] # "NONE"
      BY <2>1, <2>2 DEF Unfilled, OrderInv, FilledAsRecorded, Saved
    <3>2. Boundary!Fill(i)
      BY <1>2, <2>1, <2>2, <3>1 DEF CommitFill, Boundary!Fill, OrderInv, TypeOK
    <3> QED
      BY <3>2
  <2>3. CASE ~Unfilled(i)
    BY <1>2, <2>1, <2>3, QuietStep DEF CommitFill, Phase
  <2> QED
    BY <2>2, <2>3
<1>3. CASE SavePending(r) \/ SaveResolution(r)
  <2> DEFINE i == request[r].intent
  <2>1. i \in Intents /\ Saved(i) /\ order[i].mode = "approval"
    BY <1>3, StepFields DEF SavePending, SaveResolution, OrderInv, CarriedFits
  <2>2. Phase(i) = "open"
    BY <2>1 DEF OrderInv, ModeFitsStatus, Phase, Saved
  <2>3. \E s \in {"PENDING_APPROVAL", "APPROVED", "REJECTED"} :
          status' = [status EXCEPT ![i] = s]
    BY <1>3 DEF SavePending, SaveResolution, OrderInv, CarriedFits
  <2>4. \A j \in Intents : Phase(j)' = Phase(j)
    BY <2>1, <2>2, <2>3 DEF Phase, OrderInv, TypeOK
  <2>5. UNCHANGED moved
    BY <1>3 DEF SavePending, SaveResolution
  <2> QED
    BY <2>4, <2>5, QuietStep
<1>4. CASE ~(CommitFill(r) \/ SavePending(r) \/ SaveResolution(r)
             \/ \E i \in Intents : SaveIntent(r, i))
  <2>1. UNCHANGED <<status, moved>>
    BY <1>4 DEF Handle, Preview, CheckRisk, SaveAnswer, Submit, ReadForApproval, Abort, rows
  <2> QED
    BY <2>1, QuietStep DEF Phase
<1> QED
  BY <1>1, <1>2, <1>3, <1>4

\* The handlers implement the abstract promise: money moves once, in the step
\* that ends an intent's life.
THEOREM OrdersRefineBoundary == Spec => ImplementsBoundary
<1>1. Init => Boundary!Init
  BY DEF Init, Boundary!Init
<1>2. OrderInv /\ [Next]_vars =>
        [Boundary!Next]_<<[i \in Intents |-> IF status[i] = "NONE" THEN "absent"
              ELSE IF status[i] = "PAPER_FILLED" THEN "filled" ELSE "open"], moved>>
  <2> SUFFICES ASSUME OrderInv, [Next]_vars
               PROVE  Boundary!Next \/ UNCHANGED <<[i \in Intents |-> Phase(i)], moved>>
    BY DEF Phase
  <2>1. CASE Next
    BY <2>1, BoundaryStep DEF Next, Boundary!Next
  <2>2. CASE UNCHANGED vars
    BY <2>2, QuietStep DEF vars, Phase
  <2> QED
    BY <2>1, <2>2
<1> QED
  BY OrderInvariant, <1>1, <1>2, PTL DEF Spec, ImplementsBoundary, Boundary!Spec

------------------------------------------------------------------------------
(***************************************************************************)
(* ManualPaperQueue.                                                        *)
(***************************************************************************)

\* The rows of a pass are due, and the pass is at one of them until it ends.
BatchIsDue ==
  /\ \A k \in batch : queue[k] = "PENDING_MARKET_OPEN"
  /\ stage # "idle" => batch # {}

\* A verdict about to be recorded is one, and PAPER_FILLED tells of a fill.
VerdictIsTrue ==
  stage = "record" => /\ verdict \in Decided
                      /\ verdict = "PAPER_FILLED" => fills[Queued(Row)] = 1

QueueInv == QueueTypeOK /\ FilledRowsFilledOnce /\ BatchIsDue /\ VerdictIsTrue

\* The row a pass is at is one of its batch.
LEMMA RowInBatch ==
  ASSUME QueueTypeOK, batch # {}
  PROVE  Row \in batch
<1> DEFINE T == {created[k] : k \in batch}
<1>1. T \in SUBSET Nat /\ T # {}
  BY DEF QueueTypeOK
<1>2. PICK n \in T : \A m \in T : n <= m
  BY <1>1, LeastNumber
<1>3. Oldest # {}
  BY <1>2 DEF Oldest
<1>4. Row \in Oldest
  BY <1>3 DEF Row, AnyOf
<1> QED
  BY <1>4 DEF Oldest

\* The row stays the same while neither batch nor creation times change.
LEMMA RowStays ==
  ASSUME UNCHANGED batch, \A k \in batch : created'[k] = created[k]
  PROVE  Row' = Row
<1>1. Oldest' = Oldest
  BY DEF Oldest
<1>2. Row' = AnyOf(Oldest')
  BY DEF Row, AnyOf
<1> QED
  BY <1>1, <1>2 DEF Row

\* The keys a fill may go under are all different.
LEMMA LedgerKeysDiffer ==
  ASSUME NEW k \in ClientKeys
  PROVE  /\ Direct(k) \in LedgerKeys /\ Queued(k) \in LedgerKeys
         /\ \A j \in ClientKeys : /\ Direct(k) # Queued(j)
                                  /\ Queued(k) = Queued(j) => k = j
  BY DEF Direct, Queued, LedgerKeys

\* A fill leaves the account with Kiasha's shares and its key answered once.
LEMMA FillKeeps ==
  ASSUME QueueTypeOK, NEW k \in ClientKeys, NEW fk \in LedgerKeys, Fill(fk, k)
  PROVE  /\ owned' \in Nat /\ owned' >= KiashaShares
         /\ fills' \in [LedgerKeys -> Nat]
         /\ fills'[fk] = 1
         /\ \A gk \in LedgerKeys \ {fk} : fills'[gk] = fills[gk]
<1>1. fills[fk] = 0 /\ fills' = [fills EXCEPT ![fk] = fills[fk] + 1]
  BY DEF Fill, Answered, QueueTypeOK
<1>2. Side[k] \in {"BUY", "SELL"} /\ Quantity[k] \in Nat /\ KiashaShares \in Nat
  BY QueueAssumption DEF QueueAssumption
<1>3. owned' \in Nat /\ owned' >= KiashaShares
  BY <1>2 DEF Fill, Covered, QueueTypeOK
<1> QED
  BY <1>1, <1>3 DEF QueueTypeOK

LEMMA InitQueue == QueueInit => QueueInv
<1> SUFFICES ASSUME QueueInit PROVE QueueInv
  OBVIOUS
<1>1. QueueTypeOK
  <2>1. fills \in [LedgerKeys -> Nat] /\ room \in 0..DailyShares
    BY QueueAssumption DEF QueueInit, QueueAssumption
  <2>2. post \in [Posts -> PostSteps]
    BY DEF QueueInit, PostSteps
  <2>3. created \in [ClientKeys -> Nat] /\ latest \in Nat /\ batch \subseteq ClientKeys
    BY DEF QueueInit
  <2>4. queue \in [ClientKeys -> {"NONE", "PENDING_MARKET_OPEN"} \cup Decided]
    BY DEF QueueInit
  <2>5. owned \in Nat /\ owned >= KiashaShares
    BY QueueAssumption DEF QueueInit, QueueAssumption
  <2> QED
    BY <2>1, <2>2, <2>3, <2>4, <2>5 DEF QueueInit, QueueTypeOK
<1>2. FilledRowsFilledOnce
  BY LedgerKeysDiffer DEF QueueInit, FilledRowsFilledOnce
<1>3. BatchIsDue /\ VerdictIsTrue
  BY DEF QueueInit, BatchIsDue, VerdictIsTrue
<1> QED
  BY <1>1, <1>2, <1>3 DEF QueueInv

\* Arrivals and checks of a request touch neither account nor queue.
LEMMA PostKeeps ==
  ASSUME QueueInv, NEW r \in Posts,
         \/ \E k \in ClientKeys : Arrive(r, k)
         \/ CheckOrder(r) \/ FailOrder(r)
  PROVE  QueueInv'
<1>1. UNCHANGED <<world, ledger, queueRows, pass>>
  BY DEF Arrive, CheckOrder, FailOrder
<1>2. Row' = Row
  BY <1>1, RowStays DEF pass, queueRows
<1>3. post' \in [Posts -> PostSteps]
  <2>1. CASE \E k \in ClientKeys : Arrive(r, k)
    BY <2>1 DEF Arrive, At, PostSteps, QueueInv, QueueTypeOK
  <2>2. CASE CheckOrder(r)
    <3>1. post[r].key \in ClientKeys
      BY <2>2 DEF CheckOrder, NoPost, PostSteps, QueueInv, QueueTypeOK
    <3> QED
      BY <2>2, <3>1 DEF CheckOrder, At, PostSteps, QueueInv, QueueTypeOK
  <2>3. CASE FailOrder(r)
    BY <2>3 DEF FailOrder, PostSteps, QueueInv, QueueTypeOK
  <2> QED
    BY <2>1, <2>2, <2>3
<1> QED
  BY <1>1, <1>2, <1>3
  DEF QueueInv, QueueTypeOK, FilledRowsFilledOnce, BatchIsDue, VerdictIsTrue, Queued,
      world, ledger, queueRows, pass

\* A new row is in no batch.
LEMMA EnqueueKeeps ==
  ASSUME QueueInv, NEW r \in Posts, Enqueue(r)
  PROVE  QueueInv'
<1> DEFINE k == post[r].key
<1>1. k \in ClientKeys
  BY DEF Enqueue, NoPost, PostSteps, QueueInv, QueueTypeOK
<1>2. UNCHANGED <<world, ledger, pass>>
  BY DEF Enqueue
<1>3. /\ created' \in [ClientKeys -> Nat] /\ latest' \in Nat
      /\ queue' \in [ClientKeys -> {"NONE", "PENDING_MARKET_OPEN"} \cup Decided]
      /\ \A j \in ClientKeys :
           \/ queue'[j] = queue[j] /\ created'[j] = created[j]
           \/ queue[j] = "NONE" /\ queue'[j] = "PENDING_MARKET_OPEN"
  BY <1>1 DEF Enqueue, queueRows, QueueInv, QueueTypeOK
<1>4. QueueTypeOK'
  BY <1>2, <1>3 DEF Enqueue, world, ledger, pass, PostSteps, QueueInv, QueueTypeOK
<1>5. BatchIsDue'
  BY <1>2, <1>3 DEF pass, QueueInv, QueueTypeOK, BatchIsDue
<1>6. Row' = Row
  BY <1>2, <1>3, RowStays DEF pass, QueueInv, QueueTypeOK, BatchIsDue
<1>7. FilledRowsFilledOnce' /\ VerdictIsTrue'
  BY <1>2, <1>3, <1>6
  DEF ledger, pass, QueueInv, FilledRowsFilledOnce, VerdictIsTrue, Queued
<1> QED
  BY <1>4, <1>5, <1>7 DEF QueueInv

\* A fill in session goes under the client's own key.
LEMMA CommitKeeps ==
  ASSUME QueueInv, NEW r \in Posts, CommitOrder(r)
  PROVE  /\ QueueInv'
         /\ UNCHANGED queue
         /\ \A j \in ClientKeys : fills'[Queued(j)] = fills[Queued(j)]
<1> DEFINE k == post[r].key
<1>1. k \in ClientKeys
  BY DEF CommitOrder, NoPost, PostSteps, QueueInv, QueueTypeOK
<1>2. UNCHANGED <<world, queueRows, pass>>
  BY DEF CommitOrder
<1>3. /\ owned' \in Nat /\ owned' >= KiashaShares /\ fills' \in [LedgerKeys -> Nat]
      /\ \A j \in ClientKeys : fills'[Queued(j)] = fills[Queued(j)]
  <2>1. CASE Fill(Direct(k), k)
    BY <1>1, <2>1, FillKeeps, LedgerKeysDiffer DEF QueueInv
  <2>2. CASE UNCHANGED ledger
    BY <2>2 DEF ledger, QueueInv, QueueTypeOK
  <2> QED
    BY <2>1, <2>2 DEF CommitOrder
<1>4. QueueTypeOK'
  BY <1>2, <1>3 DEF CommitOrder, world, queueRows, pass, PostSteps, QueueInv, QueueTypeOK
<1>5. Row' = Row
  BY <1>2, RowStays DEF pass, queueRows
<1>6. Row \in ClientKeys \/ stage = "idle"
  BY RowInBatch DEF QueueInv, BatchIsDue, QueueTypeOK
<1>7. (FilledRowsFilledOnce /\ BatchIsDue /\ VerdictIsTrue)'
  BY <1>2, <1>3, <1>5, <1>6
  DEF queueRows, pass, QueueInv, FilledRowsFilledOnce, BatchIsDue, VerdictIsTrue, Queued
<1> QED
  BY <1>2, <1>3, <1>4, <1>7 DEF QueueInv, queueRows

\* A pass begins with rows that are due and leaves them one by one.
LEMMA StepsOfPass ==
  ASSUME QueueInv, StartPass \/ Crash \/ (NextRow /\ stage # "idle")
  PROVE  /\ batch' \subseteq ClientKeys
         /\ stage' \in {"idle", "check"}
         /\ stage' # "idle" => batch' # {}
         /\ verdict' \in {"PENDING_MARKET_OPEN"} \cup Decided
         /\ batch' \subseteq batch \/ batch' \subseteq Due
<1>1. CASE StartPass
  BY <1>1 DEF StartPass, Selected, Due, QueueInv, QueueTypeOK
<1>2. CASE Crash
  BY <1>2 DEF Crash
<1>3. CASE NextRow /\ stage # "idle"
  <2>1. batch' # {} \/ batch = {Row} \/ batch = {}
    BY <1>3 DEF NextRow
  <2> QED
    BY <1>3, <2>1 DEF NextRow, QueueInv, QueueTypeOK, BatchIsDue
<1> QED
  BY <1>1, <1>2, <1>3

LEMMA StartKeeps ==
  ASSUME QueueInv, StartPass \/ Crash \/ DeferRow \/ RefuseRow
  PROVE  QueueInv'
<1>1. UNCHANGED <<world, ledger, queueRows, post>>
  BY DEF StartPass, Crash, DeferRow, RefuseRow
<1>2. QueueTypeOK'
  BY <1>1, StepsOfPass
  DEF DeferRow, RefuseRow, world, ledger, queueRows, QueueInv, QueueTypeOK
<1>3. BatchIsDue' /\ VerdictIsTrue'
  BY <1>1, StepsOfPass
  DEF DeferRow, RefuseRow, queueRows, Due, QueueInv, BatchIsDue, VerdictIsTrue
<1>4. FilledRowsFilledOnce'
  BY <1>1 DEF ledger, queueRows, QueueInv, FilledRowsFilledOnce, Queued
<1> QED
  BY <1>2, <1>3, <1>4 DEF QueueInv

\* A check cancels the row or passes it on to its fill.
LEMMA CheckKeeps ==
  ASSUME QueueInv, CheckRow \/ RejectRow
  PROVE  QueueInv'
<1>1. UNCHANGED <<world, ledger, queueRows, post, batch>>
  BY DEF CheckRow, RejectRow, Conclude
<1>2. \/ stage' = "commit" /\ UNCHANGED verdict
      \/ stage' = "record" /\ verdict' \in Cancelled
  BY DEF CheckRow, RejectRow, Conclude, Cancelled
<1>3. QueueTypeOK'
  BY <1>1, <1>2 DEF world, ledger, queueRows, QueueInv, QueueTypeOK, Decided
<1>4. BatchIsDue' /\ VerdictIsTrue'
  BY <1>1, <1>2
  DEF CheckRow, RejectRow, queueRows, QueueInv, BatchIsDue, VerdictIsTrue, Decided,
      Cancelled
<1>5. FilledRowsFilledOnce'
  BY <1>1 DEF ledger, queueRows, QueueInv, FilledRowsFilledOnce, Queued
<1> QED
  BY <1>3, <1>4, <1>5 DEF QueueInv

\* The fill of a row happens at most once, and the row is still due.
LEMMA CommitRowKeeps ==
  ASSUME QueueInv, CommitRow
  PROVE  /\ QueueInv'
         /\ UNCHANGED queue
         /\ \A j \in ClientKeys :
              queue[j] \in Decided => fills'[Queued(j)] = fills[Queued(j)]
<1>1. UNCHANGED <<world, queueRows, post>>
  BY DEF CommitRow
<1>2. /\ stage = "commit" /\ Row \in batch
      /\ Row \in ClientKeys /\ queue[Row] = "PENDING_MARKET_OPEN"
  BY RowInBatch DEF CommitRow, QueueInv, BatchIsDue, QueueTypeOK
<1>3. "PENDING_MARKET_OPEN" \notin Decided
  BY DEF Decided, Cancelled
<1>4. /\ Conclude("PAPER_FILLED")
      /\ Fill(Queued(Row), Row) \/ (Answered(Queued(Row)) /\ UNCHANGED ledger)
  BY DEF CommitRow
<1>5. /\ owned' \in Nat /\ owned' >= KiashaShares /\ fills' \in [LedgerKeys -> Nat]
      /\ fills'[Queued(Row)] = 1
      /\ \A j \in ClientKeys : j # Row => fills'[Queued(j)] = fills[Queued(j)]
  <2>1. CASE Fill(Queued(Row), Row)
    BY <1>2, <2>1, FillKeeps, LedgerKeysDiffer DEF QueueInv
  <2>2. CASE Answered(Queued(Row)) /\ UNCHANGED ledger
    <3>1. fills[Queued(Row)] \in Nat /\ fills[Queued(Row)] <= 1 /\ fills[Queued(Row)] > 0
      BY <1>2, <2>2, LedgerKeysDiffer
      DEF Answered, QueueInv, QueueTypeOK, FilledRowsFilledOnce
    <3> QED
      BY <2>2, <3>1 DEF ledger, QueueInv, QueueTypeOK
  <2> QED
    BY <1>4, <2>1, <2>2
<1>6. Row' = Row
  BY <1>1, <1>4, RowStays DEF queueRows, Conclude
<1>7. QueueTypeOK'
  BY <1>1, <1>4, <1>5 DEF world, queueRows, Conclude, QueueInv, QueueTypeOK, Decided
<1>8. BatchIsDue' /\ VerdictIsTrue'
  BY <1>1, <1>2, <1>4, <1>5, <1>6
  DEF queueRows, Conclude, QueueInv, BatchIsDue, VerdictIsTrue, Decided, Queued
<1>9. FilledRowsFilledOnce'
  <2> SUFFICES ASSUME NEW k \in ClientKeys
               PROVE  /\ fills'[Queued(k)] <= 1
                      /\ queue'[k] = "PAPER_FILLED" => fills'[Queued(k)] = 1
    BY DEF FilledRowsFilledOnce, Queued
  <2>1. CASE k = Row
    BY <1>5, <2>1
  <2>2. CASE k # Row
    BY <1>1, <1>5, <2>2 DEF queueRows, QueueInv, FilledRowsFilledOnce
  <2> QED
    BY <2>1, <2>2
<1> QED
  BY <1>1, <1>2, <1>3, <1>5, <1>7, <1>8, <1>9 DEF QueueInv, queueRows

\* Only the row of the pass is decided, and it was due.
LEMMA RecordKeeps ==
  ASSUME QueueInv, RecordRow
  PROVE  /\ QueueInv'
         /\ UNCHANGED fills
         /\ \A j \in ClientKeys : queue[j] \in Decided => queue'[j] = queue[j]
<1>1. UNCHANGED <<world, ledger, created, latest, post>>
  BY DEF RecordRow
<1>2. Row \in batch /\ Row \in ClientKeys /\ queue[Row] = "PENDING_MARKET_OPEN"
  BY RowInBatch DEF RecordRow, QueueInv, BatchIsDue, QueueTypeOK
<1>3. queue' = [queue EXCEPT ![Row] = verdict] /\ batch' = batch \ {Row}
  BY DEF RecordRow, NextRow
<1>4. verdict \in Decided /\ (verdict = "PAPER_FILLED" => fills[Queued(Row)] = 1)
  BY DEF RecordRow, QueueInv, VerdictIsTrue
<1>5. QueueTypeOK'
  <2>1. queue' \in [ClientKeys -> {"NONE", "PENDING_MARKET_OPEN"} \cup Decided]
    BY <1>2, <1>3, <1>4 DEF QueueInv, QueueTypeOK
  <2> QED
    BY <1>1, <2>1, StepsOfPass DEF RecordRow, world, ledger, QueueInv, QueueTypeOK
<1>6. BatchIsDue' /\ VerdictIsTrue'
  BY <1>2, <1>3, StepsOfPass DEF RecordRow, QueueInv, QueueTypeOK, BatchIsDue, VerdictIsTrue
<1>7. FilledRowsFilledOnce'
  BY <1>1, <1>2, <1>3, <1>4
  DEF ledger, QueueInv, QueueTypeOK, FilledRowsFilledOnce, Queued
<1> QED
  BY <1>1, <1>2, <1>3, <1>5, <1>6, <1>7
  DEF ledger, QueueInv, QueueTypeOK, Decided, Cancelled

\* The world outside changes nothing of the queue.
LEMMA WorldKeeps ==
  ASSUME QueueInv,
         OpenMarket \/ CloseMarket \/ ChangeCall \/ ChangeRoom \/ UNCHANGED queueVars
  PROVE  QueueInv'
<1>1. /\ UNCHANGED <<ledger, queueRows, post, pass>>
      /\ open' \in BOOLEAN /\ call' \in Calls /\ room' \in 0..DailyShares
  BY DEF OpenMarket, CloseMarket, ChangeCall, ChangeRoom, queueVars, world, QueueInv,
     QueueTypeOK
<1>2. Row' = Row
  BY <1>1, RowStays DEF pass, queueRows
<1> QED
  BY <1>1, <1>2
  DEF QueueInv, QueueTypeOK, FilledRowsFilledOnce, BatchIsDue, VerdictIsTrue, Queued,
      ledger, queueRows, pass

LEMMA NextQueue == QueueInv /\ [QueueNext]_queueVars => QueueInv'
<1> SUFFICES ASSUME QueueInv, [QueueNext]_queueVars PROVE QueueInv'
  OBVIOUS
<1>1. ASSUME NEW r \in Posts, NEW k \in ClientKeys, Arrive(r, k)
      PROVE  QueueInv'
  BY <1>1, PostKeeps
<1>2. ASSUME NEW r \in Posts, HandlePost(r)
      PROVE  QueueInv'
  <2>1. CASE CheckOrder(r) \/ FailOrder(r)
    BY <2>1, PostKeeps
  <2>2. CASE Enqueue(r) \/ CommitOrder(r)
    BY <2>2, EnqueueKeeps, CommitKeeps
  <2> QED
    BY <1>2, <2>1, <2>2 DEF HandlePost
<1>3. CASE StartPass \/ StepPass
  BY <1>3, StartKeeps, CheckKeeps, CommitRowKeeps, RecordKeeps DEF StepPass
<1>4. CASE OpenMarket \/ CloseMarket \/ ChangeCall \/ ChangeRoom \/ UNCHANGED queueVars
  BY <1>4, WorldKeeps
<1> QED
  BY <1>1, <1>2, <1>3, <1>4 DEF QueueNext

THEOREM QueueInvariant == QueueSpec => []QueueInv
  BY InitQueue, NextQueue, PTL DEF QueueSpec

\* No order of fills, checks and crashes sells a share of Kiasha's, and every
\* column and local keeps its type.
THEOREM QueueTyped == QueueSpec => []QueueTypeOK
<1>1. QueueInv => QueueTypeOK
  BY DEF QueueInv
<1> QED
  BY <1>1, QueueInvariant, PTL

\* A row says PAPER_FILLED only with exactly one fill of it in the ledger.
THEOREM QueueFilledOnce == QueueSpec => []FilledRowsFilledOnce
<1>1. QueueInv => FilledRowsFilledOnce
  BY DEF QueueInv
<1> QED
  BY <1>1, QueueInvariant, PTL

\* A decided row is neither decided again nor filled.
THEOREM DecisionsAreFinal == QueueSpec => DecidedIsFinal
<1>1. QueueInv /\ [QueueNext]_queueVars =>
        [\A k \in ClientKeys : queue[k] \in Decided =>
           /\ queue'[k] = queue[k]
           /\ fills'[Queued(k)] = fills[Queued(k)]]_queueVars
  <2> SUFFICES ASSUME QueueInv, QueueNext, NEW k \in ClientKeys, queue[k] \in Decided
               PROVE  queue'[k] = queue[k] /\ fills'[Queued(k)] = fills[Queued(k)]
    OBVIOUS
  <2>1. ASSUME NEW r \in Posts, Enqueue(r)
        PROVE  queue'[k] = queue[k] /\ fills' = fills
    BY <2>1 DEF Enqueue, queueRows, ledger, Decided, Cancelled, QueueInv, QueueTypeOK
  <2>2. ASSUME NEW r \in Posts, CommitOrder(r)
        PROVE  queue' = queue /\ fills'[Queued(k)] = fills[Queued(k)]
    BY <2>2, CommitKeeps
  <2>3. CASE CommitRow
    BY <2>3, CommitRowKeeps
  <2>4. CASE RecordRow
    BY <2>4, RecordKeeps DEF Queued
  <2>5. CASE \/ \E r \in Posts : CheckOrder(r) \/ FailOrder(r)
             \/ \E r \in Posts, j \in ClientKeys : Arrive(r, j)
             \/ StartPass \/ CheckRow \/ DeferRow \/ RefuseRow \/ RejectRow \/ Crash
             \/ OpenMarket \/ CloseMarket \/ ChangeCall \/ ChangeRoom
    <3>1. UNCHANGED <<queue, fills>>
      BY <2>5 DEF CheckOrder, FailOrder, Arrive, StartPass, CheckRow, DeferRow, RefuseRow,
         RejectRow, Crash, OpenMarket, CloseMarket, ChangeCall, ChangeRoom, queueRows, ledger
    <3> QED
      BY <3>1 DEF Queued
  <2> QED
    BY <2>1, <2>2, <2>3, <2>4, <2>5 DEF QueueNext, HandlePost, StepPass, Queued
<1> QED
  BY <1>1, QueueInvariant, PTL DEF QueueSpec, DecidedIsFinal
==============================================================================
