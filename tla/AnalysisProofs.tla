--------------------------- MODULE AnalysisProofs ---------------------------
(***************************************************************************)
(* Proofs about the work behind a deep analysis: the governor its requests *)
(* pass (RequestGovernor), for any number of threads, any interval, budget *)
(* and bounds, and the queue of analyses (AnalysisLedger), for any         *)
(* tickers, processes, attempts and crashes.                               *)
(*                                                                         *)
(* Governor: slots are granted in order, so the hour that ends with a new  *)
(* slot holds nothing but the window and that slot; what the window has    *)
(* forgotten is an hour old and never within an hour of a later slot.      *)
(*                                                                         *)
(* Ledger: who drains holds the lock, so the rows marked ANALYZING and the *)
(* row in hand are one process's business; a row is marked only before its *)
(* first result, so nobody else can unmake a COMPLETE one.                 *)
(***************************************************************************)
EXTENDS RequestGovernor, AnalysisLedger, FiniteSetTheorems, TLAPS

------------------------------------------------------------------------------
(***************************************************************************)
(* RequestGovernor.                                                         *)
(***************************************************************************)

\* The slots of the hour that ends with e.
HourOf(e) == {t \in granted : e - Hour < t /\ t <= e}

\* The clocks and the slots are whole numbers.
Clocks ==
  /\ clock \in Nat /\ nextSlot \in Nat
  /\ granted \subseteq Nat /\ window \subseteq granted /\ IsFiniteSet(granted)

\* The next slot lies an interval after each one granted.
NextIsLater == \A s \in granted : s + Interval <= nextSlot

\* What the window has forgotten is an hour old.
Forgotten == \A s \in granted : s \notin window => clock - s >= Hour

GovernorInv ==
  /\ Clocks
  /\ NextIsLater
  /\ Forgotten
  /\ SlotsSpaced
  /\ BudgetKept

\* A slot is neither before now nor before its turn.
LEMMA SlotIsLater ==
  ASSUME Clocks
  PROVE  Slot \in Nat /\ Slot >= clock /\ Slot >= nextSlot
  BY DEF Slot, Later, Clocks

\* The hour that ends with a new slot holds the window's slots and this one.
LEMMA NewHour ==
  ASSUME GovernorInv, NEW th \in Threads, Grant(th)
  PROVE  /\ Cardinality({t \in granted' : Slot - Hour < t /\ t <= Slot}) <= Budget
         /\ IsFiniteSet(granted')
<1>1. PICK slot \in Nat : slot = Slot /\ slot >= clock /\ slot >= nextSlot
  BY SlotIsLater DEF GovernorInv
<1>2. granted' = granted \cup {slot}
  BY <1>1 DEF Grant
<1>3. slot \notin granted
  BY <1>1, GovernorAssumption DEF GovernorInv, NextIsLater, Clocks, GovernorAssumption
<1>4. {t \in granted' : slot - Hour < t /\ t <= slot} \subseteq Recent \cup {slot}
  <2> SUFFICES ASSUME NEW t \in granted, slot - Hour < t
               PROVE  t \in Recent
    BY <1>2
  <2>1. t \in Nat /\ clock \in Nat /\ clock - t < Hour
    BY <1>1, GovernorAssumption DEF GovernorInv, Clocks, GovernorAssumption
  <2>2. t \in window
    BY <2>1, GovernorAssumption DEF GovernorInv, Forgotten, GovernorAssumption
  <2> QED
    BY <2>1, <2>2 DEF Recent
<1>5. IsFiniteSet(Recent) /\ slot \notin Recent
  <2>1. Recent \subseteq granted
    BY DEF Recent, GovernorInv, Clocks
  <2> QED
    BY <1>3, <2>1, FS_Subset DEF GovernorInv, Clocks
<1>6. IsFiniteSet(Recent \cup {slot}) /\ Cardinality(Recent \cup {slot}) = Cardinality(Recent) + 1
  BY <1>5, FS_AddElement
<1>7. Cardinality(Recent) \in Nat /\ Cardinality(Recent) < Budget
  BY <1>5, FS_CardinalityType DEF Grant
<1>8. IsFiniteSet(granted')
  BY <1>2, FS_AddElement DEF GovernorInv, Clocks
<1>9. Cardinality({t \in granted' : slot - Hour < t /\ t <= slot}) <= Cardinality(Recent \cup {slot})
  BY <1>4, <1>6, FS_Subset
<1>10. Cardinality({t \in granted' : slot - Hour < t /\ t <= slot}) \in Nat
  BY <1>4, <1>6, FS_Subset, FS_CardinalityType
<1> QED
  BY <1>1, <1>6, <1>7, <1>8, <1>9, <1>10, GovernorAssumption DEF GovernorAssumption

\* A new slot keeps the spacing and every hour's budget.
LEMMA GrantKeeps ==
  ASSUME GovernorInv, NEW th \in Threads, Grant(th)
  PROVE  GovernorInv'
<1>1. PICK slot \in Nat : slot = Slot /\ slot >= clock /\ slot >= nextSlot
  BY SlotIsLater DEF GovernorInv
<1>2. /\ granted' = granted \cup {slot} /\ nextSlot' = slot + Interval
      /\ window' = Recent \cup {slot} /\ clock' = clock
  BY <1>1 DEF Grant
<1>3. Clocks'
  <2>1. IsFiniteSet(granted')
    BY NewHour
  <2>2. nextSlot' \in Nat
    BY <1>2, GovernorAssumption DEF GovernorAssumption
  <2> QED
    BY <1>2, <2>1, <2>2 DEF GovernorInv, Clocks, Recent
<1>4. \A s \in granted : s \in Nat /\ s + Interval <= slot /\ s < slot
  BY <1>1, GovernorAssumption DEF GovernorInv, NextIsLater, Clocks, GovernorAssumption
<1>5. NextIsLater'
  BY <1>2, <1>4, GovernorAssumption DEF NextIsLater, GovernorAssumption
<1>6. Forgotten'
  BY <1>2, GovernorAssumption DEF GovernorInv, Clocks, Forgotten, Recent, GovernorAssumption
<1>7. SlotsSpaced'
  BY <1>2, <1>4, GovernorAssumption DEF GovernorInv, SlotsSpaced, GovernorAssumption
<1>8. BudgetKept'
  <2> SUFFICES ASSUME NEW e \in granted'
               PROVE  Cardinality({t \in granted' : e - Hour < t /\ t <= e}) <= Budget
    BY <1>2 DEF BudgetKept
  <2>1. CASE e = slot
    BY <1>1, <2>1, NewHour
  <2>2. CASE e \in granted
    <3>1. {t \in granted' : e - Hour < t /\ t <= e} = {t \in granted : e - Hour < t /\ t <= e}
      BY <1>2, <1>4, <2>2
    <3> QED
      BY <2>2, <3>1 DEF GovernorInv, BudgetKept
  <2> QED
    BY <1>2, <2>1, <2>2
<1> QED
  BY <1>3, <1>5, <1>6, <1>7, <1>8 DEF GovernorInv

LEMMA InitGovernor == GovernorInit => GovernorInv
<1>1. IsFiniteSet({})
  BY FS_EmptySet
<1> QED
  BY <1>1, GovernorAssumption
  DEF GovernorInit, GovernorInv, Clocks, NextIsLater, Forgotten, SlotsSpaced, BudgetKept, GovernorAssumption

LEMMA NextGovernor == GovernorInv /\ [GovernorNext]_governorVars => GovernorInv'
<1> SUFFICES ASSUME GovernorInv, [GovernorNext]_governorVars PROVE GovernorInv'
  OBVIOUS
<1>1. ASSUME granted' = granted, nextSlot' = nextSlot, clock' \in {clock, clock + 1},
             window' = window \/ (window' = Recent /\ clock' = clock)
      PROVE  GovernorInv'
  <2>1. window' \subseteq window /\ clock' \in Nat
    BY <1>1 DEF GovernorInv, Clocks, Recent
  <2>2. Clocks'
    BY <1>1, <2>1 DEF GovernorInv, Clocks
  <2>3. NextIsLater' /\ SlotsSpaced' /\ BudgetKept'
    BY <1>1 DEF GovernorInv, NextIsLater, SlotsSpaced, BudgetKept
  <2>4. ASSUME NEW s \in granted, s \notin window' PROVE clock' - s >= Hour
    <3>1. s \in Nat /\ clock \in Nat /\ clock' \in {clock, clock + 1} /\ Hour \in Nat
      BY <1>1, GovernorAssumption DEF GovernorInv, Clocks, GovernorAssumption
    <3>2. CASE s \notin window
      <4>1. clock - s >= Hour
        BY <3>2 DEF GovernorInv, Forgotten
      <4>2. CASE clock' = clock
        BY <4>1, <4>2
      <4>3. CASE clock' = clock + 1
        <5>1. (clock + 1) - s >= Hour
          BY <3>1, <4>1
        <5> QED
          BY <4>3, <5>1
      <4> QED
        BY <3>1, <4>2, <4>3
    <3>3. CASE s \in window
      <4>1. window' = Recent /\ clock' = clock
        BY <1>1, <2>4, <3>3
      <4>2. ~(clock - s < Hour)
        BY <2>4, <3>3, <4>1 DEF Recent
      <4> QED
        BY <3>1, <4>1, <4>2
    <3> QED
      BY <3>2, <3>3
  <2>5. Forgotten'
    BY <1>1, <2>4 DEF Forgotten
  <2> QED
    BY <2>2, <2>3, <2>5 DEF GovernorInv
<1>2. ASSUME NEW th \in Threads, Grant(th) PROVE GovernorInv'
  BY <1>2, GrantKeeps
<1>3. ASSUME NEW th \in Threads, Refuse(th) PROVE GovernorInv'
  BY <1>1, <1>3 DEF Refuse
<1>4. ASSUME NEW th \in Threads, NEW header \in RetryAfters \cup {NoHeader},
             Send(th) \/ Return(th) \/ Trip(th, header) \/ GiveUp(th) \/ BackOff(th)
      PROVE  GovernorInv'
  <2>1. granted' = granted /\ nextSlot' = nextSlot /\ clock' = clock /\ window' = window
    BY <1>4 DEF Send, Return, Trip, GiveUp, BackOff, governor
  <2> QED
    BY <1>1, <2>1 DEF GovernorInv, Clocks
<1>5. CASE Tick
  BY <1>1, <1>5 DEF Tick, governor
<1>6. CASE UNCHANGED governorVars
  BY <1>1, <1>6 DEF governorVars
<1> QED
  BY <1>2, <1>3, <1>4, <1>5, <1>6 DEF GovernorNext, Step

\* The inductive invariant: slots in order, the window up to date.
THEOREM GovernorInvariant == GovernorSpec => []GovernorInv
  BY InitGovernor, NextGovernor, PTL DEF GovernorSpec

\* Slots never come closer than the interval.
THEOREM Spaced == GovernorSpec => []SlotsSpaced
<1>1. GovernorInv => SlotsSpaced
  BY DEF GovernorInv
<1> QED
  BY <1>1, GovernorInvariant, PTL

\* No hour has more slots than the budget.
THEOREM WithinBudget == GovernorSpec => []BudgetKept
<1>1. GovernorInv => BudgetKept
  BY DEF GovernorInv
<1> QED
  BY <1>1, GovernorInvariant, PTL

------------------------------------------------------------------------------
(***************************************************************************)
(* AnalysisLedger.                                                          *)
(***************************************************************************)

\* Who drains holds the lock, and nobody else does.
LockHeld == \A w \in Workers : Draining(w) <=> holder = w

\* A row is in hand exactly while it is analyzed, and there is room for it.
InHand ==
  \A w \in Workers : IF pc[w] = "analyze"
                       THEN current[w] \in Tickers /\ done[w] < BatchLimit
                       ELSE current[w] = None

\* Rows are marked ANALYZING before their first result, COMPLETE by one.
ResultsFit ==
  \A t \in Tickers : /\ status[t] = "ANALYZING" => result[t] = "none"
                     /\ status[t] = "COMPLETE" => result[t] # "none"

LedgerInv ==
  /\ TypeOK
  /\ LockHeld
  /\ InHand
  /\ ResultsFit
  /\ AnalyzingIsOwned
  /\ OutageIsNoVerdict

LEMMA InitLedger == Init => LedgerInv
<1> SUFFICES ASSUME Init PROVE LedgerInv
  OBVIOUS
<1>1. TypeOK
  BY AnalysisAssumption DEF Init, TypeOK, Statuses, Finished, Terminal, AnalysisAssumption
<1>2. \A w \in Workers : ~Draining(w) /\ holder # w
  BY AnalysisAssumption DEF Init, Draining, AnalysisAssumption
<1> QED
  BY <1>1, <1>2 DEF Init, LedgerInv, LockHeld, InHand, ResultsFit, AnalyzingIsOwned,
     OutageIsNoVerdict, Terminal

\* A process that ends or dies gives the lock back and touches no row.
LEMMA ForgetKeeps ==
  ASSUME LedgerInv, NEW w \in Workers, Forget(w), UNCHANGED row,
         holder' = IF holder = w THEN None ELSE holder, crashes' \in 0..MaxCrashes
  PROVE  LedgerInv'
<1>1. pc' = [pc EXCEPT ![w] = "idle"] /\ current' = [current EXCEPT ![w] = None]
  BY DEF Forget, Goto
<1>2. TypeOK'
  BY AnalysisAssumption DEF LedgerInv, TypeOK, Forget, Goto, row, AnalysisAssumption
<1>3. LockHeld'
  BY <1>1, AnalysisAssumption DEF LedgerInv, TypeOK, LockHeld, Draining, AnalysisAssumption
<1>4. InHand'
  BY <1>1 DEF LedgerInv, TypeOK, InHand, Forget
<1>5. ResultsFit' /\ OutageIsNoVerdict'
  BY DEF LedgerInv, ResultsFit, OutageIsNoVerdict, row
<1>6. AnalyzingIsOwned'
  BY <1>1 DEF LedgerInv, TypeOK, AnalyzingIsOwned, Draining, row
<1> QED
  BY <1>2, <1>3, <1>4, <1>5, <1>6 DEF LedgerInv

\* Re-queueing makes rows pending that were finished.
LEMMA RequeueKeeps ==
  ASSUME LedgerInv, NEW w \in Workers, NEW t \in Tickers, Requeue(w, t)
  PROVE  LedgerInv'
<1>1. TypeOK'
  BY DEF LedgerInv, TypeOK, Requeue, Statuses
<1>2. LockHeld' /\ InHand'
  BY DEF LedgerInv, LockHeld, InHand, Draining, Requeue
<1>3. \A u \in Tickers : /\ status'[u] # status[u] => status'[u] = "PENDING"
                         /\ reason'[u] = "outage" => reason[u] = "outage"
  BY DEF LedgerInv, TypeOK, Requeue
<1>4. ResultsFit' /\ AnalyzingIsOwned' /\ OutageIsNoVerdict'
  BY <1>3 DEF LedgerInv, ResultsFit, AnalyzingIsOwned, OutageIsNoVerdict, Draining,
     Terminal, Requeue
<1> QED
  BY <1>1, <1>2, <1>4 DEF LedgerInv

LEMMA SyncKeeps ==
  ASSUME LedgerInv, NEW w \in Workers, Sync(w)
  PROVE  LedgerInv'
<1>a. PICK universe \in SUBSET Tickers : \E quotes \in SUBSET universe :
        \E partial \in BOOLEAN : SyncUniverse(w, universe, quotes, partial)
  BY DEF Sync
<1>1. PICK quotes \in SUBSET universe, partial \in BOOLEAN :
        SyncUniverse(w, universe, quotes, partial)
  BY <1>a
<1>2. \A t \in Tickers : Registered(t, quotes) \in {status[t], "PENDING", "INSUFFICIENT_DATA"}
  BY DEF Registered
<1>3. \A t \in Tickers : status'[t] \in {status[t], "PENDING", "INSUFFICIENT_DATA"}
  BY <1>1, <1>2 DEF SyncUniverse
<1>4. \A t \in Tickers : /\ status'[t] # status[t] => reason'[t] = "other"
                         /\ status'[t] = status[t] => reason'[t] = reason[t]
  BY <1>1 DEF SyncUniverse
<1>5. TypeOK'
  <2>1. status' \in [Tickers -> Statuses]
    BY <1>1, <1>3 DEF SyncUniverse, LedgerInv, TypeOK, Statuses, Finished, Terminal
  <2> QED
    BY <1>1, <2>1 DEF SyncUniverse, Goto, LedgerInv, TypeOK
<1>6. LockHeld' /\ InHand'
  BY <1>1 DEF LedgerInv, TypeOK, LockHeld, InHand, Draining, SyncUniverse, Goto
<1>7. ResultsFit' /\ OutageIsNoVerdict'
  BY <1>1, <1>3, <1>4 DEF LedgerInv, ResultsFit, OutageIsNoVerdict, SyncUniverse
<1>8. AnalyzingIsOwned'
  BY <1>1, <1>3 DEF LedgerInv, TypeOK, AnalyzingIsOwned, Draining, SyncUniverse, Goto
<1> QED
  BY <1>5, <1>6, <1>7, <1>8 DEF LedgerInv

\* Whoever gets the lock reclaims what the last holder left.
LEMMA EnterKeeps ==
  ASSUME LedgerInv, NEW w \in Workers, EnterDrain(w)
  PROVE  LedgerInv'
<1>1. \A t \in Tickers : status'[t] = IF status[t] = "ANALYZING" THEN "PENDING" ELSE status[t]
  BY DEF EnterDrain, Reclaimed
<1>2. \A v \in Workers : ~Draining(v)
  BY AnalysisAssumption DEF LedgerInv, LockHeld, EnterDrain, LockFree, AnalysisAssumption
<1>3. TypeOK'
  BY <1>1 DEF EnterDrain, Outages, Goto, LedgerInv, TypeOK, Statuses
<1>4. LockHeld' /\ InHand'
  BY <1>2 DEF LedgerInv, TypeOK, LockHeld, InHand, Draining, EnterDrain, Goto
<1>5. ResultsFit' /\ OutageIsNoVerdict'
  BY <1>1 DEF LedgerInv, ResultsFit, OutageIsNoVerdict, EnterDrain, Terminal
<1>6. AnalyzingIsOwned'
  BY <1>1, <1>2 DEF LedgerInv, TypeOK, AnalyzingIsOwned, Draining, EnterDrain, Goto
<1> QED
  BY <1>3, <1>4, <1>5, <1>6 DEF LedgerInv

\* The row next_batch chooses is pending or finished.
LEMMA ChosenRow ==
  ASSUME NEW w \in Workers, NEW t \in NextBatch(w)
  PROVE  t \in Tickers /\ status[t] \in Finished \cup {"PENDING"}
  BY DEF NextBatch, FewestTried, Waiting, Oldest, Stale

LEMMA UnresolvedKeeps ==
  ASSUME LedgerInv, NEW w \in Workers, NEW t \in Tickers, Unresolved(w, t)
  PROVE  LedgerInv'
<1>1. TypeOK'
  BY AnalysisAssumption
  DEF Unresolved, Room, LedgerInv, TypeOK, Statuses, Finished, Terminal, AnalysisAssumption
<1>2. LockHeld' /\ InHand'
  BY DEF LedgerInv, TypeOK, LockHeld, InHand, Draining, Unresolved
<1>3. ResultsFit' /\ OutageIsNoVerdict' /\ AnalyzingIsOwned'
  BY DEF LedgerInv, TypeOK, ResultsFit, OutageIsNoVerdict, AnalyzingIsOwned, Draining, Unresolved
<1> QED
  BY <1>1, <1>2, <1>3 DEF LedgerInv

LEMMA ClaimKeeps ==
  ASSUME LedgerInv, NEW w \in Workers, NEW t \in Tickers, Claim(w, t)
  PROVE  LedgerInv'
<1>1. status[t] \in Finished \cup {"PENDING"}
  BY ChosenRow DEF Claim
<1>2. TypeOK'
  BY DEF Claim, Goto, LedgerInv, TypeOK, Statuses
<1>3. LockHeld' /\ InHand'
  BY DEF LedgerInv, TypeOK, LockHeld, InHand, Draining, Claim, Room, Goto
<1>4. ResultsFit' /\ OutageIsNoVerdict'
  BY <1>1 DEF LedgerInv, TypeOK, ResultsFit, OutageIsNoVerdict, Claim, Terminal, Finished
<1>5. AnalyzingIsOwned'
  <2>1. \A u \in Tickers : status[u] # "ANALYZING"
    BY AnalysisAssumption
    DEF LedgerInv, InHand, AnalyzingIsOwned, Draining, Claim, AnalysisAssumption
  <2>2. \A u \in Tickers : status'[u] = "ANALYZING" => u = t
    BY <2>1 DEF LedgerInv, TypeOK, Claim
  <2> QED
    BY <2>2 DEF LedgerInv, TypeOK, LockHeld, AnalyzingIsOwned, Draining, Claim, Goto
<1> QED
  BY <1>2, <1>3, <1>4, <1>5 DEF LedgerInv

\* What every recording of an analysis keeps.
LEMMA RecordedKeeps ==
  ASSUME LedgerInv, NEW w \in Workers, pc[w] = "analyze", NEW s \in Statuses \ {"ANALYZING"},
         Recorded(w, current[w], s)
  PROVE  /\ current[w] \in Tickers
         /\ LockHeld' /\ InHand' /\ AnalyzingIsOwned'
         /\ status' \in [Tickers -> Statuses] /\ done' \in [Workers -> 0..BatchLimit]
         /\ current' \in [Workers -> Tickers \cup {None}]
         /\ pc' \in [Workers -> {"idle", "peek", "lock", "requeue", "pick", "analyze"}]
<1>1. current[w] \in Tickers /\ done[w] < BatchLimit
  BY DEF LedgerInv, InHand
<1>2. status' \in [Tickers -> Statuses] /\ done' \in [Workers -> 0..BatchLimit]
  BY <1>1, AnalysisAssumption DEF LedgerInv, TypeOK, Recorded, AnalysisAssumption
<1>3. /\ current' \in [Workers -> Tickers \cup {None}]
      /\ pc' \in [Workers -> {"idle", "peek", "lock", "requeue", "pick", "analyze"}]
  BY DEF LedgerInv, TypeOK, Recorded, Goto
<1>4. LockHeld' /\ InHand'
  BY DEF LedgerInv, TypeOK, LockHeld, InHand, Draining, Recorded, Goto
<1>5. AnalyzingIsOwned'
  <2>1. \A u \in Tickers : status[u] = "ANALYZING" => u = current[w]
    BY DEF LedgerInv, AnalyzingIsOwned, Draining
  <2>2. \A u \in Tickers : status'[u] # "ANALYZING"
    BY <1>1, <2>1 DEF LedgerInv, TypeOK, Recorded
  <2>3. \A v \in Workers : Draining(v)' => Draining(v)
    BY DEF LedgerInv, TypeOK, Draining, Recorded, Goto
  <2> QED
    BY <2>2, <2>3 DEF LedgerInv, AnalyzingIsOwned
<1> QED
  BY <1>1, <1>2, <1>3, <1>4, <1>5

LEMMA AnotherTry ==
  ASSUME NEW n \in 0..(MaxAttempts + 1)
  PROVE  Another(n) \in 0..(MaxAttempts + 1) /\ Another(n) >= n
  BY AnalysisAssumption DEF Another, AnalysisAssumption

LEMMA VerdictKeeps ==
  ASSUME LedgerInv, NEW w \in Workers, NEW verdict \in Finished, RecordVerdict(w, verdict)
  PROVE  LedgerInv'
<1>1. /\ current[w] \in Tickers /\ LockHeld' /\ InHand' /\ AnalyzingIsOwned'
      /\ status' \in [Tickers -> Statuses] /\ done' \in [Workers -> 0..BatchLimit]
      /\ current' \in [Workers -> Tickers \cup {None}]
      /\ pc' \in [Workers -> {"idle", "peek", "lock", "requeue", "pick", "analyze"}]
  BY RecordedKeeps DEF RecordVerdict, Statuses, Finished, Terminal
<1>2. TypeOK'
  BY <1>1, AnalysisAssumption DEF RecordVerdict, Recorded, LedgerInv, TypeOK, AnalysisAssumption
<1>3. ResultsFit' /\ OutageIsNoVerdict'
  BY <1>1 DEF RecordVerdict, Recorded, LedgerInv, TypeOK, ResultsFit, OutageIsNoVerdict,
     Finished, Terminal
<1> QED
  BY <1>1, <1>2, <1>3 DEF LedgerInv

LEMMA OutageKeeps ==
  ASSUME LedgerInv, NEW w \in Workers, NEW verdict \in Terminal, RecordOutage(w, verdict)
  PROVE  LedgerInv'
<1> DEFINE t == current[w]
           n == Another(attempts[t])
           s == AfterOutage(n, verdict)
<1>1. t \in Tickers
  BY DEF LedgerInv, InHand, RecordOutage
<1>2. n \in 0..(MaxAttempts + 1)
  BY <1>1, AnotherTry DEF LedgerInv, TypeOK
<1>3. s \in Terminal \cup {"PENDING"} /\ (s \in Terminal => n >= MaxAttempts)
  BY <1>2, AnalysisAssumption DEF AfterOutage, Terminal, LedgerInv, AnalysisAssumption
<1>4. Recorded(w, t, s)
  BY DEF RecordOutage
<1>5. /\ LockHeld' /\ InHand' /\ AnalyzingIsOwned'
      /\ status' \in [Tickers -> Statuses] /\ done' \in [Workers -> 0..BatchLimit]
      /\ current' \in [Workers -> Tickers \cup {None}]
      /\ pc' \in [Workers -> {"idle", "peek", "lock", "requeue", "pick", "analyze"}]
  <2>1. pc[w] = "analyze" /\ s \in Statuses \ {"ANALYZING"}
    BY <1>3 DEF RecordOutage, Statuses, Finished, Terminal
  <2> QED
    BY <1>4, <2>1, RecordedKeeps
<1>6. /\ attempts' = [attempts EXCEPT ![t] = n]
      /\ reason' = [reason EXCEPT ![t] = "outage"]
      /\ result' = [result EXCEPT ![t] = "recorded"]
      /\ fresh' = [fresh EXCEPT ![t] = TRUE]
      /\ failed' \in [Workers -> SUBSET Tickers]
  BY <1>1 DEF RecordOutage, LedgerInv, TypeOK
<1>7. TypeOK'
  BY <1>1, <1>2, <1>4, <1>5, <1>6 DEF Recorded, LedgerInv, TypeOK
<1>8. status' = [status EXCEPT ![t] = s]
  BY <1>4 DEF Recorded
<1>9. ResultsFit'
  BY <1>1, <1>3, <1>6, <1>8 DEF LedgerInv, TypeOK, ResultsFit, Terminal
<1>10. OutageIsNoVerdict'
  BY <1>1, <1>3, <1>6, <1>8 DEF LedgerInv, TypeOK, OutageIsNoVerdict
<1> QED
  BY <1>5, <1>7, <1>9, <1>10 DEF LedgerInv

LEMMA ErrorKeeps ==
  ASSUME LedgerInv, NEW w \in Workers, RecordError(w)
  PROVE  LedgerInv'
<1> DEFINE t == current[w]
           n == Another(attempts[t])
<1>1. t \in Tickers
  BY DEF LedgerInv, InHand, RecordError
<1>2. n \in 0..(MaxAttempts + 1) /\ n >= attempts[t] /\ attempts[t] \in Nat
  BY <1>1, AnotherTry, AnalysisAssumption DEF LedgerInv, TypeOK, AnalysisAssumption
<1>3. PICK s \in {status[t], "PENDING", "INSUFFICIENT_DATA"} :
        /\ Recorded(w, t, s)
        /\ \/ result[t] # "none" /\ s = status[t] /\ UNCHANGED reason
           \/ /\ result[t] = "none" /\ s \in {"PENDING", "INSUFFICIENT_DATA"}
              /\ reason' = [reason EXCEPT ![t] = "other"]
  BY DEF RecordError
<1>4. s \in Statuses \ {"ANALYZING"}
  BY <1>1, <1>3 DEF LedgerInv, TypeOK, ResultsFit, Statuses, Finished, Terminal
<1>5. /\ LockHeld' /\ InHand' /\ AnalyzingIsOwned'
      /\ status' \in [Tickers -> Statuses] /\ done' \in [Workers -> 0..BatchLimit]
      /\ current' \in [Workers -> Tickers \cup {None}]
      /\ pc' \in [Workers -> {"idle", "peek", "lock", "requeue", "pick", "analyze"}]
  BY <1>3, <1>4, RecordedKeeps DEF RecordError
<1>6. /\ attempts' = [attempts EXCEPT ![t] = n]
      /\ failed' \in [Workers -> SUBSET Tickers]
      /\ reason' \in [Tickers -> {"outage", "other"}]
      /\ UNCHANGED <<result, fresh>>
  BY <1>1, <1>3 DEF RecordError, LedgerInv, TypeOK
<1>7. TypeOK'
  BY <1>1, <1>2, <1>3, <1>5, <1>6 DEF Recorded, LedgerInv, TypeOK
<1>8. status' = [status EXCEPT ![t] = s]
  BY <1>3 DEF Recorded
<1>9. ResultsFit'
  BY <1>1, <1>3, <1>4, <1>6, <1>8 DEF LedgerInv, TypeOK, ResultsFit
<1>10. OutageIsNoVerdict'
  <2> SUFFICES ASSUME NEW u \in Tickers, result'[u] = "recorded", status'[u] \in Terminal,
                      reason'[u] = "outage"
               PROVE  attempts'[u] >= MaxAttempts
    BY DEF OutageIsNoVerdict
  <2>1. CASE u # t
    <3>1. status'[u] = status[u] /\ attempts'[u] = attempts[u] /\ reason'[u] = reason[u]
      BY <1>1, <1>3, <1>6, <1>8, <2>1 DEF LedgerInv, TypeOK
    <3> QED
      BY <1>6, <3>1 DEF LedgerInv, OutageIsNoVerdict
  <2>2. CASE u = t
    <3>1. result[t] # "none" /\ s = status[t] /\ UNCHANGED reason
      BY <1>1, <1>3, <1>6, <2>2 DEF LedgerInv, TypeOK
    <3>2. attempts[t] >= MaxAttempts
      BY <1>1, <1>6, <1>8, <2>2, <3>1 DEF LedgerInv, TypeOK, OutageIsNoVerdict
    <3> QED
      BY <1>1, <1>2, <1>6, <2>2, <3>2, AnalysisAssumption DEF LedgerInv, TypeOK, AnalysisAssumption
  <2> QED
    BY <2>1, <2>2
<1> QED
  BY <1>5, <1>7, <1>9, <1>10 DEF LedgerInv

\* Peeking, moving on and time change neither rows nor locks.
LEMMA QuietKeeps ==
  ASSUME LedgerInv,
         \/ \E w \in Workers : Peek(w) \/ EndRequeue(w)
         \/ \E t \in Tickers : Age(t)
         \/ UNCHANGED vars
  PROVE  LedgerInv'
<1>1. UNCHANGED <<status, attempts, reason, result, holder, current, done>>
  BY DEF Peek, EndRequeue, Age, vars, row, memory
<1>2. TypeOK'
  <2>1. Outages \subseteq Tickers
    BY DEF Outages
  <2>2. ASSUME NEW w \in Workers, Peek(w) \/ EndRequeue(w)
        PROVE  TypeOK'
    BY <2>1, <2>2 DEF Peek, EndRequeue, row, memory, Goto, LedgerInv, TypeOK
  <2>3. ASSUME NEW t \in Tickers, Age(t)
        PROVE  TypeOK'
    BY <2>3 DEF Age, memory, LedgerInv, TypeOK
  <2>4. CASE UNCHANGED vars
    BY <2>4 DEF vars, row, memory, LedgerInv, TypeOK
  <2> QED
    BY <2>2, <2>3, <2>4
<1>3. \A v \in Workers : /\ Draining(v)' <=> Draining(v)
                         /\ (pc'[v] = "analyze") <=> (pc[v] = "analyze")
  BY DEF Peek, EndRequeue, Age, vars, row, memory, Goto, LedgerInv, TypeOK, Draining
<1>4. LockHeld' /\ InHand' /\ ResultsFit' /\ AnalyzingIsOwned' /\ OutageIsNoVerdict'
  BY <1>1, <1>3 DEF LedgerInv, LockHeld, InHand, ResultsFit, AnalyzingIsOwned, OutageIsNoVerdict
<1> QED
  BY <1>2, <1>4 DEF LedgerInv

LEMMA NextLedger == LedgerInv /\ [Next]_vars => LedgerInv'
<1> SUFFICES ASSUME LedgerInv, [Next]_vars PROVE LedgerInv'
  OBVIOUS
<1>1. ASSUME NEW w \in Workers, Peek(w) \/ EndRequeue(w)
      PROVE  LedgerInv'
  BY <1>1, QuietKeeps
<1>2. ASSUME NEW w \in Workers, SkipDrain(w) \/ Leave(w) \/ Crash(w)
      PROVE  LedgerInv'
  <2>1. holder' = IF holder = w THEN None ELSE holder
    BY <1>2 DEF SkipDrain, Leave, Crash, LedgerInv, LockHeld, Draining
  <2>2. crashes' \in 0..MaxCrashes
    BY <1>2, AnalysisAssumption
    DEF SkipDrain, Leave, Crash, LedgerInv, TypeOK, AnalysisAssumption
  <2> QED
    BY <1>2, <2>1, <2>2, ForgetKeeps DEF SkipDrain, Leave, Crash
<1>3. ASSUME NEW w \in Workers, Sync(w) \/ EnterDrain(w)
      PROVE  LedgerInv'
  BY <1>3, SyncKeeps, EnterKeeps
<1>4. ASSUME NEW w \in Workers, NEW t \in Tickers,
             Requeue(w, t) \/ Unresolved(w, t) \/ Claim(w, t)
      PROVE  LedgerInv'
  BY <1>4, RequeueKeeps, UnresolvedKeeps, ClaimKeeps
<1>5. ASSUME NEW w \in Workers, Analyzed(w)
      PROVE  LedgerInv'
  BY <1>5, VerdictKeeps, OutageKeeps, ErrorKeeps DEF Analyzed
<1>6. CASE (\E t \in Tickers : Age(t)) \/ UNCHANGED vars
  BY <1>6, QuietKeeps
<1> QED
  BY <1>1, <1>2, <1>3, <1>4, <1>5, <1>6 DEF Next, Drain

THEOREM LedgerInvariant == Spec => []LedgerInv
  BY InitLedger, NextLedger, PTL DEF Spec

\* Every column and every local of the processes holds a value of its type.
THEOREM LedgerTypeOK == Spec => []TypeOK
<1>1. LedgerInv => TypeOK
  BY DEF LedgerInv
<1> QED
  BY <1>1, LedgerInvariant, PTL

\* One process drains a market at a time, and the only row marked ANALYZING
\* is the one it analyzes, whoever dies, peeks or scans meanwhile.
THEOREM LedgerAnalyzingIsOwned == Spec => []AnalyzingIsOwned
<1>1. LedgerInv => AnalyzingIsOwned
  BY DEF LedgerInv
<1> QED
  BY <1>1, LedgerInvariant, PTL

\* A dropped connection becomes a verdict only after MAX_ATTEMPTS.
THEOREM LedgerOutageIsNoVerdict == Spec => []OutageIsNoVerdict
<1>1. LedgerInv => OutageIsNoVerdict
  BY DEF LedgerInv
<1> QED
  BY <1>1, LedgerInvariant, PTL

\* A COMPLETE row changes in three ways only: its analysis is recorded, or a
\* drain whose catalog lost the company gives it up.
LEMMA CompleteStep ==
  ASSUME LedgerInv, [Next]_vars, NEW t \in Tickers, status[t] = "COMPLETE",
         status'[t] # "COMPLETE"
  PROVE  \E w \in Workers : /\ holder = w
                            /\ \/ current[w] = t
                               \/ t \notin catalog[w] /\ status'[t] = "INSUFFICIENT_DATA"
<1>1. ASSUME NEW w \in Workers, Unresolved(w, t)
      PROVE  holder = w /\ t \notin catalog[w] /\ status'[t] = "INSUFFICIENT_DATA"
  BY <1>1 DEF Unresolved, LedgerInv, TypeOK, LockHeld, Draining
<1>2. ASSUME NEW w \in Workers, Analyzed(w)
      PROVE  holder = w /\ current[w] = t
  <2>1. pc[w] = "analyze"
    BY <1>2 DEF Analyzed, RecordVerdict, RecordOutage, RecordError
  <2>2. status'[t] # status[t] => current[w] = t
    BY <1>2 DEF Analyzed, RecordVerdict, RecordOutage, RecordError, Recorded, LedgerInv, TypeOK
  <2> QED
    BY <2>1, <2>2 DEF LedgerInv, LockHeld, Draining
<1>3. ASSUME NEW w \in Workers,
             \/ Peek(w) \/ Sync(w) \/ SkipDrain(w) \/ EnterDrain(w) \/ EndRequeue(w)
             \/ Leave(w) \/ Crash(w)
             \/ \E u \in Tickers : Requeue(w, u) \/ Claim(w, u) \/ Age(u)
      PROVE  FALSE
  <2>1. CASE Sync(w)
    BY <2>1 DEF Sync, SyncUniverse, Registered
  <2>2. CASE EnterDrain(w)
    BY <2>2 DEF EnterDrain, Reclaimed
  <2>3. CASE \E u \in Tickers : Requeue(w, u) \/ Claim(w, u)
    BY <2>3 DEF Requeue, StillTerminal, Terminal, Claim, LedgerInv, TypeOK, ResultsFit
  <2>4. CASE \/ Peek(w) \/ SkipDrain(w) \/ EndRequeue(w) \/ Leave(w) \/ Crash(w)
             \/ \E u \in Tickers : Age(u)
    BY <2>4 DEF Peek, SkipDrain, EndRequeue, Leave, Crash, Age, row
  <2> QED
    BY <1>3, <2>1, <2>2, <2>3, <2>4
<1>4. ASSUME NEW w \in Workers, NEW u \in Tickers, Unresolved(w, u)
      PROVE  u = t
  BY <1>4 DEF Unresolved, LedgerInv, TypeOK
<1>5. ~UNCHANGED vars /\ ~\E u \in Tickers : Age(u)
  BY DEF vars, row, Age
<1> QED
  BY <1>1, <1>2, <1>3, <1>4, <1>5 DEF Next, Drain

\* A verdict the sources gave is only replaced by the drain that analyzed the
\* row or whose catalog lost it.
THEOREM LedgerCompleteIsKept == Spec => CompleteIsKept
<1>1. LedgerInv /\ [Next]_vars =>
        [\A t \in Tickers : (status[t] = "COMPLETE" /\ status'[t] # "COMPLETE") =>
           \E w \in Workers :
             /\ holder = w
             /\ \/ current[w] = t
                \/ t \notin catalog[w] /\ status'[t] = "INSUFFICIENT_DATA"]_vars
  BY CompleteStep
<1> QED
  BY <1>1, LedgerInvariant, PTL DEF Spec, CompleteIsKept
==============================================================================
