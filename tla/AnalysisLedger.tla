---------------------------- MODULE AnalysisLedger ----------------------------
(***************************************************************************)
(* The per-market queue of deep analyses of BIAP Global:                   *)
(* src/analysis/global_markets/analysis_ledger.py, as scanner.py           *)
(* (_advance_queue) and analysis_worker.py drive it.                       *)
(*                                                                         *)
(* Several processes work on one SQLite file.  Each registers the universe *)
(* it has discovered, then drains the queue if it gets the market's flock, *)
(* which the kernel frees when a process dies.  Statements outside a       *)
(* transaction commit one by one.  Peeking for work re-queues rows without *)
(* the lock.                                                               *)
(*                                                                         *)
(* The quality of an analysis is reduced to its verdict; ages are reduced  *)
(* to being past the refresh window or not (the default "age" mode).       *)
(***************************************************************************)
EXTENDS Integers, FiniteSets

CONSTANTS Tickers,
          Workers,      \* processes: the timer's subprocess, the API's scan
          Legacy,       \* rows recorded before outages were retried
          MaxAttempts,  \* MAX_ATTEMPTS
          BatchLimit,   \* rows one drain may finish
          MaxCrashes    \* bound: processes killed

None == "none"

ASSUME AnalysisAssumption ==
  /\ Legacy \subseteq Tickers
  /\ None \notin Tickers \cup Workers
  /\ MaxAttempts \in Nat \ {0}
  /\ BatchLimit \in Nat \ {0}
  /\ MaxCrashes \in Nat

VARIABLES
  status,    \* ledger.status, ABSENT without a row
  attempts,  \* ledger.attempts
  reason,    \* whether ledger.reason tells of a dropped connection
  result,    \* analyzed_at and result: none, legacy, or recorded by this code
  fresh,     \* whether analyzed_at is within the refresh window
  quoted,    \* whether ledger.quote is there
  member,    \* ledger.in_universe
  holder,    \* who holds the market's lock
  pc,        \* what each process does next
  catalog,   \* universe_by_ticker: the companies the process can resolve
  current,   \* the row it is analyzing
  failed,    \* drain's failed list
  done,      \* rows this drain has finished
  due,       \* the rows requeue_transient has read and will re-queue
  crashes

row    == <<status, attempts, reason, result, fresh, quoted, member>>
memory == <<catalog, current, failed, done, due>>
vars   == <<row, holder, pc, memory, crashes>>

Terminal  == {"INSUFFICIENT_DATA", "BLOCKED"}
Finished  == Terminal \cup {"COMPLETE"}
Statuses  == Finished \cup {"ABSENT", "PENDING", "ANALYZING"}

\* Attempts beyond MAX_ATTEMPTS all compare alike: one value stands for them.
Another(n) == IF n > MaxAttempts THEN n ELSE n + 1

Init ==
  /\ status = [t \in Tickers |-> IF t \in Legacy THEN "BLOCKED" ELSE "ABSENT"]
  /\ attempts = [t \in Tickers |-> 0]
  /\ reason = [t \in Tickers |-> IF t \in Legacy THEN "outage" ELSE "other"]
  /\ result = [t \in Tickers |-> IF t \in Legacy THEN "legacy" ELSE "none"]
  /\ fresh = [t \in Tickers |-> FALSE]
  /\ quoted = [t \in Tickers |-> t \in Legacy]
  /\ member = [t \in Tickers |-> t \in Legacy]
  /\ holder = None
  /\ pc = [w \in Workers |-> "idle"]
  /\ catalog = [w \in Workers |-> {}]
  /\ current = [w \in Workers |-> None]
  /\ failed = [w \in Workers |-> {}]
  /\ done = [w \in Workers |-> 0]
  /\ due = [w \in Workers |-> {}]
  /\ crashes = 0

Goto(w, label) == pc' = [pc EXCEPT ![w] = label]

\* The process is done, or dead: its locals are gone.
Forget(w) ==
  /\ Goto(w, "idle")
  /\ catalog' = [catalog EXCEPT ![w] = {}]
  /\ current' = [current EXCEPT ![w] = None]
  /\ failed' = [failed EXCEPT ![w] = {}]
  /\ done' = [done EXCEPT ![w] = 0]
  /\ due' = [due EXCEPT ![w] = {}]

------------------------------------------------------------------------------
(***************************************************************************)
(* Queue maintenance.                                                      *)
(***************************************************************************)

\* The finished rows requeue_transient selects.
Outages == {t \in Tickers : /\ member[t]
                            /\ status[t] \in Terminal
                            /\ result[t] # "none"
                            /\ reason[t] = "outage"
                            /\ attempts[t] < MaxAttempts}

\* _needs_work: the parent of the worker re-queues without taking the lock.
Peek(w) ==
  /\ pc[w] = "idle"
  /\ Outages # {}
  /\ due' = [due EXCEPT ![w] = Outages]
  /\ Goto(w, "peek")
  /\ UNCHANGED <<row, holder, catalog, current, failed, done, crashes>>

\* Mutant: the row read as finished is taken to be so still.
AsRead(t) == TRUE

\* AND status IN (INSUFFICIENT_DATA, BLOCKED)
StillTerminal(t) == status[t] \in Terminal

\* One UPDATE of the loop over the rows read before.
Requeue(w, t) ==
  /\ pc[w] \in {"peek", "requeue"}
  /\ t \in due[w]
  /\ due' = [due EXCEPT ![w] = @ \ {t}]
  /\ IF StillTerminal(t)
       THEN /\ status' = [status EXCEPT ![t] = "PENDING"]
            /\ reason' = [reason EXCEPT ![t] = "other"]
       ELSE UNCHANGED <<status, reason>>
  /\ UNCHANGED <<attempts, result, fresh, quoted, member, holder, pc, catalog,
                 current, failed, done, crashes>>

EndRequeue(w) ==
  /\ due[w] = {}
  /\ \/ pc[w] = "peek" /\ Goto(w, "idle")
     \/ pc[w] = "requeue" /\ Goto(w, "pick")
  /\ UNCHANGED <<row, holder, memory, crashes>>

\* What sync_universe makes of the rows of one scan: a universe, the part of
\* it with a stage-1 quote, and whether the universe is the whole market.
Registered(t, quotes) ==
  IF status[t] = "ABSENT" THEN (IF t \in quotes THEN "PENDING" ELSE "INSUFFICIENT_DATA")
  ELSE IF t \in quotes /\ status[t] = "INSUFFICIENT_DATA" /\ result[t] = "none"
         THEN "PENDING"
  ELSE status[t]

\* _advance_queue starts: one transaction, without the lock.
SyncUniverse(w, universe, quotes, partial) ==
  /\ pc[w] = "idle"
  /\ status' = [t \in Tickers |-> IF t \in universe THEN Registered(t, quotes)
                                                    ELSE status[t]]
  /\ reason' = [t \in Tickers |-> IF status'[t] # status[t] THEN "other" ELSE reason[t]]
  /\ quoted' = [t \in Tickers |-> quoted[t] \/ t \in quotes]
  /\ member' = [t \in Tickers |-> t \in universe \/ (partial /\ member[t])]
  /\ catalog' = [catalog EXCEPT ![w] = IF partial THEN Tickers ELSE universe]
  /\ Goto(w, "lock")
  /\ UNCHANGED <<attempts, result, fresh, holder, current, failed, done, due, crashes>>

------------------------------------------------------------------------------
(***************************************************************************)
(* drain.                                                                  *)
(***************************************************************************)

\* Mutant: the non-blocking flock is taken for granted.
LockIgnored(w) == pc[w] = "lock"

\* LOCK_EX | LOCK_NB on the market's lock file succeeds.
LockFree(w) == holder = None

\* The status reclaim_interrupted leaves.
Reclaimed(t) == IF status[t] = "ANALYZING" THEN "PENDING" ELSE status[t]

\* Another worker owns the market: this process analyzes nothing.
SkipDrain(w) ==
  /\ pc[w] = "lock"
  /\ ~LockFree(w)
  /\ Forget(w)
  /\ UNCHANGED <<row, holder, crashes>>

\* The lock, reclaim_interrupted, and the reading half of requeue_transient.
EnterDrain(w) ==
  /\ pc[w] = "lock"
  /\ LockFree(w)
  /\ holder' = w
  /\ status' = [t \in Tickers |-> Reclaimed(t)]
  /\ reason' = [t \in Tickers |-> IF status'[t] # status[t] THEN "other" ELSE reason[t]]
  /\ due' = [due EXCEPT ![w] = Outages]
  /\ Goto(w, "requeue")
  /\ UNCHANGED <<attempts, result, fresh, quoted, member, catalog, current, failed,
                 done, crashes>>

\* next_batch(1): a pending row with the fewest attempts (liquidity breaks
\* ties), and only without one a finished row that is due for refresh, rows
\* never analyzed first.
Waiting(w) == {t \in Tickers \ failed[w] : status[t] = "PENDING" /\ member[t]}
FewestTried(w) == {t \in Waiting(w) : \A u \in Waiting(w) : attempts[t] <= attempts[u]}
Stale(w) == {t \in Tickers \ failed[w] :
               /\ status[t] \in Finished
               /\ member[t]
               /\ quoted[t]
               /\ ~fresh[t]}
Oldest(w) == LET never == {t \in Stale(w) : result[t] = "none"} IN
               IF never # {} THEN never ELSE Stale(w)
NextBatch(w) == IF Waiting(w) # {} THEN FewestTried(w) ELSE Oldest(w)

\* Mutant: one row more than batch_limit.
OneMore(w) == done[w] <= BatchLimit

\* sum(processed.values()) < batch_limit
Room(w) == done[w] < BatchLimit

\* The next row is one this process's catalog does not have.
Unresolved(w, t) ==
  /\ pc[w] = "pick"
  /\ Room(w)
  /\ t \in NextBatch(w) \ catalog[w]
  /\ status' = [status EXCEPT ![t] = "INSUFFICIENT_DATA"]
  /\ reason' = [reason EXCEPT ![t] = "other"]
  /\ done' = [done EXCEPT ![w] = @ + 1]
  /\ UNCHANGED <<attempts, result, fresh, quoted, member, holder, pc, catalog,
                 current, failed, due, crashes>>

\* mark_analyzing: a row with a result keeps its status while it is refreshed.
Claim(w, t) ==
  /\ pc[w] = "pick"
  /\ Room(w)
  /\ t \in NextBatch(w) \cap catalog[w]
  /\ status' = [status EXCEPT ![t] = IF result[t] = "none" THEN "ANALYZING" ELSE @]
  /\ current' = [current EXCEPT ![w] = t]
  /\ Goto(w, "analyze")
  /\ UNCHANGED <<attempts, reason, result, fresh, quoted, member, holder, catalog,
                 failed, done, due, crashes>>

\* The bookkeeping of drain after a row, and the columns both writers share.
Recorded(w, t, newStatus) ==
  /\ status' = [status EXCEPT ![t] = newStatus]
  /\ current' = [current EXCEPT ![w] = None]
  /\ done' = [done EXCEPT ![w] = @ + 1]
  /\ Goto(w, "pick")
  /\ UNCHANGED <<quoted, member, holder, catalog, due, crashes>>

\* record_result of an analysis whose sources answered.
RecordVerdict(w, verdict) ==
  /\ pc[w] = "analyze"
  /\ LET t == current[w] IN
       /\ Recorded(w, t, verdict)
       /\ attempts' = [attempts EXCEPT ![t] = 0]
       /\ reason' = [reason EXCEPT ![t] = "other"]
       /\ result' = [result EXCEPT ![t] = "recorded"]
       /\ fresh' = [fresh EXCEPT ![t] = TRUE]
  /\ UNCHANGED failed

\* Mutant: an outage is recorded as a verdict at once.
OutageAtOnce(n, verdict) == verdict

\* What record_result makes of a dropped connection on the n-th attempt.
AfterOutage(n, verdict) == IF n < MaxAttempts THEN "PENDING" ELSE verdict

\* record_result of an analysis some source dropped: retried on a later run.
RecordOutage(w, verdict) ==
  /\ pc[w] = "analyze"
  /\ LET t == current[w]
         n == Another(attempts[t])
         s == AfterOutage(n, verdict)
     IN /\ Recorded(w, t, s)
        /\ attempts' = [attempts EXCEPT ![t] = n]
        /\ reason' = [reason EXCEPT ![t] = "outage"]
        /\ result' = [result EXCEPT ![t] = "recorded"]
        /\ fresh' = [fresh EXCEPT ![t] = TRUE]
        /\ failed' = [failed EXCEPT ![w] = IF s = "PENDING" THEN @ \cup {t} ELSE @]

\* record_error: an analysis that raised keeps an earlier result and its status.
RecordError(w) ==
  /\ pc[w] = "analyze"
  /\ LET t == current[w]
         n == Another(attempts[t])
     IN /\ \/ result[t] # "none" /\ Recorded(w, t, status[t]) /\ UNCHANGED reason
           \/ /\ result[t] = "none"
              /\ Recorded(w, t, IF n < MaxAttempts THEN "PENDING" ELSE "INSUFFICIENT_DATA")
              /\ reason' = [reason EXCEPT ![t] = "other"]
        /\ attempts' = [attempts EXCEPT ![t] = n]
        /\ failed' = [failed EXCEPT ![w] = @ \cup {t}]
  /\ UNCHANGED <<result, fresh>>

\* The batch is full, nothing is left, or the time budget is spent.
Leave(w) ==
  /\ pc[w] = "pick"
  /\ holder' = None
  /\ Forget(w)
  /\ UNCHANGED <<row, crashes>>

------------------------------------------------------------------------------
\* A process is killed wherever it is; the kernel frees its lock.
Crash(w) ==
  /\ pc[w] # "idle"
  /\ crashes < MaxCrashes
  /\ crashes' = crashes + 1
  /\ holder' = IF holder = w THEN None ELSE holder
  /\ Forget(w)
  /\ UNCHANGED row

\* The refresh window of a recorded result passes.
Age(t) ==
  /\ fresh[t]
  /\ fresh' = [fresh EXCEPT ![t] = FALSE]
  /\ UNCHANGED <<status, attempts, reason, result, quoted, member, holder, pc,
                 memory, crashes>>

Sync(w) == \E universe \in SUBSET Tickers \ {{}} : \E quotes \in SUBSET universe :
             \E partial \in BOOLEAN : SyncUniverse(w, universe, quotes, partial)

Analyzed(w) == \/ \E verdict \in Finished : RecordVerdict(w, verdict)
               \/ \E verdict \in Terminal : RecordOutage(w, verdict)
               \/ RecordError(w)

Drain(w) == \/ SkipDrain(w) \/ EnterDrain(w) \/ EndRequeue(w) \/ Leave(w)
            \/ \E t \in Tickers : Requeue(w, t) \/ Unresolved(w, t) \/ Claim(w, t)
            \/ Analyzed(w)

Next == \/ \E w \in Workers : Peek(w) \/ Sync(w) \/ Drain(w) \/ Crash(w)
        \/ \E t \in Tickers : Age(t)

Spec == Init /\ [][Next]_vars

------------------------------------------------------------------------------
(***************************************************************************)
(* Properties.                                                             *)
(***************************************************************************)

\* Every column and every local of the processes holds a value of its type.
TypeOK ==
  /\ status \in [Tickers -> Statuses]
  /\ attempts \in [Tickers -> 0..(MaxAttempts + 1)]
  /\ reason \in [Tickers -> {"outage", "other"}]
  /\ result \in [Tickers -> {"none", "legacy", "recorded"}]
  /\ fresh \in [Tickers -> BOOLEAN]
  /\ quoted \in [Tickers -> BOOLEAN]
  /\ member \in [Tickers -> BOOLEAN]
  /\ holder \in Workers \cup {None}
  /\ pc \in [Workers -> {"idle", "peek", "lock", "requeue", "pick", "analyze"}]
  /\ catalog \in [Workers -> SUBSET Tickers]
  /\ current \in [Workers -> Tickers \cup {None}]
  /\ failed \in [Workers -> SUBSET Tickers]
  /\ done \in [Workers -> 0..BatchLimit]
  /\ due \in [Workers -> SUBSET Tickers]
  /\ crashes \in 0..MaxCrashes

Draining(w) == pc[w] \in {"requeue", "pick", "analyze"}

\* One process drains a market at a time, and while it does, the only row
\* marked ANALYZING is the one it is analyzing: rows of a process that died
\* are back in the queue, and none is taken from a process that lives.
AnalyzingIsOwned ==
  \A w \in Workers : Draining(w) =>
    /\ \A v \in Workers : Draining(v) => v = w
    /\ {t \in Tickers : status[t] = "ANALYZING"} \subseteq {current[w]}

\* A dropped connection is a verdict on no company: a row this code recorded
\* ends in INSUFFICIENT_DATA or BLOCKED for one only after MAX_ATTEMPTS.
OutageIsNoVerdict ==
  \A t \in Tickers :
    (result[t] = "recorded" /\ status[t] \in Terminal /\ reason[t] = "outage")
      => attempts[t] >= MaxAttempts

\* A verdict the sources gave is only replaced by the process that analyzed
\* the row, or by one whose catalog lost it: no peek, sync or crash of another
\* process takes a company out of the ranking.
CompleteIsKept ==
  [][\A t \in Tickers : (status[t] = "COMPLETE" /\ status'[t] # "COMPLETE") =>
       \E w \in Workers : /\ holder = w
                          /\ \/ current[w] = t
                             \/ t \notin catalog[w] /\ status'[t] = "INSUFFICIENT_DATA"]_vars

\* src/analysis/global_markets/analysis_ledger.py:560 (record_error): a crashed
\* analysis is retried, then recorded.  The failure that uses up MAX_ATTEMPTS
\* does not leave the row waiting for another try.
RetriesBounded ==
  [][\A t \in Tickers : (attempts'[t] > attempts[t] /\ attempts'[t] >= MaxAttempts)
                            => status'[t] # "PENDING"]_vars
==============================================================================
