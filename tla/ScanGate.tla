------------------------------- MODULE ScanGate -------------------------------
(***************************************************************************)
(* Admission control of interactive market scans:                          *)
(* src/analysis/global_markets/scan_gate.py, ScanGate.run.                 *)
(*                                                                         *)
(* Every call is a thread of the API.  The first call for a key leads: it  *)
(* publishes a future under the lock, takes a permit and runs the scan.    *)
(* Calls that find the future follow it.  A result is named by the call    *)
(* whose scan produced it; a failure by its stable code, SCAN_BUSY or not. *)
(***************************************************************************)
EXTENDS Integers, FiniteSets

CONSTANTS Calls, Keys,
          MaxConcurrent  \* max_concurrent

VARIABLES
  inflight,  \* _inflight: the leader whose future is published, by key
  permits,   \* the semaphore's counter
  pc,        \* where each call is in run
  key,       \* the key it was called with
  leader,    \* the call whose future it holds
  future,    \* what each leader's future was set to
  answer     \* what each call returned or raised

gateVars == <<inflight, permits, pc, key, leader, future, answer>>

None     == "none"
Busy     == "SCAN_BUSY"
Failed   == "failure"
Outcomes == Calls \cup {Busy, Failed}

ASSUME GateAssumption ==
  /\ IsFiniteSet(Calls)
  /\ {None, Busy, Failed} \cap Calls = {}
  /\ MaxConcurrent \in Nat \ {0}

GateInit ==
  /\ inflight = [k \in Keys |-> None]
  /\ permits = MaxConcurrent
  /\ pc = [c \in Calls |-> "new"]
  /\ key = [c \in Calls |-> None]
  /\ leader = [c \in Calls |-> None]
  /\ future = [c \in Calls |-> None]
  /\ answer = [c \in Calls |-> None]

Goto(c, label) == pc' = [pc EXCEPT ![c] = label]

Answer(c, outcome) ==
  /\ answer' = [answer EXCEPT ![c] = outcome]
  /\ Goto(c, "returned")

------------------------------------------------------------------------------
\* Mutant: every call leads.
AlwaysLeads(k) == TRUE

\* existing is None
NobodyLeads(k) == inflight[k] = None

\* The first critical section: join the future of the key, or publish one.
Enter(c, k) ==
  /\ pc[c] = "new"
  /\ key' = [key EXCEPT ![c] = k]
  /\ \/ /\ NobodyLeads(k)
        /\ inflight' = [inflight EXCEPT ![k] = c]
        /\ leader' = [leader EXCEPT ![c] = c]
        /\ Goto(c, "queue")
     \/ /\ ~NobodyLeads(k)
        /\ leader' = [leader EXCEPT ![c] = inflight[k]]
        /\ Goto(c, "follow")
        /\ UNCHANGED inflight
  /\ UNCHANGED <<permits, future, answer>>

\* future.result returns or raises what the leader set.
Share(c) ==
  /\ pc[c] = "follow"
  /\ future[leader[c]] # None
  /\ Answer(c, future[leader[c]])
  /\ UNCHANGED <<inflight, permits, key, leader, future>>

\* Mutant: future.result without a timeout.
WaitsForever(c) == FALSE

\* The future is still not set when wait_sec is over.
WaitedOut(c) == future[leader[c]] = None

FollowTimeout(c) ==
  /\ pc[c] = "follow"
  /\ WaitedOut(c)
  /\ Answer(c, Busy)
  /\ UNCHANGED <<inflight, permits, key, leader, future>>

------------------------------------------------------------------------------
(***************************************************************************)
(* The leader.                                                             *)
(***************************************************************************)

FreePermit == permits > 0

Acquire(c) ==
  /\ pc[c] = "queue"
  /\ FreePermit
  /\ permits' = permits - 1
  /\ Goto(c, "run")
  /\ UNCHANGED <<inflight, key, leader, future, answer>>

\* No permit within queue_wait_sec: the failure is shared, nothing is run.
QueueTimeout(c) ==
  /\ pc[c] = "queue"
  /\ ~FreePermit
  /\ Goto(c, "refused")
  /\ UNCHANGED <<inflight, permits, key, leader, future, answer>>

\* fn returns or raises.
ScanEnds(c) ==
  /\ pc[c] = "run"
  /\ \/ Goto(c, "succeeded")
     \/ Goto(c, "failed")
  /\ UNCHANGED <<inflight, permits, key, leader, future, answer>>

\* Mutant: the finally clause spans the wait for the permit.
ReleasesAlways(c) == pc[c] \in {"succeeded", "set failure", "popped refusal"}

\* The finally clause: first on success, after the future is set on failure.
HoldsDone(c) == pc[c] \in {"succeeded", "set failure"}

Release(c) ==
  /\ HoldsDone(c)
  /\ permits' = permits + 1
  /\ IF pc[c] = "succeeded"
       THEN Goto(c, "released") /\ UNCHANGED answer
       ELSE Answer(c, future[c])
  /\ UNCHANGED <<inflight, key, leader, future>>

\* Mutant: a failed leader leaves its future in the table.
Poisoned(c) == IF pc[c] = "released" THEN None ELSE inflight[key[c]]

\* What the table holds for the key of a leader after its pop.
Popped(c) == None

\* The second critical section: the key is free for a new leader.
Pop(c) ==
  /\ \/ pc[c] = "released" /\ Goto(c, "popped result")
     \/ pc[c] = "failed"   /\ Goto(c, "popped failure")
     \/ pc[c] = "refused"  /\ Goto(c, "popped refusal")
  /\ inflight' = [inflight EXCEPT ![key[c]] = Popped(c)]
  /\ UNCHANGED <<permits, key, leader, future, answer>>

\* Mutant: a refused leader tells its followers of an empty result.
EmptyResult(c) == IF pc[c] = "popped failure" THEN Failed ELSE c

\* What set_result or set_exception is given.
Published(c) == CASE pc[c] = "popped result"  -> c
                  [] pc[c] = "popped failure" -> Failed
                  [] pc[c] = "popped refusal" -> Busy

SetFuture(c) ==
  /\ pc[c] \in {"popped result", "popped failure", "popped refusal"}
  /\ future' = [future EXCEPT ![c] = Published(c)]
  /\ CASE pc[c] = "popped result"  -> Answer(c, c)
       [] pc[c] = "popped refusal" -> Answer(c, Busy)
       [] pc[c] = "popped failure" -> Goto(c, "set failure") /\ UNCHANGED answer
  /\ UNCHANGED <<inflight, permits, key, leader>>

Proceed(c) == \/ Share(c) \/ FollowTimeout(c)
              \/ Acquire(c) \/ QueueTimeout(c)
              \/ Release(c) \/ Pop(c) \/ SetFuture(c)

GateNext == \E c \in Calls : \/ \E k \in Keys : Enter(c, k)
                             \/ Proceed(c)
                             \/ ScanEnds(c)

GateSpec == GateInit /\ [][GateNext]_gateVars

\* Threads are scheduled and both waits are bounded; a scan may hang for ever.
FairGateSpec == GateSpec /\ \A c \in Calls : WF_gateVars(Proceed(c))

------------------------------------------------------------------------------
(***************************************************************************)
(* Properties.                                                             *)
(***************************************************************************)

\* Every variable holds a value of its type.
GateTypeOK ==
  /\ inflight \in [Keys -> Calls \cup {None}]
  /\ permits \in 0..MaxConcurrent
  /\ pc \in [Calls -> {"new", "follow", "queue", "run", "succeeded", "failed",
                       "refused", "released", "popped result", "popped failure",
                       "popped refusal", "set failure", "returned"}]
  /\ key \in [Calls -> Keys \cup {None}]
  /\ leader \in [Calls -> Calls \cup {None}]
  /\ future \in [Calls -> Outcomes \cup {None}]
  /\ answer \in [Calls -> Outcomes \cup {None}]

\* The calls that have taken a permit and not given it back.
Holders == {c \in Calls : pc[c] \in {"run", "succeeded", "failed",
                                     "popped failure", "set failure"}}

\* No path loses or invents a permit: those that are out are held by leaders
\* whose scan has begun, so never more than max_concurrent scans run.
PermitsConserved == permits + Cardinality(Holders) = MaxConcurrent

\* Identical scans run one at a time, also while a leader that failed or was
\* refused is making way for the next one.
OneScanPerKey ==
  \A c, d \in Calls : (pc[c] = "run" /\ pc[d] = "run" /\ key[c] = key[d]) => c = d

\* A call answers what its leader's future was set to, the leader too; only a
\* follower may say SCAN_BUSY of its own: no failure becomes a result.
OutcomeShared ==
  \A c \in Calls : answer[c] # None =>
    \/ answer[c] = future[leader[c]]
    \/ answer[c] = Busy /\ leader[c] # c

\* A call never joins a scan that is over: nobody is handed an outcome, or a
\* failure, that was known before it asked.
NoLateJoin ==
  [][\A c \in Calls : (pc[c] = "new" /\ pc'[c] = "follow") =>
       future[leader'[c]] = None]_gateVars

\* Whoever is not running a scan itself is answered, or gets to run it, even
\* if other scans hang for ever.
EveryCallerMovesOn ==
  \A c \in Calls : (pc[c] \notin {"new", "run"}) ~> (pc[c] \in {"run", "returned"})

\* The abstract promise: whoever boards a flight before it closes is told what
\* it lands with, and a closed one takes nobody aboard.
Flights == INSTANCE SharedFlight WITH
  Failures <- {Busy, Failed},
  boarding <- inflight, aboard <- leader, landed <- future, told <- answer

ImplementsFlights == Flights!Spec
==============================================================================
