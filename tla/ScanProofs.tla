----------------------------- MODULE ScanProofs -----------------------------
(***************************************************************************)
(* Proofs about the scans of a market: the gate that admits them           *)
(* (ScanGate), for any number of calls, keys and permits, and the files    *)
(* they and the benchmark jobs write (ScanArtifact), for any number of     *)
(* jobs and scans.                                                         *)
(*                                                                         *)
(* ScanGate: the inductive invariant ties the table of futures to the      *)
(* calls that lead: a call leads from the first critical section to the    *)
(* second, and until then the table has it and its future is not set.  The *)
(* same invariant makes each step one of SharedFlight or invisible.        *)
(*                                                                         *)
(* ScanArtifact: nothing compounds because a repriced file always has its  *)
(* scan in .base: the artifact and .prev between publications, and what a  *)
(* job is about to write in the base it is about to leave.  Between the    *)
(* writes of a publication the files need not agree, which is why the lock *)
(* and an uncut publication matter.                                        *)
(***************************************************************************)
EXTENDS ScanGate, ScanArtifact, FiniteSetTheorems, TLAPS

------------------------------------------------------------------------------
(***************************************************************************)
(* ScanGate.                                                               *)
(***************************************************************************)

\* A call between its two critical sections.
Leading(c) == pc[c] \in {"queue", "run", "succeeded", "released", "failed", "refused"}

\* A call that has left the table and not yet set its future.
Popping(c) == pc[c] \in {"popped result", "popped failure", "popped refusal"}

\* GateTypeOK but for the upper bound of the permits.
Typed ==
  /\ inflight \in [Keys -> Calls \cup {None}]
  /\ permits \in Nat
  /\ pc \in [Calls -> {"new", "follow", "queue", "run", "succeeded", "failed",
                       "refused", "released", "popped result", "popped failure",
                       "popped refusal", "set failure", "returned"}]
  /\ key \in [Calls -> Keys \cup {None}]
  /\ leader \in [Calls -> Calls \cup {None}]
  /\ future \in [Calls -> Outcomes \cup {None}]
  /\ answer \in [Calls -> Outcomes \cup {None}]

\* Every call past its first critical section knows its key and its leader, and
\* no other does.
Entered ==
  \A c \in Calls : /\ pc[c] # "new" => key[c] \in Keys /\ leader[c] \in Calls
                   /\ pc[c] = "new" => leader[c] = None
                   /\ pc[c] = "follow" => leader[c] # c

\* The table holds the calls that lead, each under its key, and nobody else.
TableExact ==
  /\ \A c \in Calls : Leading(c) => inflight[key[c]] = c
  /\ \A k \in Keys, c \in Calls : inflight[k] = c => Leading(c) /\ key[c] = k

\* A leader follows itself; its future is set after it has left the table.
FutureOpen ==
  \A c \in Calls :
    /\ Leading(c) \/ Popping(c) \/ pc[c] = "set failure" => leader[c] = c
    /\ Leading(c) \/ Popping(c) \/ pc[c] = "new" => future[c] = None
    /\ pc[c] = "set failure" => future[c] # None

\* Nothing is answered before the call returns.
AnswerOpen == \A c \in Calls : pc[c] # "returned" => answer[c] = None

GateInv == Typed /\ Entered /\ TableExact /\ FutureOpen /\ AnswerOpen /\ OutcomeShared

\* An idle gate satisfies the invariant.
LEMMA InitGate == GateInit => GateInv
  BY GateAssumption DEF GateInit, GateInv, Typed, Entered, TableExact, FutureOpen,
     AnswerOpen, OutcomeShared, Leading, Popping

\* The first critical section of a leader.
LEMMA LeadGate ==
  ASSUME GateInv, NEW c \in Calls, NEW k \in Keys, Enter(c, k), NobodyLeads(k)
  PROVE  GateInv'
<1>1. /\ pc[c] = "new"
      /\ inflight[k] = None
      /\ inflight' = [inflight EXCEPT ![k] = c]
      /\ leader' = [leader EXCEPT ![c] = c]
      /\ pc' = [pc EXCEPT ![c] = "queue"]
      /\ key' = [key EXCEPT ![c] = k]
      /\ UNCHANGED <<permits, future, answer>>
  BY DEF Enter, NobodyLeads, Goto
<1>2. Typed'
  BY <1>1 DEF GateInv, Typed
<1>3. Entered'
  BY <1>1 DEF GateInv, Typed, Entered
<1>4. TableExact'
  <2>1. ASSUME NEW d \in Calls, Leading(d)'
        PROVE  inflight'[key'[d]] = d
    <3>1. CASE d = c
      BY <1>1, <3>1 DEF GateInv, Typed
    <3>2. CASE d # c
      <4>1. Leading(d) /\ key'[d] = key[d] /\ key[d] \in Keys
        BY <1>1, <2>1, <3>2 DEF GateInv, Typed, Entered, Leading
      <4>2. inflight[key[d]] = d /\ key[d] # k
        BY <1>1, <4>1, GateAssumption DEF GateInv, TableExact
      <4> QED  BY <1>1, <4>1, <4>2 DEF GateInv, Typed
    <3> QED  BY <3>1, <3>2
  <2>2. ASSUME NEW j \in Keys, NEW d \in Calls, inflight'[j] = d
        PROVE  Leading(d)' /\ key'[d] = j
    <3>1. CASE j = k
      BY <1>1, <2>2, <3>1 DEF GateInv, Typed, Leading
    <3>2. CASE j # k
      <4>1. inflight[j] = d
        BY <1>1, <2>2, <3>2 DEF GateInv, Typed
      <4>2. Leading(d) /\ key[d] = j /\ d # c
        BY <1>1, <4>1 DEF GateInv, TableExact, Leading
      <4> QED  BY <1>1, <4>2 DEF GateInv, Typed, Leading
    <3> QED  BY <3>1, <3>2
  <2> QED  BY <2>1, <2>2 DEF TableExact
<1>5. FutureOpen'
  BY <1>1 DEF GateInv, Typed, FutureOpen, Leading, Popping
<1>6. AnswerOpen' /\ OutcomeShared'
  BY <1>1 DEF GateInv, Typed, AnswerOpen, OutcomeShared
<1> QED  BY <1>2, <1>3, <1>4, <1>5, <1>6 DEF GateInv

\* The first critical section of a follower.
LEMMA JoinGate ==
  ASSUME GateInv, NEW c \in Calls, NEW k \in Keys, Enter(c, k), ~NobodyLeads(k)
  PROVE  GateInv'
<1>1. /\ pc[c] = "new"
      /\ inflight[k] # None
      /\ leader' = [leader EXCEPT ![c] = inflight[k]]
      /\ pc' = [pc EXCEPT ![c] = "follow"]
      /\ key' = [key EXCEPT ![c] = k]
      /\ UNCHANGED <<inflight, permits, future, answer>>
  BY DEF Enter, NobodyLeads, Goto
<1>2. Typed'
  BY <1>1 DEF GateInv, Typed
<1>3. Entered'
  <2>1. inflight[k] \in Calls
    BY <1>1 DEF GateInv, Typed
  <2>2. inflight[k] # c
    BY <1>1 DEF GateInv, TableExact, Leading
  <2> QED  BY <1>1, <2>1, <2>2 DEF GateInv, Typed, Entered
<1>4. TableExact'
  <2>1. \A d \in Calls : Leading(d)' <=> Leading(d)
    BY <1>1 DEF GateInv, Typed, Leading
  <2>2. \A d \in Calls : Leading(d) => key'[d] = key[d]
    BY <1>1 DEF GateInv, Typed, Leading
  <2> QED  BY <1>1, <2>1, <2>2 DEF GateInv, TableExact
<1>5. FutureOpen'
  BY <1>1 DEF GateInv, Typed, FutureOpen, Leading, Popping
<1>6. AnswerOpen' /\ OutcomeShared'
  BY <1>1 DEF GateInv, Typed, AnswerOpen, OutcomeShared
<1> QED  BY <1>2, <1>3, <1>4, <1>5, <1>6 DEF GateInv

\* A call that only moves between two places where it leads.
LEMMA LeadingOn ==
  ASSUME GateInv, NEW c \in Calls, Leading(c), permits' \in Nat,
         pc' \in {[pc EXCEPT ![c] = l] :
                    l \in {"run", "succeeded", "released", "failed", "refused"}},
         UNCHANGED <<inflight, key, leader, future, answer>>
  PROVE  GateInv'
<1>1. PICK l \in {"run", "succeeded", "released", "failed", "refused"} :
        pc' = [pc EXCEPT ![c] = l]
  OBVIOUS
<1>2. Typed'
  BY <1>1 DEF GateInv, Typed
<1>3. Entered'
  BY <1>1 DEF GateInv, Typed, Entered, Leading
<1>4. TableExact'
  <2>1. \A d \in Calls : Leading(d)' <=> Leading(d)
    BY <1>1 DEF GateInv, Typed, Leading
  <2> QED  BY <2>1 DEF GateInv, TableExact
<1>5. FutureOpen'
  BY <1>1 DEF GateInv, Typed, FutureOpen, Leading, Popping
<1>6. AnswerOpen' /\ OutcomeShared'
  BY <1>1 DEF GateInv, Typed, AnswerOpen, OutcomeShared, Leading
<1> QED  BY <1>2, <1>3, <1>4, <1>5, <1>6 DEF GateInv

\* A call that is answered without leaving the table: it has not been in it,
\* or not for a while.
LEMMA AnsweredGate ==
  ASSUME GateInv, NEW c \in Calls, NEW o \in Outcomes \cup {None}, Answer(c, o),
         pc[c] \in {"follow", "set failure"}, permits' \in Nat,
         o = future[leader[c]] \/ (o = Busy /\ leader[c] # c),
         UNCHANGED <<inflight, key, leader, future>>
  PROVE  GateInv'
<1>1. /\ pc' = [pc EXCEPT ![c] = "returned"]
      /\ answer' = [answer EXCEPT ![c] = o]
  BY DEF Answer, Goto
<1>2. Typed'
  BY <1>1 DEF GateInv, Typed
<1>3. Entered'
  BY <1>1 DEF GateInv, Typed, Entered
<1>4. TableExact'
  <2>1. \A d \in Calls : Leading(d)' <=> Leading(d)
    BY <1>1 DEF GateInv, Typed, Leading
  <2> QED  BY <2>1 DEF GateInv, TableExact
<1>5. FutureOpen'
  BY <1>1 DEF GateInv, Typed, FutureOpen, Leading, Popping
<1>6. AnswerOpen' /\ OutcomeShared'
  BY <1>1 DEF GateInv, Typed, AnswerOpen, OutcomeShared
<1> QED  BY <1>2, <1>3, <1>4, <1>5, <1>6 DEF GateInv

\* The second critical section.
LEMMA PopGate ==
  ASSUME GateInv, NEW c \in Calls, Pop(c)
  PROVE  GateInv'
<1>1. /\ Leading(c) /\ key[c] \in Keys /\ inflight[key[c]] = c
      /\ inflight' = [inflight EXCEPT ![key[c]] = None]
      /\ UNCHANGED <<permits, key, leader, future, answer>>
  BY DEF Pop, Popped, Leading, GateInv, Entered, TableExact
<1>2. PICK l \in {"popped result", "popped failure", "popped refusal"} :
        pc' = [pc EXCEPT ![c] = l]
  BY DEF Pop, Goto
<1>3. Typed'
  BY <1>1, <1>2 DEF GateInv, Typed
<1>4. Entered'
  BY <1>1, <1>2 DEF GateInv, Typed, Entered, Leading
<1>5. TableExact'
  <2>1. \A d \in Calls : Leading(d)' <=> (Leading(d) /\ d # c)
    BY <1>2 DEF GateInv, Typed, Leading
  <2>2. ASSUME NEW d \in Calls, Leading(d), d # c
        PROVE  inflight'[key[d]] = d
    <3>1. inflight[key[d]] = d /\ key[d] \in Keys
      BY <2>2 DEF GateInv, Entered, TableExact, Leading
    <3>2. key[d] # key[c]
      BY <1>1, <2>2, <3>1
    <3> QED  BY <1>1, <3>1, <3>2 DEF GateInv, Typed
  <2>3. ASSUME NEW j \in Keys, NEW d \in Calls, inflight'[j] = d
        PROVE  Leading(d) /\ d # c /\ key[d] = j
    <3>1. j # key[c]
      BY <1>1, <2>3, GateAssumption DEF GateInv, Typed
    <3>2. inflight[j] = d
      BY <1>1, <2>3, <3>1 DEF GateInv, Typed
    <3>3. Leading(d) /\ key[d] = j
      BY <3>2 DEF GateInv, TableExact
    <3> QED  BY <3>1, <3>3
  <2> QED  BY <1>1, <2>1, <2>2, <2>3 DEF TableExact
<1>6. FutureOpen'
  BY <1>1, <1>2 DEF GateInv, Typed, FutureOpen, Leading, Popping
<1>7. AnswerOpen' /\ OutcomeShared'
  BY <1>1, <1>2 DEF GateInv, Typed, AnswerOpen, OutcomeShared, Leading
<1> QED  BY <1>3, <1>4, <1>5, <1>6, <1>7 DEF GateInv

\* The future is set once, and nobody has answered from it before.
LEMMA PublishGate ==
  ASSUME GateInv, NEW c \in Calls, SetFuture(c)
  PROVE  GateInv'
<1>1. /\ Popping(c) /\ leader[c] = c /\ future[c] = None /\ answer[c] = None
      /\ UNCHANGED <<inflight, permits, key, leader>>
  BY DEF SetFuture, Popping, GateInv, FutureOpen, AnswerOpen
<1>2. PICK o \in Outcomes : /\ o # None
                            /\ future' = [future EXCEPT ![c] = o]
                            /\ \/ /\ pc' = [pc EXCEPT ![c] = "returned"]
                                  /\ answer' = [answer EXCEPT ![c] = o]
                               \/ /\ pc' = [pc EXCEPT ![c] = "set failure"]
                                  /\ answer' = answer
  <2>1. CASE pc[c] = "popped result"
    BY <2>1, GateAssumption DEF SetFuture, Published, Answer, Goto, Outcomes, None
  <2>2. CASE pc[c] = "popped failure"
    BY <2>2 DEF SetFuture, Published, Answer, Goto, Outcomes, None, Failed
  <2>3. CASE pc[c] = "popped refusal"
    BY <2>3 DEF SetFuture, Published, Answer, Goto, Outcomes, None, Busy
  <2> QED  BY <1>1, <2>1, <2>2, <2>3 DEF Popping
<1>3. Typed'
  BY <1>1, <1>2, ZenonT(40) DEF GateInv, Typed
<1>4. Entered'
  BY <1>1, <1>2, ZenonT(40) DEF GateInv, Typed, Entered, Popping
<1>5. TableExact'
  <2>1. \A d \in Calls : Leading(d)' <=> Leading(d)
    BY <1>1, <1>2 DEF GateInv, Typed, Leading, Popping
  <2> QED  BY <1>1, <2>1 DEF GateInv, TableExact
<1>6. FutureOpen'
  BY <1>1, <1>2 DEF GateInv, Typed, FutureOpen, Leading, Popping
<1>7. AnswerOpen'
  BY <1>1, <1>2 DEF GateInv, Typed, AnswerOpen
<1>8. OutcomeShared'
  <2> SUFFICES ASSUME NEW d \in Calls, answer'[d] # None
               PROVE  \/ answer'[d] = future'[leader[d]]
                      \/ answer'[d] = Busy /\ leader[d] # d
    BY <1>1 DEF OutcomeShared
  <2>1. CASE d = c
    BY <1>1, <1>2, <2>1, ZenonT(40) DEF GateInv, Typed
  <2>2. CASE d # c
    <3>1. answer'[d] = answer[d] /\ leader[d] \in Calls
      BY <1>2, <2>2 DEF GateInv, Typed, Entered, AnswerOpen
    <3>2. answer[d] = future[leader[d]] \/ (answer[d] = Busy /\ leader[d] # d)
      BY <3>1 DEF GateInv, OutcomeShared
    <3>3. CASE leader[d] = c
      BY <1>1, <3>1, <3>2, <3>3
    <3>4. CASE leader[d] # c
      <4>1. future'[leader[d]] = future[leader[d]]
        BY <1>2, <3>1, <3>4 DEF GateInv, Typed
      <4> QED  BY <3>1, <3>2, <4>1
    <3> QED  BY <3>3, <3>4
  <2> QED  BY <2>1, <2>2
<1> QED  BY <1>3, <1>4, <1>5, <1>6, <1>7, <1>8 DEF GateInv

\* Every step of a call keeps the invariant.
LEMMA NextGate == GateInv /\ [GateNext]_gateVars => GateInv'
<1> SUFFICES ASSUME GateInv, [GateNext]_gateVars
             PROVE  GateInv'
  OBVIOUS
<1>1. CASE UNCHANGED gateVars
  BY <1>1, ZenonT(40) DEF gateVars, GateInv, Typed, Entered, TableExact, FutureOpen, AnswerOpen,
     OutcomeShared, Leading, Popping
<1>2. ASSUME NEW c \in Calls, NEW k \in Keys, Enter(c, k)
      PROVE  GateInv'
  BY <1>2, LeadGate, JoinGate
<1>3. ASSUME NEW c \in Calls, Share(c) \/ FollowTimeout(c)
      PROVE  GateInv'
  <2>1. leader[c] \in Calls /\ leader[c] # c /\ permits \in Nat
    BY <1>3 DEF Share, FollowTimeout, GateInv, Typed, Entered
  <2>2. CASE Share(c)
    <3>1. future[leader[c]] \in Outcomes \cup {None}
      BY <2>1 DEF GateInv, Typed
    <3> QED  BY <2>1, <2>2, <3>1, AnsweredGate DEF Share
  <2>3. CASE FollowTimeout(c)
    BY <2>1, <2>3, AnsweredGate DEF FollowTimeout, Outcomes
  <2> QED  BY <1>3, <2>2, <2>3
<1>4. ASSUME NEW c \in Calls, Acquire(c) \/ QueueTimeout(c) \/ ScanEnds(c)
      PROVE  GateInv'
  <2>1. /\ Leading(c)
        /\ pc' \in {[pc EXCEPT ![c] = l] :
                     l \in {"run", "succeeded", "released", "failed", "refused"}}
        /\ UNCHANGED <<inflight, key, leader, future, answer>>
    BY <1>4 DEF Acquire, QueueTimeout, ScanEnds, Goto, Leading
  <2>2. permits \in Nat
    BY DEF GateInv, Typed
  <2>3. (permits > 0 /\ permits' = permits - 1) \/ permits' = permits
    BY <1>4 DEF Acquire, FreePermit, QueueTimeout, ScanEnds
  <2>4. permits' \in Nat
    BY <2>2, <2>3
  <2> QED  BY <2>1, <2>4, LeadingOn
<1>5. ASSUME NEW c \in Calls, Release(c)
      PROVE  GateInv'
  <2>1. permits' \in Nat
    <3>1. permits \in Nat /\ permits' = permits + 1
      BY <1>5 DEF Release, GateInv, Typed
    <3> QED  BY <3>1
  <2>2. CASE pc[c] = "succeeded"
    BY <1>5, <2>1, <2>2, LeadingOn DEF Release, Goto, Leading
  <2>3. CASE pc[c] = "set failure"
    <3>1. leader[c] = c /\ future[c] \in Outcomes \cup {None}
      BY <2>3 DEF GateInv, Typed, FutureOpen
    <3> QED  BY <1>5, <2>1, <2>3, <3>1, AnsweredGate DEF Release
  <2> QED  BY <1>5, <2>2, <2>3 DEF Release, HoldsDone
<1> QED  BY <1>1, <1>2, <1>3, <1>4, <1>5, PopGate, PublishGate DEF GateNext, Proceed

(***************************************************************************)
(* The invariant and what follows from it.                                 *)
(***************************************************************************)

\* The invariant of the gate.
THEOREM GateInvariant == GateSpec => []GateInv
<1> QED  BY InitGate, NextGate, PTL DEF GateSpec

\* Identical scans run one at a time, whatever the number of permits.
THEOREM SingleFlight == GateSpec => []OneScanPerKey
<1>1. GateInv => OneScanPerKey
  BY DEF GateInv, TableExact, OneScanPerKey, Leading
<1> QED  BY <1>1, GateInvariant, PTL

\* No failure is ever answered as a result: all calls of a flight are told
\* what its leader's future was set to.
THEOREM OutcomeKept == GateSpec => []OutcomeShared
<1>1. GateInv => OutcomeShared
  BY DEF GateInv
<1> QED  BY <1>1, GateInvariant, PTL

\* A step of one call moves no other call.
LEMMA StepsItself ==
  ASSUME Typed, NEW d \in Calls,
         (\E k \in Keys : Enter(d, k)) \/ Proceed(d) \/ ScanEnds(d),
         NEW c \in Calls, c # d
  PROVE  pc'[c] = pc[c]
BY DEF Typed, Enter, Proceed, ScanEnds, Share, FollowTimeout, Acquire, QueueTimeout,
   Release, Pop, SetFuture, Answer, Goto

\* A call never joins a scan that is over.
THEOREM JoinsInTime == GateSpec => NoLateJoin
<1>1. ASSUME GateInv, GateNext, NEW c \in Calls, pc[c] = "new", pc'[c] = "follow"
      PROVE  future[leader'[c]] = None
  <2>1. PICK d \in Calls : \/ \E k \in Keys : Enter(d, k)
                           \/ Proceed(d)
                           \/ ScanEnds(d)
    BY <1>1 DEF GateNext
  <2>2. d = c
    BY <1>1, <2>1, StepsItself DEF GateInv
  <2>3. PICK k \in Keys : Enter(c, k)
    BY <1>1, <2>1, <2>2 DEF Proceed, ScanEnds, Share, FollowTimeout, Acquire,
       QueueTimeout, Release, HoldsDone, Pop, SetFuture
  <2>4. PICK l \in Calls : inflight[k] = l /\ leader'[c] = l
    BY <1>1, <2>3 DEF GateInv, Typed, Enter, NobodyLeads, Goto
  <2>5. Leading(l)
    BY <1>1, <2>4 DEF GateInv, TableExact
  <2> QED  BY <1>1, <2>4, <2>5 DEF GateInv, FutureOpen
<1>2. GateInv /\ [GateNext]_gateVars => [\A c \in Calls :
        (pc[c] = "new" /\ pc'[c] = "follow") => future[leader'[c]] = None]_gateVars
  BY <1>1
<1> QED  BY <1>2, GateInvariant, PTL DEF GateSpec, NoLateJoin

(***************************************************************************)
(* The gate implements SharedFlight.                                       *)
(***************************************************************************)

\* What a call does to the flights: it boards, closes or lands one, or is told.
LEMMA FlightStep ==
  ASSUME GateInv, GateNext
  PROVE  Flights!Next \/ UNCHANGED <<inflight, leader, future, answer>>
<1>1. ASSUME NEW c \in Calls, NEW k \in Keys, Enter(c, k)
      PROVE  Flights!Next
  <2>1. leader[c] = None
    BY <1>1 DEF Enter, GateInv, Entered
  <2>2. CASE NobodyLeads(k)
    <3>1. Flights!Open(c, k)
      BY <1>1, <2>1, <2>2 DEF Enter, NobodyLeads, Flights!Open
    <3> QED  BY <3>1 DEF Flights!Next
  <2>3. CASE ~NobodyLeads(k)
    <3>1. Flights!Join(c, k)
      BY <1>1, <2>1, <2>3 DEF Enter, NobodyLeads, Flights!Join
    <3> QED  BY <3>1 DEF Flights!Next
  <2> QED  BY <2>2, <2>3
<1>2. ASSUME NEW c \in Calls, Share(c)
      PROVE  Flights!Next
  <2>1. Flights!Tell(c)
    BY <1>2, GateAssumption
    DEF Share, Answer, Flights!Tell, GateInv, Entered, AnswerOpen
  <2> QED  BY <2>1 DEF Flights!Next
<1>3. ASSUME NEW c \in Calls, FollowTimeout(c)
      PROVE  Flights!Next
  <2>1. Flights!Tire(c)
    BY <1>3, GateAssumption
    DEF FollowTimeout, WaitedOut, Answer, Flights!Tire, GateInv, Entered, AnswerOpen
  <2> QED  BY <2>1 DEF Flights!Next
<1>4. ASSUME NEW c \in Calls, Pop(c)
      PROVE  Flights!Next
  <2>1. Leading(c) /\ key[c] \in Keys
    BY <1>4 DEF Pop, Leading, GateInv, Entered
  <2>2. inflight[key[c]] # None
    BY <2>1, GateAssumption DEF GateInv, TableExact
  <2>3. Flights!Close(key[c])
    BY <1>4, <2>2 DEF Pop, Popped, Flights!Close
  <2> QED  BY <2>1, <2>3 DEF Flights!Next
<1>5. ASSUME NEW c \in Calls, SetFuture(c)
      PROVE  Flights!Next
  <2>1. Popping(c) /\ leader[c] = c /\ future[c] = None
    BY <1>5 DEF SetFuture, Popping, GateInv, FutureOpen
  <2>2. \A k \in Keys : inflight[k] # c
    BY <2>1 DEF Popping, Leading, GateInv, TableExact
  <2>3. /\ Published(c) \in {c} \cup {Busy, Failed}
        /\ future' = [future EXCEPT ![c] = Published(c)]
        /\ answer' = [answer EXCEPT ![c] = Published(c)] \/ UNCHANGED answer
        /\ UNCHANGED <<inflight, leader>>
    BY <1>5 DEF SetFuture, Published, Answer
  <2> DEFINE o == Published(c)
  <2> HIDE DEF o
  <2>4. o \in {c} \cup {Busy, Failed} /\ Flights!Land(c, o)
    BY <2>1, <2>2, <2>3 DEF o, Flights!Land
  <2> QED  BY <2>4 DEF Flights!Next
<1>6. ASSUME NEW c \in Calls, Release(c), pc[c] = "set failure"
      PROVE  Flights!Next
  <2>1. leader[c] = c /\ future[c] # None /\ answer[c] = None
    BY <1>6 DEF GateInv, FutureOpen, AnswerOpen
  <2>2. /\ answer' = [answer EXCEPT ![c] = future[leader[c]]]
        /\ UNCHANGED <<inflight, leader, future>>
    BY <1>6, <2>1 DEF Release, Answer
  <2>3. leader[c] # None /\ future[leader[c]] # None
    BY <2>1, GateAssumption DEF GateAssumption
  <2>4. Flights!Tell(c)
    BY <2>1, <2>2, <2>3 DEF Flights!Tell
  <2> QED  BY <2>4 DEF Flights!Next
<1>7. ASSUME NEW c \in Calls,
             \/ Acquire(c) \/ QueueTimeout(c) \/ ScanEnds(c)
             \/ Release(c) /\ pc[c] # "set failure"
      PROVE  UNCHANGED <<inflight, leader, future, answer>>
  BY <1>7 DEF Acquire, QueueTimeout, ScanEnds, Release, HoldsDone
<1> QED
  BY <1>1, <1>2, <1>3, <1>4, <1>5, <1>6, <1>7 DEF GateNext, Proceed

\* The gate implements the promise made to its callers: who boards a flight
\* before it closes is told what it lands with, for any number of calls, keys
\* and permits.
THEOREM GateImplementsFlights == GateSpec => ImplementsFlights
<1>1. GateInit => Flights!Init
  BY DEF GateInit, Flights!Init
<1>2. GateInv /\ [GateNext]_gateVars => [Flights!Next]_<<inflight, leader, future, answer>>
  BY FlightStep DEF gateVars
<1> QED
  BY <1>1, <1>2, GateInvariant, PTL DEF GateSpec, ImplementsFlights, Flights!Spec, Flights!flights

(***************************************************************************)
(* The semaphore.                                                          *)
(***************************************************************************)

PermitInv == GateInv /\ PermitsConserved

\* Nobody holds a permit of an idle gate.
LEMMA InitPermits == GateInit => PermitsConserved
<1>1. GateInit => Holders = {}
  BY DEF GateInit, Holders
<1> QED  BY <1>1, FS_EmptySet, GateAssumption DEF GateInit, PermitsConserved

\* Every step of a call moves the counter and the holders together.
LEMMA NextPermits == PermitInv /\ [GateNext]_gateVars => PermitsConserved'
<1> SUFFICES ASSUME PermitInv, [GateNext]_gateVars
             PROVE  PermitsConserved'
  OBVIOUS
<1>0. /\ IsFiniteSet(Holders) /\ Cardinality(Holders) \in Nat
      /\ permits \in Nat /\ MaxConcurrent \in Nat
      /\ permits + Cardinality(Holders) = MaxConcurrent
  <2>1. Holders \subseteq Calls
    BY DEF Holders
  <2> QED  BY <2>1, FS_Subset, FS_CardinalityType, GateAssumption
           DEF PermitInv, PermitsConserved, GateInv, Typed
<1>1. CASE permits' = permits /\ Holders' = Holders
  BY <1>0, <1>1 DEF PermitsConserved
<1>2. CASE \E c \in Calls \ Holders : /\ permits' = permits - 1
                                       /\ Holders' = Holders \cup {c}
  <2>1. PICK c \in Calls \ Holders : /\ permits' = permits - 1
                                    /\ Holders' = Holders \cup {c}
    BY <1>2
  <2>2. Cardinality(Holders') = Cardinality(Holders) + 1
    BY <1>0, <2>1, FS_AddElement
  <2> QED  BY <1>0, <2>1, <2>2 DEF PermitsConserved
<1>3. CASE \E c \in Holders : permits' = permits + 1 /\ Holders' = Holders \ {c}
  <2>1. PICK c \in Holders : permits' = permits + 1 /\ Holders' = Holders \ {c}
    BY <1>3
  <2>2. Cardinality(Holders') = Cardinality(Holders) - 1
    BY <1>0, <2>1, FS_RemoveElement
  <2> QED  BY <1>0, <2>1, <2>2 DEF PermitsConserved
<1>4. CASE UNCHANGED gateVars
  BY <1>1, <1>4 DEF gateVars, Holders
<1>5. ASSUME NEW c \in Calls, Acquire(c)
      PROVE  PermitsConserved'
  <2>1. c \notin Holders /\ permits' = permits - 1
    BY <1>5 DEF Acquire, Holders
  <2>2. Holders' = Holders \cup {c}
    BY <1>5 DEF Acquire, Goto, Holders, PermitInv, GateInv, Typed
  <2> QED  BY <1>2, <2>1, <2>2
<1>6. ASSUME NEW c \in Calls, Release(c)
      PROVE  PermitsConserved'
  <2>1. c \in Holders /\ permits' = permits + 1
    BY <1>6 DEF Release, HoldsDone, Holders
  <2>2. Holders' = Holders \ {c}
    BY <1>6 DEF Release, HoldsDone, Answer, Goto, Holders, PermitInv, GateInv, Typed
  <2> QED  BY <1>3, <2>1, <2>2
<1>7. ASSUME NEW c \in Calls,
             \/ \E k \in Keys : Enter(c, k)
             \/ Share(c) \/ FollowTimeout(c) \/ QueueTimeout(c) \/ Pop(c)
             \/ SetFuture(c) \/ ScanEnds(c)
      PROVE  PermitsConserved'
  <2>1. permits' = permits
    BY <1>7 DEF Enter, Share, FollowTimeout, QueueTimeout, Pop, SetFuture, ScanEnds
  <2>2. Holders' = Holders
    BY <1>7 DEF Enter, Share, FollowTimeout, QueueTimeout, Pop, SetFuture, ScanEnds,
       Answer, Goto, Holders, PermitInv, GateInv, Typed
  <2> QED  BY <1>1, <2>1, <2>2
<1> QED  BY <1>4, <1>5, <1>6, <1>7 DEF GateNext, Proceed

\* No permit is lost or invented, on any path through run.
THEOREM PermitsKept == GateSpec => []PermitsConserved
<1>1. GateInit => PermitInv
  BY InitGate, InitPermits DEF PermitInv
<1>2. PermitInv /\ [GateNext]_gateVars => PermitInv'
  BY NextGate, NextPermits DEF PermitInv
<1>3. PermitInv => PermitsConserved
  BY DEF PermitInv
<1> QED  BY <1>1, <1>2, <1>3, PTL DEF GateSpec

\* Type correctness: the counter of the semaphore never exceeds its bound.
THEOREM GateTyped == GateSpec => []GateTypeOK
<1>1. GateInv /\ PermitsConserved => GateTypeOK
  <2> SUFFICES ASSUME GateInv, PermitsConserved
               PROVE  permits \in 0..MaxConcurrent
    BY DEF GateInv, Typed, GateTypeOK
  <2>1. Holders \subseteq Calls
    BY DEF Holders
  <2>2. Cardinality(Holders) \in Nat
    BY <2>1, FS_Subset, FS_CardinalityType, GateAssumption
  <2>3. permits \in Nat /\ MaxConcurrent \in Nat
    BY GateAssumption DEF GateInv, Typed
  <2> QED  BY <2>2, <2>3 DEF PermitsConserved
<1> QED  BY <1>1, GateInvariant, PermitsKept, PTL

------------------------------------------------------------------------------
(***************************************************************************)
(* ScanArtifact.                                                           *)
(***************************************************************************)

\* f is a scan, or a repricing of b.
Backed(f, b) ==
  f # NoFile => /\ ~f.compounded
                /\ f.repriced => b # NoFile /\ b.at = f.at

\* Only a repriced file can be compounded.
Honest(f) == f # NoFile => (f.compounded => f.repriced)

Plain(f) == f # NoFile => ~f.repriced /\ ~f.compounded

\* The base j's publication leaves.
Coming(j) == IF job[j].source # NoFile THEN job[j].source ELSE base

Rebasing(j) == job[j].stage \in {"retired", "based", "kept"} /\ job[j].source # NoFile

Working(j) == job[j].stage # "idle"

FilesOk ==
  /\ Honest(path) /\ Honest(prev) /\ Plain(base)
  /\ path = NoFile => prev = NoFile
  /\ \A s \in Scanners : scan[s].stage = "decided" => Plain(scan[s].new)

StagesOk(j) ==
  /\ Honest(job[j].new) /\ Honest(job[j].current) /\ Plain(job[j].source)
  /\ job[j].stage # "scanning" => job[j].new # NoFile
  /\ job[j].stage = "scanning" => job[j].source = NoFile
  /\ job[j].stage \in {"sourced", "retired", "based"} => job[j].source # NoFile
  /\ job[j].stage \in {"based", "kept"} /\ job[j].source # NoFile => base = job[j].source
  /\ job[j].stage # "sourced" /\ job[j].current = NoFile => prev = NoFile
  /\ path = NoFile => job[j].current = NoFile

\* What j works with is backed by the base it leaves.
BackedOk(j) ==
  /\ job[j].stage # "scanning" => Backed(job[j].new, Coming(j))
  /\ Backed(job[j].current, Coming(j))
  /\ job[j].stage = "sourced" => Backed(path, Coming(j))
  /\ job[j].stage = "kept" => Backed(prev, Coming(j))

ArtifactInv ==
  /\ TypeOK
  /\ FilesOk
  /\ \A i, j \in Jobs : Working(i) /\ Working(j) => i = j
  /\ \A j \in Jobs : Working(j) => StagesOk(j)
  /\ ~cut => /\ path # NoFile => ~path.compounded
             /\ \A j \in Jobs : Working(j) => BackedOk(j)
             /\ (\A j \in Jobs : ~Rebasing(j)) => Backed(path, base) /\ Backed(prev, base)

------------------------------------------------------------------------------
(***************************************************************************)
(* Files.                                                                  *)
(***************************************************************************)

\* The fields of a file.
LEMMA FileFields ==
  ASSUME NEW f \in File
  PROVE  f # NoFile /\ f.at \in 0..MaxNow /\ f.complete \in BOOLEAN
         /\ f.repriced \in BOOLEAN /\ f.compounded \in BOOLEAN
  BY ArtifactAssumption DEF File, ArtifactAssumption

\* A new scan.
LEMMA ScanFile ==
  ASSUME TypeOK, NEW complete \in BOOLEAN
  PROVE  Scan(complete) \in File /\ Plain(Scan(complete)) /\ Honest(Scan(complete))
         /\ \A b : Backed(Scan(complete), b)
<1>1. /\ Scan(complete) = [at |-> now, complete |-> complete, repriced |-> FALSE, compounded |-> FALSE]
      /\ now \in 0..MaxNow
  BY ArtifactAssumption DEF Scan, TypeOK, ArtifactAssumption
<1>2. Scan(complete) \in File /\ ~Scan(complete).repriced /\ ~Scan(complete).compounded
  BY <1>1 DEF File
<1> QED
  BY <1>2 DEF Plain, Honest, Backed

\* What repricing a file makes of it.
LEMMA RepricedFile ==
  ASSUME NEW f \in File
  PROVE  /\ Repriced(f) \in File
         /\ Repriced(f).at = f.at /\ Repriced(f).complete = f.complete
         /\ Repriced(f).repriced
         /\ Repriced(f).compounded <=> (f.compounded \/ f.repriced)
<1> DEFINE both == f.compounded \/ f.repriced
<1>1. /\ DOMAIN f = {"at", "complete", "repriced", "compounded"}
      /\ f = [x \in {"at", "complete", "repriced", "compounded"} |-> f[x]]
  BY DEF File
<1>2. /\ Repriced(f) = [f EXCEPT !.repriced = TRUE, !.compounded = both]
      /\ Repriced(f).at = f.at /\ Repriced(f).complete = f.complete
      /\ Repriced(f).repriced = TRUE
  BY <1>1 DEF Repriced
<1>3. Repriced(f).compounded = both
  BY <1>1 DEF Repriced
<1>4. both \in BOOLEAN
  BY FileFields
<1>5. Repriced(f) \in File
  <2> HIDE DEF both
  <2>1. [f EXCEPT !.repriced = TRUE, !.compounded = both] \in File
    BY <1>1, <1>4, FileFields DEF File
  <2> QED
    BY <1>2, <2>1
<1> QED
  BY <1>2, <1>3, <1>5, Zenon

\* What a rebuild starts from.
LEMMA LedgerFile ==
  ASSUME NEW f \in File \cup {NoFile}
  PROVE  /\ FromLedger(f) \in File
         /\ f # NoFile => FromLedger(f).at = f.at /\ FromLedger(f).complete = f.complete
         /\ f = NoFile => FromLedger(f).at = 0 /\ FromLedger(f).complete = FALSE
         /\ ~FromLedger(f).repriced
         /\ ~FromLedger(f).compounded
<1>1. CASE f = NoFile
  <2>1. FromLedger(f) = [at |-> 0, complete |-> FALSE, repriced |-> FALSE, compounded |-> FALSE]
    BY <1>1 DEF FromLedger
  <2> QED
    BY <1>1, <2>1, ArtifactAssumption DEF File, ArtifactAssumption
<1>2. CASE f \in File
  <2>1. f = [at |-> f.at, complete |-> f.complete, repriced |-> f.repriced, compounded |-> f.compounded]
    BY <1>2 DEF File
  <2>2. FromLedger(f) = [at |-> f.at, complete |-> f.complete, repriced |-> FALSE, compounded |-> FALSE]
    BY <1>2, <2>1, FileFields DEF FromLedger
  <2> QED
    BY <1>2, <2>2, FileFields DEF File
<1> QED
  BY <1>1, <1>2

\* The fields of a job at work.
LEMMA JobFields ==
  ASSUME TypeOK, NEW j \in Jobs, Working(j)
  PROVE  /\ job[j] \in [stage : Stages, new : File \cup {NoFile}, source : File \cup {NoFile},
                        current : File \cup {NoFile}]
         /\ job[j].stage \in Stages
         /\ job[j].new \in File \cup {NoFile}
         /\ job[j].source \in File \cup {NoFile}
         /\ job[j].current \in File \cup {NoFile}
  BY DEF TypeOK, Working, Idle

\* Where a repricing starts is a file.
LEMMA PristineFile ==
  ASSUME TypeOK, path # NoFile
  PROVE  path \in File /\ Pristine(path) \in File /\ Pristine(path).at = path.at
  BY DEF TypeOK, Pristine

------------------------------------------------------------------------------
(***************************************************************************)
(* Types.                                                                  *)
(***************************************************************************)

LEMMA TypeInit == Init => TypeOK
<1> SUFFICES ASSUME Init
             PROVE  TypeOK
  OBVIOUS
<1>0. 1 \in 1..MaxNow
  BY ArtifactAssumption DEF ArtifactAssumption
<1>1. now \in 1..MaxNow /\ cut \in BOOLEAN /\ overtaken \subseteq Jobs \cup Scanners
  BY <1>0, Zenon DEF Init
<1>2. /\ path \in File \cup {NoFile} /\ prev \in File \cup {NoFile} /\ base \in File \cup {NoFile}
  BY DEF Init
<1>3. job \in [Jobs -> {Idle} \cup [stage : Stages, new : File \cup {NoFile},
                                source : File \cup {NoFile}, current : File \cup {NoFile}]]
  BY DEF Init
<1>4. scan \in [Scanners -> {Idle} \cup [stage : {"decided"}, full : BOOLEAN, new : File]]
  BY DEF Init
<1> QED
  BY <1>1, <1>2, <1>3, <1>4 DEF TypeOK

LEMMA TypeScans ==
  ASSUME TypeOK, NEW s \in Scanners, ScanStep(s)
  PROVE  TypeOK'
<1>1. CASE Decide(s)
  <2> PICK full \in BOOLEAN, complete \in BOOLEAN :
        scan' = [scan EXCEPT ![s] = [stage |-> "decided", full |-> full, new |-> Scan(complete)]]
    BY <1>1 DEF Decide
  <2>1. Scan(complete) \in File
    BY ScanFile
  <2>2. now' \in 1..MaxNow /\ overtaken' \subseteq Jobs \cup Scanners
    BY <1>1, ArtifactAssumption DEF Decide, Passes, TypeOK, ArtifactAssumption
  <2>3. scan' \in [Scanners -> {Idle} \cup [stage : {"decided"}, full : BOOLEAN, new : File]]
    BY <2>1 DEF TypeOK
  <2> QED
    BY <1>1, <2>2, <2>3 DEF Decide, TypeOK
<1>2. CASE WriteScan(s)
  <2>1. scan[s].new \in File
    BY <1>2 DEF WriteScan, TypeOK, Idle
  <2>2. overtaken' \subseteq Jobs \cup Scanners
    BY <1>2 DEF WriteScan, TypeOK, BusyJobs, BusyScanners
  <2> QED
    BY <1>2, <2>1, <2>2 DEF WriteScan, TypeOK
<1>3. CASE DropScan(s)
  BY <1>3 DEF DropScan, TypeOK
<1> QED
  BY <1>1, <1>2, <1>3 DEF ScanStep

LEMMA TypeJobs ==
  ASSUME TypeOK, NEW j \in Jobs, JobStep(j)
  PROVE  TypeOK'
<1> DEFINE Types == [stage : Stages, new : File \cup {NoFile}, source : File \cup {NoFile},
                     current : File \cup {NoFile}]
<1>t. ASSUME job'[j] \in {Idle} \cup Types, job' = [job EXCEPT ![j] = job'[j]],
             path' \in File \cup {NoFile}, prev' \in File \cup {NoFile}, base' \in File \cup {NoFile},
             UNCHANGED scan, overtaken' \subseteq Jobs \cup Scanners, cut' \in BOOLEAN, now' \in 1..MaxNow
      PROVE  TypeOK'
  BY <1>t DEF TypeOK
<1>u. /\ path \in File \cup {NoFile} /\ prev \in File \cup {NoFile} /\ base \in File \cup {NoFile}
      /\ overtaken \subseteq Jobs \cup Scanners /\ cut \in BOOLEAN /\ now \in 1..MaxNow
      /\ job[j] \in {Idle} \cup Types
      /\ \A r : [job EXCEPT ![j] = r][j] = r
  BY DEF TypeOK
<1>v. ASSUME NEW stage \in Stages, NEW new \in File \cup {NoFile}, NEW source \in File \cup {NoFile},
             NEW current \in File \cup {NoFile}, Take(j, stage, new, source, current)
      PROVE  TypeOK'
  <2>1. [stage |-> stage, new |-> new, source |-> source, current |-> current] \in Types
    OBVIOUS
  <2> HIDE DEF Types
  <2> QED
    BY <1>t, <1>u, <1>v, <2>1 DEF Take
<1>1. CASE StartRefresh(j)
  BY <1>1, <1>u, <1>v DEF StartRefresh, Stages
<1>2. CASE StartReprice(j)
  <2>1. /\ Repriced(Pristine(path)) \in File
        /\ (IF path.repriced THEN NoFile ELSE path) \in File \cup {NoFile}
    BY <1>2, PristineFile, RepricedFile DEF StartReprice
  <2> QED
    BY <1>2, <1>u, <1>v, <2>1 DEF StartReprice, Stages
<1>3. CASE StartRebuild(j)
  <2>1. FromLedger(path) \in File /\ Repriced(FromLedger(path)) \in File
    BY <1>u, LedgerFile, RepricedFile
  <2> QED
    BY <1>3, <1>u, <1>v, <2>1 DEF StartRebuild, Stages
<1>4. CASE ReadCurrent(j)
  <2>1. job[j] \in Types
    BY <1>4, JobFields DEF ReadCurrent, At, Working
  <2>2. job' = [job EXCEPT ![j] = [job[j] EXCEPT !.stage = "fetching", !.current = path]]
    BY <1>4 DEF ReadCurrent
  <2>3. [job[j] EXCEPT !.stage = "fetching", !.current = path] \in Types
    BY <1>u, <2>1 DEF Stages
  <2> HIDE DEF Types
  <2> QED
    BY <1>4, <1>t, <1>u, <2>2, <2>3 DEF ReadCurrent
<1>5. CASE Scanned(j)
  <2>1. job[j] \in Types /\ Scan(TRUE) \in File
    BY <1>5, JobFields, ScanFile DEF Scanned, At, Working
  <2>2. job' = [job EXCEPT ![j] = [job[j] EXCEPT !.stage = "accepted", !.new = Scan(TRUE)]]
    BY <1>5 DEF Scanned
  <2>3. [job[j] EXCEPT !.stage = "accepted", !.new = Scan(TRUE)] \in Types
    BY <2>1 DEF Stages
  <2>4. now' \in 1..MaxNow
    BY <1>5, <1>u, ArtifactAssumption DEF Scanned, Passes, ArtifactAssumption
  <2> HIDE DEF Types
  <2> QED
    BY <1>5, <1>t, <1>u, <2>2, <2>3, <2>4 DEF Scanned
<1>6. CASE Priced(j) \/ RetireBase(j) \/ WriteBase(j) \/ KeepPrev(j)
  <2>1. job[j] \in Types /\ job[j].source \in File \cup {NoFile} /\ job[j].current \in File \cup {NoFile}
    BY <1>6, JobFields DEF Priced, RetireBase, WriteBase, KeepPrev, At, Working
  <2>2. PICK stage \in Stages : job' = [job EXCEPT ![j] = [job[j] EXCEPT !.stage = stage]]
    BY <1>6 DEF Priced, RetireBase, WriteBase, KeepPrev, Stages
  <2>3. [job[j] EXCEPT !.stage = stage] \in Types
    BY <2>1
  <2> HIDE DEF Types
  <2> QED
    BY <1>6, <1>t, <1>u, <2>1, <2>2, <2>3 DEF Priced, RetireBase, WriteBase, KeepPrev
<1>7. CASE Reject(j)
  BY <1>7, <1>t, <1>u DEF Reject
<1>8. CASE Publish(j)
  <2>1. job[j].new \in File \cup {NoFile}
    BY <1>8, JobFields DEF Publish, At, Working
  <2>2. overtaken' \subseteq Jobs \cup Scanners
    BY <1>8, <1>u DEF Publish, BusyScanners
  <2> QED
    BY <1>8, <1>t, <1>u, <2>1, <2>2 DEF Publish
<1>9. CASE Crash(j)
  <2>1. cut' \in BOOLEAN
    BY <1>9 DEF Crash
  <2> QED
    BY <1>9, <1>t, <1>u, <2>1 DEF Crash
<1> QED
  BY <1>1, <1>2, <1>3, <1>4, <1>5, <1>6, <1>7, <1>8, <1>9 DEF JobStep

LEMMA TypeStep == TypeOK /\ [Next]_vars => TypeOK'
<1> SUFFICES ASSUME TypeOK, [Next]_vars
             PROVE  TypeOK'
  OBVIOUS
<1>1. CASE \E s \in Scanners : ScanStep(s)
  BY <1>1, TypeScans
<1>2. CASE \E j \in Jobs : JobStep(j)
  BY <1>2, TypeJobs
<1>3. CASE Rollback
  BY <1>3 DEF Rollback, TypeOK, BusyScanners
<1>4. CASE Tick
  BY <1>4, ArtifactAssumption DEF Tick, Passes, TypeOK, ArtifactAssumption
<1>5. CASE UNCHANGED vars
  BY <1>5 DEF vars, TypeOK
<1> QED
  BY <1>1, <1>2, <1>3, <1>4, <1>5 DEF Next

\* The files, the jobs and the scans are what they are meant to be.
THEOREM ArtifactTyped == Spec => []TypeOK
  BY TypeInit, TypeStep, PTL DEF Spec

------------------------------------------------------------------------------
(***************************************************************************)
(* The invariant.                                                          *)
(***************************************************************************)

LEMMA InvInit == Init => ArtifactInv
<1> SUFFICES ASSUME Init
             PROVE  ArtifactInv
  OBVIOUS
<1>1. TypeOK
  BY TypeInit
<1>2. (\A j \in Jobs : job[j].stage = "idle") /\ (\A s \in Scanners : scan[s].stage = "idle")
  BY DEF Init, Idle
<1>3. path = NoFile /\ prev = NoFile /\ base = NoFile
  BY DEF Init
<1>4. FilesOk
  BY <1>2, <1>3 DEF FilesOk, Honest, Plain
<1>5. Backed(path, base) /\ Backed(prev, base)
  BY <1>3 DEF Backed
<1> QED
  BY <1>1, <1>2, <1>3, <1>4, <1>5 DEF ArtifactInv, Working

\* While one job is at work no other is.
LEMMA OnlyJob ==
  ASSUME ArtifactInv, NEW j \in Jobs, LockFree \/ Working(j),
         NEW r, job' = [job EXCEPT ![j] = r]
  PROVE  /\ job'[j] = r
         /\ \A i \in Jobs : i # j => job'[i].stage = "idle"
<1>1. job \in [Jobs -> {Idle} \cup
        [stage : Stages, new : File \cup {NoFile}, source : File \cup {NoFile}, current : File \cup {NoFile}]]
  BY DEF ArtifactInv, TypeOK
<1>2. ASSUME NEW i \in Jobs, i # j
      PROVE  job[i].stage = "idle"
  BY <1>2 DEF ArtifactInv, Working, LockFree, BusyJobs
<1> QED
  BY <1>1, <1>2

\* What is left to show of a step of j.
LEMMA JobInv ==
  ASSUME NEW j \in Jobs, TypeOK', FilesOk',
         \A i \in Jobs : i # j => job'[i].stage = "idle",
         Working(j)' => StagesOk(j)',
         ~cut' => /\ path' # NoFile => ~path'.compounded
                  /\ Working(j)' => BackedOk(j)'
                  /\ ~Rebasing(j)' => Backed(path, base)' /\ Backed(prev, base)'
  PROVE  ArtifactInv'
  BY DEF ArtifactInv, Working

LEMMA InvScans ==
  ASSUME ArtifactInv, NEW s \in Scanners, ScanStep(s)
  PROVE  ArtifactInv'
<1>0. TypeOK /\ TypeOK'
  BY TypeScans DEF ArtifactInv
<1>1. CASE Decide(s)
  <2> PICK full \in BOOLEAN, complete \in BOOLEAN :
        scan' = [scan EXCEPT ![s] = [stage |-> "decided", full |-> full, new |-> Scan(complete)]]
    BY <1>1 DEF Decide
  <2>1. Plain(scan'[s].new) /\ \A x \in Scanners : x # s => scan'[x] = scan[x]
    BY <1>0, ScanFile DEF TypeOK
  <2>2. FilesOk'
    BY <1>1, <2>1 DEF Decide, ArtifactInv, FilesOk, Honest, Plain
  <2>3. UNCHANGED <<path, prev, base, job, cut>>
    BY <1>1 DEF Decide
  <2> QED
    BY <1>0, <2>2, <2>3 DEF ArtifactInv, Working, StagesOk, BackedOk, Backed, Coming, Rebasing, Honest, Plain
<1>2. CASE WriteScan(s)
  <2>1. path' # NoFile /\ ~path'.repriced /\ ~path'.compounded
    <3>1. scan[s].new \in File
      BY <1>0, <1>2 DEF WriteScan, TypeOK, Idle
    <3> QED
      BY <1>2, <3>1, FileFields DEF WriteScan, ArtifactInv, FilesOk, Plain
  <2>2. \A x \in Scanners : scan'[x].stage = "decided" => scan'[x] = scan[x]
    BY <1>0, <1>2 DEF WriteScan, TypeOK, Idle
  <2>3. UNCHANGED <<prev, base, job, cut>>
    BY <1>2 DEF WriteScan
  <2>4. FilesOk'
    BY <2>1, <2>2, <2>3 DEF ArtifactInv, FilesOk, Honest, Plain
  <2>5. \A b : Backed(path', b)
    BY <2>1 DEF Backed
  <2>6. \A j \in Jobs : Working(j) => StagesOk(j)'
    BY <2>1, <2>3 DEF ArtifactInv, StagesOk, Honest, Plain
  <2>7. ~cut => \A j \in Jobs : Working(j) => BackedOk(j)'
    BY <2>3, <2>5 DEF ArtifactInv, BackedOk, Backed, Coming
  <2> QED
    BY <1>0, <2>1, <2>3, <2>4, <2>5, <2>6, <2>7 DEF ArtifactInv, Working, Rebasing, Backed
<1>3. CASE DropScan(s)
  <2>1. \A x \in Scanners : scan'[x].stage = "decided" => scan'[x] = scan[x]
    BY <1>0, <1>3 DEF DropScan, TypeOK, Idle
  <2>2. FilesOk'
    BY <1>3, <2>1 DEF DropScan, ArtifactInv, FilesOk, Honest, Plain
  <2>3. UNCHANGED <<path, prev, base, job, cut>>
    BY <1>3 DEF DropScan
  <2> QED
    BY <1>0, <2>2, <2>3 DEF ArtifactInv, Working, StagesOk, BackedOk, Backed, Coming, Rebasing, Honest, Plain
<1> QED
  BY <1>1, <1>2, <1>3 DEF ScanStep

\* What holds before a job takes the lock.
LEMMA AtRest ==
  ASSUME ArtifactInv, LockFree, NEW j \in Jobs
  PROVE  /\ ~Working(j)
         /\ ~cut => Backed(path, base) /\ Backed(prev, base)
  BY DEF ArtifactInv, LockFree, BusyJobs, Working, Rebasing

\* A job begins.
LEMMA InvTake ==
  ASSUME ArtifactInv, NEW j \in Jobs, StartRefresh(j) \/ StartReprice(j) \/ StartRebuild(j)
  PROVE  ArtifactInv'
<1>0. TypeOK /\ TypeOK' /\ FilesOk
  BY TypeJobs DEF ArtifactInv, JobStep
<1>1. LockFree /\ UNCHANGED <<path, prev, base, scan, cut>>
  BY DEF StartRefresh, StartReprice, StartRebuild, Take
<1>2. ~cut => Backed(path, base) /\ Backed(prev, base)
  BY <1>1, AtRest
<1>3. FilesOk' /\ (~cut' /\ path' # NoFile => ~path'.compounded)
  BY <1>0, <1>1 DEF ArtifactInv, FilesOk, Honest, Plain
<1>4. ~cut' => Backed(path, base)' /\ Backed(prev, base)'
  BY <1>1, <1>2 DEF Backed
<1>5. path \in File \cup {NoFile}
  BY <1>0 DEF TypeOK
<1>a. ASSUME NEW stage \in {"scanning", "fetching", "sourced"}, NEW new \in File \cup {NoFile},
             NEW source \in File \cup {NoFile}, NEW current \in File \cup {NoFile},
             Take(j, stage, new, source, current),
             Honest(new), Honest(current), Plain(source),
             IF stage = "scanning" THEN source = NoFile ELSE new # NoFile,
             stage = "sourced" => source # NoFile,
             stage # "sourced" => current = path, current \in {path, NoFile},
             ~cut => LET b == IF source # NoFile THEN source ELSE base
                     IN  /\ stage # "scanning" => Backed(new, b)
                         /\ Backed(current, b)
                         /\ stage = "sourced" => Backed(path, b)
      PROVE  ArtifactInv'
  <2> DEFINE r == [stage |-> stage, new |-> new, source |-> source, current |-> current]
  <2>1. job' = [job EXCEPT ![j] = r]
    BY <1>a DEF Take
  <2>2. /\ job'[j] = r
        /\ \A i \in Jobs : i # j => job'[i].stage = "idle"
    BY <1>1, <2>1, OnlyJob
  <2>3. job'[j].stage = stage /\ job'[j].new = new /\ job'[j].source = source /\ job'[j].current = current
    BY <2>2
  <2>4. StagesOk(j)'
    BY <1>0, <1>1, <1>a, <2>3 DEF StagesOk, FilesOk
  <2>5. ~cut' => BackedOk(j)'
    BY <1>1, <1>a, <2>3 DEF BackedOk, Coming, Backed
  <2> QED
    BY <1>0, <1>3, <1>4, <2>2, <2>4, <2>5, JobInv
<1>b. CASE StartRefresh(j)
  <2>1. Honest(path) /\ Honest(NoFile) /\ Plain(NoFile)
    BY <1>0 DEF FilesOk, Honest, Plain
  <2> QED
    BY <1>2, <1>5, <1>a, <1>b, <2>1 DEF StartRefresh
<1>c. CASE StartReprice(j)
  <2> DEFINE start == Pristine(path)
             source == IF path.repriced THEN NoFile ELSE path
  <2>1. path \in File /\ start \in File /\ start.at = path.at
    BY <1>0, <1>c, PristineFile DEF StartReprice
  <2>2. /\ Repriced(start) \in File /\ Repriced(start).at = path.at /\ Repriced(start).repriced
        /\ Repriced(start).compounded <=> (start.compounded \/ start.repriced)
    BY <2>1, RepricedFile
  <2>3. Honest(Repriced(start)) /\ Honest(path) /\ Plain(source)
    BY <1>0, <2>2 DEF FilesOk, Honest, Plain
  <2>4. ASSUME ~cut
        PROVE  LET b == IF source # NoFile THEN source ELSE base
               IN  Backed(Repriced(start), b) /\ Backed(path, b)
    <3>1. CASE path.repriced
      <4>1. base # NoFile /\ base.at = path.at /\ source = NoFile
        BY <1>2, <1>c, <2>4, <3>1 DEF Backed, StartReprice
      <4>2. start = base
        BY <3>1, <4>1 DEF Pristine
      <4>3. ~Repriced(start).compounded
        BY <1>0, <2>2, <4>1, <4>2 DEF FilesOk, Plain
      <4> QED
        BY <1>2, <2>2, <2>4, <4>1, <4>3 DEF Backed
    <3>2. CASE ~path.repriced
      <4>1. start = path /\ source = path /\ path # NoFile
        BY <1>c, <3>2 DEF Pristine, StartReprice
      <4>2. ~path.compounded
        BY <1>2, <2>4, <4>1 DEF Backed
      <4> QED
        BY <2>2, <3>2, <4>1, <4>2 DEF Backed
    <3> QED
      BY <3>1, <3>2
  <2>5. Repriced(start) # NoFile /\ source \in File \cup {NoFile}
    BY <2>1, <2>2, FileFields
  <2>6. Take(j, "fetching", Repriced(start), source, path)
    BY <1>c DEF StartReprice
  <2> HIDE DEF start, source
  <2> QED
    BY <1>5, <1>a, <2>2, <2>3, <2>4, <2>5, <2>6
<1>d. CASE StartRebuild(j)
  <2> DEFINE source == FromLedger(path)
  <2>1. /\ source \in File /\ ~source.repriced /\ ~source.compounded
        /\ path # NoFile => source.at = path.at
    BY <1>5, LedgerFile
  <2>2. /\ Repriced(source) \in File /\ Repriced(source).at = source.at /\ Repriced(source).repriced
        /\ ~Repriced(source).compounded
    BY <2>1, RepricedFile
  <2>3. source # NoFile /\ Repriced(source) # NoFile
    BY <2>1, <2>2, FileFields
  <2>4. Honest(Repriced(source)) /\ Honest(NoFile) /\ Plain(source)
    BY <2>1, <2>2 DEF Honest, Plain
  <2>5. Backed(Repriced(source), source) /\ Backed(NoFile, source)
    BY <2>2, <2>3 DEF Backed
  <2>6. ~cut => Backed(path, source)
    BY <1>2, <2>1, <2>3 DEF Backed
  <2>7. Take(j, "sourced", Repriced(source), source, NoFile)
    BY <1>d DEF StartRebuild
  <2> HIDE DEF source
  <2> QED
    BY <1>a, <2>1, <2>2, <2>3, <2>4, <2>5, <2>6, <2>7
<1> QED
  BY <1>b, <1>c, <1>d

\* A job goes on, up to what it publishes.
LEMMA InvWork ==
  ASSUME ArtifactInv, NEW j \in Jobs,
         ReadCurrent(j) \/ Scanned(j) \/ Priced(j) \/ RetireBase(j) \/ WriteBase(j) \/ KeepPrev(j)
  PROVE  ArtifactInv'
<1>0. TypeOK /\ TypeOK' /\ FilesOk
  BY TypeJobs DEF ArtifactInv, JobStep
<1>1. Working(j) /\ job[j] \in [stage : Stages, new : File \cup {NoFile},
                                source : File \cup {NoFile}, current : File \cup {NoFile}]
  <2>1. Working(j)
    BY DEF ReadCurrent, Scanned, Priced, RetireBase, WriteBase, KeepPrev, At, Working
  <2> QED
    BY <1>0, <2>1, JobFields
<1>2. StagesOk(j) /\ (~cut => BackedOk(j) /\ (path # NoFile => ~path.compounded))
  BY <1>1 DEF ArtifactInv
<1>3. ~Rebasing(j) /\ ~cut => Backed(path, base) /\ Backed(prev, base)
  <2>1. \A i \in Jobs : i # j => ~Rebasing(i)
    BY <1>1 DEF ArtifactInv, Working, Rebasing
  <2> QED
    BY <2>1 DEF ArtifactInv
<1>4. UNCHANGED <<path, scan, cut>>
  BY DEF ReadCurrent, Scanned, Priced, RetireBase, WriteBase, KeepPrev
<1>a. ASSUME NEW r, job' = [job EXCEPT ![j] = r]
      PROVE  job'[j] = r /\ \A i \in Jobs : i # j => job'[i].stage = "idle"
  BY <1>1, <1>a, OnlyJob
<1>b. CASE ReadCurrent(j)
  <2>1. job' = [job EXCEPT ![j] = [job[j] EXCEPT !.stage = "fetching", !.current = path]]
    BY <1>b DEF ReadCurrent
  <2>2. /\ job'[j] = [job[j] EXCEPT !.stage = "fetching", !.current = path]
        /\ \A i \in Jobs : i # j => job'[i].stage = "idle"
    BY <1>a, <2>1
  <2>3. /\ job'[j].stage = "fetching" /\ job'[j].current = path
        /\ job'[j].new = job[j].new /\ job'[j].source = job[j].source
    BY <1>1, <2>2
  <2>4. job[j].stage = "sourced" /\ UNCHANGED <<prev, base>>
    BY <1>b DEF ReadCurrent, At
  <2>5. FilesOk' /\ StagesOk(j)'
    BY <1>0, <1>2, <1>4, <2>3, <2>4 DEF FilesOk, StagesOk, Honest, Plain
  <2>6. ~cut => BackedOk(j)'
    BY <1>2, <1>4, <2>3, <2>4 DEF BackedOk, Coming, Backed
  <2>7. ~cut => Backed(path, base)' /\ Backed(prev, base)'
    BY <1>3, <1>4, <2>4 DEF Backed, Rebasing
  <2> QED
    BY <1>0, <1>2, <1>4, <2>2, <2>5, <2>6, <2>7, JobInv
<1>c. CASE Scanned(j)
  <2>1. job' = [job EXCEPT ![j] = [job[j] EXCEPT !.stage = "accepted", !.new = Scan(TRUE)]]
    BY <1>c DEF Scanned
  <2>2. /\ job'[j] = [job[j] EXCEPT !.stage = "accepted", !.new = Scan(TRUE)]
        /\ \A i \in Jobs : i # j => job'[i].stage = "idle"
    BY <1>a, <2>1
  <2>3. /\ job'[j].stage = "accepted" /\ job'[j].current = job[j].current
        /\ job'[j].new = Scan(TRUE) /\ job'[j].source = job[j].source
    BY <1>1, <2>2
  <2>4. job[j].stage = "scanning" /\ UNCHANGED <<prev, base>>
    BY <1>c DEF Scanned, At
  <2>5. Scan(TRUE) # NoFile /\ Honest(Scan(TRUE)) /\ \A b : Backed(Scan(TRUE), b)
    BY <1>0, ScanFile, FileFields
  <2>6. FilesOk' /\ StagesOk(j)'
    BY <1>0, <1>2, <1>4, <2>3, <2>4, <2>5 DEF FilesOk, StagesOk, Honest, Plain
  <2>7. ~cut => BackedOk(j)'
    BY <1>2, <1>4, <2>3, <2>4, <2>5 DEF BackedOk, Coming, Backed
  <2>8. ~cut => Backed(path, base)' /\ Backed(prev, base)'
    BY <1>2, <1>3, <1>4, <2>4 DEF Backed, Rebasing
  <2> QED
    BY <1>0, <1>2, <1>4, <2>2, <2>6, <2>7, <2>8, JobInv
<1>d. ASSUME NEW stage \in {"accepted", "retired", "based", "kept"},
             job' = [job EXCEPT ![j] = [job[j] EXCEPT !.stage = stage]]
      PROVE  /\ job'[j].stage = stage /\ job'[j].new = job[j].new
             /\ job'[j].source = job[j].source /\ job'[j].current = job[j].current
             /\ \A i \in Jobs : i # j => job'[i].stage = "idle"
  <2>1. job'[j] = [job[j] EXCEPT !.stage = stage] /\ \A i \in Jobs : i # j => job'[i].stage = "idle"
    BY <1>a, <1>d
  <2> QED
    BY <1>1, <2>1
<1>e. CASE Priced(j)
  <2>1. /\ job'[j].stage = "accepted" /\ job'[j].new = job[j].new
        /\ job'[j].source = job[j].source /\ job'[j].current = job[j].current
        /\ \A i \in Jobs : i # j => job'[i].stage = "idle"
    BY <1>d, <1>e DEF Priced
  <2>2. job[j].stage = "fetching" /\ UNCHANGED <<prev, base>>
    BY <1>e DEF Priced, At
  <2>3. FilesOk' /\ StagesOk(j)'
    BY <1>0, <1>2, <1>4, <2>1, <2>2 DEF FilesOk, StagesOk, Honest, Plain
  <2>4. ~cut => BackedOk(j)'
    BY <1>2, <1>4, <2>1, <2>2 DEF BackedOk, Coming, Backed
  <2>5. ~cut => Backed(path, base)' /\ Backed(prev, base)'
    BY <1>3, <1>4, <2>2 DEF Backed, Rebasing
  <2> QED
    BY <1>0, <1>2, <1>4, <2>1, <2>3, <2>4, <2>5, JobInv
<1>f. CASE RetireBase(j)
  <2>1. /\ job'[j].stage = "retired" /\ job'[j].new = job[j].new
        /\ job'[j].source = job[j].source /\ job'[j].current = job[j].current
        /\ \A i \in Jobs : i # j => job'[i].stage = "idle"
    BY <1>d, <1>f DEF RetireBase
  <2>2. job[j].stage = "accepted" /\ job[j].source # NoFile /\ base' = NoFile /\ UNCHANGED prev
    BY <1>f DEF RetireBase, At
  <2>3. FilesOk' /\ StagesOk(j)'
    BY <1>0, <1>2, <1>4, <2>1, <2>2 DEF FilesOk, StagesOk, Honest, Plain
  <2>4. ~cut => BackedOk(j)'
    BY <1>2, <1>4, <2>1, <2>2 DEF BackedOk, Coming, Backed
  <2> QED
    BY <1>0, <1>2, <1>4, <2>1, <2>2, <2>3, <2>4, JobInv DEF Rebasing
<1>g. CASE WriteBase(j)
  <2>1. /\ job'[j].stage = "based" /\ job'[j].new = job[j].new
        /\ job'[j].source = job[j].source /\ job'[j].current = job[j].current
        /\ \A i \in Jobs : i # j => job'[i].stage = "idle"
    BY <1>d, <1>g DEF WriteBase
  <2>2. job[j].stage = "retired" /\ job[j].source # NoFile /\ base' = job[j].source /\ UNCHANGED prev
    BY <1>2, <1>g DEF WriteBase, At, StagesOk
  <2>3. FilesOk' /\ StagesOk(j)'
    BY <1>0, <1>2, <1>4, <2>1, <2>2 DEF FilesOk, StagesOk, Honest, Plain
  <2>4. ~cut => BackedOk(j)'
    BY <1>2, <1>4, <2>1, <2>2 DEF BackedOk, Coming, Backed
  <2> QED
    BY <1>0, <1>2, <1>4, <2>1, <2>2, <2>3, <2>4, JobInv DEF Rebasing
<1>h. CASE KeepPrev(j)
  <2>1. /\ job'[j].stage = "kept" /\ job'[j].new = job[j].new
        /\ job'[j].source = job[j].source /\ job'[j].current = job[j].current
        /\ \A i \in Jobs : i # j => job'[i].stage = "idle"
    BY <1>d, <1>h DEF KeepPrev
  <2>2. /\ job[j].stage = "based" \/ (job[j].stage = "accepted" /\ job[j].source = NoFile)
        /\ prev' = IF job[j].current # NoFile THEN job[j].current ELSE prev
        /\ UNCHANGED base
    BY <1>h DEF KeepPrev, At
  <2>3. job[j].current = NoFile => prev = NoFile
    BY <1>2, <2>2 DEF StagesOk
  <2>4. prev' = job[j].current
    BY <2>2, <2>3
  <2>5. StagesOk(j)'
    BY <1>2, <1>4, <2>1, <2>2, <2>4 DEF StagesOk, Honest, Plain
  <2>6. ~cut => BackedOk(j)'
    BY <1>2, <1>4, <2>1, <2>2, <2>4 DEF BackedOk, Coming, Backed
  <2>7. FilesOk'
    BY <1>0, <1>2, <1>4, <2>2, <2>4 DEF FilesOk, StagesOk, Honest, Plain
  <2>8. ~cut /\ job[j].source = NoFile => Backed(path, base)' /\ Backed(prev, base)'
    <3> SUFFICES ASSUME ~cut, job[j].source = NoFile
                 PROVE  Backed(path, base)' /\ Backed(prev, base)'
      OBVIOUS
    <3>1. job[j].stage = "accepted"
      BY <1>2, <2>2 DEF StagesOk
    <3>2. Backed(path, base)
      BY <1>3, <3>1 DEF Rebasing
    <3>3. Backed(job[j].current, base)
      BY <1>2 DEF BackedOk, Coming
    <3> QED
      BY <1>4, <2>2, <2>4, <3>2, <3>3 DEF Backed
  <2> QED
    BY <1>0, <1>2, <1>4, <2>1, <2>5, <2>6, <2>7, <2>8, JobInv DEF Rebasing
<1> QED
  BY <1>b, <1>c, <1>e, <1>f, <1>g, <1>h

\* A job ends.
LEMMA InvEnd ==
  ASSUME ArtifactInv, NEW j \in Jobs, Reject(j) \/ Publish(j) \/ Crash(j)
  PROVE  ArtifactInv'
<1>0. TypeOK /\ TypeOK' /\ FilesOk
  BY TypeJobs DEF ArtifactInv, JobStep
<1>1. Working(j)
  BY DEF Reject, Publish, Crash, At, Working
<1>2. StagesOk(j) /\ (~cut => BackedOk(j) /\ (path # NoFile => ~path.compounded))
  BY <1>1 DEF ArtifactInv
<1>3. ~Rebasing(j) /\ ~cut => Backed(path, base) /\ Backed(prev, base)
  <2>1. \A i \in Jobs : i # j => ~Rebasing(i)
    BY <1>1 DEF ArtifactInv, Working, Rebasing
  <2> QED
    BY <2>1 DEF ArtifactInv
<1>4. job' = [job EXCEPT ![j] = Idle]
  BY DEF Reject, Publish, Crash
<1>5. job'[j].stage = "idle" /\ \A i \in Jobs : i # j => job'[i].stage = "idle"
  <2>1. job'[j] = Idle /\ \A i \in Jobs : i # j => job'[i].stage = "idle"
    BY <1>1, <1>4, OnlyJob
  <2> QED
    BY <2>1 DEF Idle
<1>6. UNCHANGED <<prev, base, scan>> /\ (~cut' => ~cut)
  <2>1. UNCHANGED <<prev, base, scan>>
    BY DEF Reject, Publish, Crash
  <2>2. ~cut' => ~cut
    <3>1. CASE Crash(j)
      BY <3>1, Zenon DEF Crash
    <3>2. CASE Reject(j) \/ Publish(j)
      BY <3>2 DEF Reject, Publish
    <3> QED
      BY <3>1, <3>2
  <2> QED
    BY <2>1, <2>2
<1>b. CASE Reject(j) \/ Crash(j)
  <2>1. UNCHANGED path
    BY <1>b DEF Reject, Crash
  <2>2. FilesOk'
    BY <1>0, <1>6, <2>1 DEF FilesOk, Honest, Plain
  <2>3. ~cut' => ~Rebasing(j)
    BY <1>b DEF Reject, Crash, At, Rebasing
  <2>4. ~cut' => Backed(path, base)' /\ Backed(prev, base)'
    BY <1>3, <1>6, <2>1, <2>3 DEF Backed
  <2> QED
    BY <1>0, <1>2, <1>5, <1>6, <2>1, <2>2, <2>4, JobInv DEF Working
<1>c. CASE Publish(j)
  <2>1. path' = job[j].new /\ job[j].stage = "kept" /\ cut' = cut
    BY <1>c DEF Publish, At
  <2>2. path' # NoFile /\ FilesOk'
    BY <1>0, <1>2, <1>6, <2>1 DEF FilesOk, StagesOk, Honest, Plain
  <2>3. Coming(j) = base
    BY <1>2, <2>1 DEF StagesOk, Coming
  <2>4. ~cut' => Backed(path, base)' /\ Backed(prev, base)'
    BY <1>2, <1>6, <2>1, <2>3 DEF BackedOk, Backed
  <2>5. ~cut' => ~path'.compounded
    BY <2>2, <2>4 DEF Backed
  <2> QED
    BY <1>0, <1>5, <2>2, <2>4, <2>5, JobInv DEF Working
<1> QED
  BY <1>b, <1>c

LEMMA InvRollback ==
  ASSUME ArtifactInv, Rollback
  PROVE  ArtifactInv'
<1>0. TypeOK' /\ FilesOk
  BY TypeStep DEF ArtifactInv, Next
<1>1. path' = prev /\ prev # NoFile /\ prev' = NoFile /\ UNCHANGED <<base, job, scan, cut>>
  BY DEF Rollback
<1>2. \A j \in Jobs : ~Working(j) /\ ~Working(j)'
  BY <1>1 DEF Rollback, BusyJobs, Working
<1>3. \A j \in Jobs : ~Rebasing(j)
  BY <1>2 DEF Working, Rebasing
<1>4. ~cut => Backed(prev, base)
  BY <1>3 DEF ArtifactInv
<1>5. FilesOk'
  BY <1>0, <1>1 DEF FilesOk, Honest, Plain
<1>6. ~cut' => Backed(path, base)' /\ Backed(prev, base)' /\ ~path'.compounded
  BY <1>1, <1>4 DEF Backed
<1> QED
  BY <1>0, <1>2, <1>5, <1>6 DEF ArtifactInv

LEMMA InvStep == ArtifactInv /\ [Next]_vars => ArtifactInv'
<1> SUFFICES ASSUME ArtifactInv, [Next]_vars
             PROVE  ArtifactInv'
  OBVIOUS
<1>1. CASE \E s \in Scanners : ScanStep(s)
  BY <1>1, InvScans
<1>2. CASE \E j \in Jobs : JobStep(j)
  BY <1>2, InvTake, InvWork, InvEnd DEF JobStep
<1>3. CASE Rollback
  BY <1>3, InvRollback
<1>4. CASE Tick \/ UNCHANGED vars
  <2>1. UNCHANGED <<path, prev, base, job, scan, cut>>
    BY <1>4 DEF Tick, vars
  <2>2. TypeOK'
    BY <1>4, TypeStep DEF ArtifactInv, Next
  <2>3. FilesOk'
    BY <2>1 DEF ArtifactInv, FilesOk, Honest, Plain
  <2> QED
    BY <2>1, <2>2, <2>3 DEF ArtifactInv, Working, StagesOk, BackedOk, Backed, Coming, Rebasing, Honest, Plain
<1> QED
  BY <1>1, <1>2, <1>3, <1>4 DEF Next

\* Every repriced file has its scan in the base, but for the writes of a
\* publication and what is left of one that was cut.
THEOREM ArtifactInvariant == Spec => []ArtifactInv
  BY InvInit, InvStep, PTL DEF Spec

\* Prices are never renewed from renewed ones, whatever scans, rebuilds and
\* rollbacks come between, unless a publication was cut.
THEOREM NeverDrifts == Spec => []NoDrift
<1>1. ArtifactInv => NoDrift
  BY DEF ArtifactInv, NoDrift
<1> QED
  BY <1>1, ArtifactInvariant, PTL

------------------------------------------------------------------------------
(***************************************************************************)
(* What a writer has seen.  A publication loses nothing it has seen        *)
(* because the market's stamps are those of scans: of two files with one   *)
(* stamp neither is more complete, and a scan is newer than all there is.  *)
(***************************************************************************)

\* Every file there is, and those jobs and scans work with.
Artifacts ==
  ({path, prev, base}
     \cup {scan[s].new : s \in BusyScanners}
     \cup UNION {{job[j].new, job[j].source, job[j].current} : j \in BusyJobs}) \ {NoFile}

\* Copies and repricings of one scan.
Kin(f, g) == f.at = g.at /\ f.complete = g.complete

\* A stamp is of one scan, done before t; a rebuild of nothing has none.
Stamped(files_, t) ==
  \A f \in files_ : /\ f.at < t
                    /\ f.at = 0 => ~f.complete
                    /\ \A g \in files_ : f.at = g.at => Kin(f, g)

\* A job whose read holds good publishes no loss, ...
JobSees(j) ==
  /\ job[j].stage # "sourced" => job[j].current = path
  /\ job[j].stage # "scanning" /\ path # NoFile => ~Loses(path, job[j].new)

\* ... and such a scan no older artifact, nor a loss if it is bounded.
ScanSees(s) ==
  path # NoFile => /\ path.at < scan[s].new.at
                   /\ scan[s].full \/ ~Loses(path, scan[s].new)

\* .prev is what the job at this stage is to replace.
Keeps(j) == job[j].stage = "kept" /\ job[j].current # NoFile => prev = job[j].current

SeenInv ==
  /\ Stamped(Artifacts, now)
  /\ \A j \in BusyJobs : Keeps(j)
  /\ \A j \in BusyJobs \ overtaken : JobSees(j)
  /\ \A s \in BusyScanners \ overtaken : ScanSees(s)

\* Files are all that is counted.
LEMMA ArtifactsTyped == TypeOK => Artifacts \subseteq File
<1> SUFFICES ASSUME TypeOK, NEW f \in Artifacts
             PROVE  f \in File
  OBVIOUS
<1>1. ASSUME NEW s \in BusyScanners
      PROVE  scan[s].new \in File
  BY <1>1 DEF TypeOK, BusyScanners, Idle
<1>2. ASSUME NEW j \in BusyJobs
      PROVE  {job[j].new, job[j].source, job[j].current} \subseteq File \cup {NoFile}
  BY <1>2, JobFields DEF BusyJobs, Working
<1>3. {path, prev, base} \subseteq File \cup {NoFile}
  BY DEF TypeOK
<1> QED
  BY <1>1, <1>2, <1>3 DEF Artifacts

\* Stamps stay those of scans when files are copied, repriced, or started from
\* nothing.
LEMMA StampsKept ==
  ASSUME NEW F \in SUBSET File, NEW G, NEW t \in Nat \ {0}, Stamped(F, t),
         \A g \in G : (\E f \in F : Kin(g, f)) \/ (g.at = 0 /\ g.complete = FALSE)
  PROVE  Stamped(G, t)
<1>1. ASSUME NEW f \in F
      PROVE  f.at \in Nat /\ f.complete \in BOOLEAN /\ f.at < t /\ (f.at = 0 => f.complete = FALSE)
  <2>1. f \in File
    OBVIOUS
  <2>2. f.at \in Nat /\ f.complete \in BOOLEAN
    BY <2>1, FileFields, ArtifactAssumption DEF ArtifactAssumption
  <2> QED
    BY <2>2 DEF Stamped
<1>2. ASSUME NEW g \in G
      PROVE  g.at < t /\ (g.at = 0 => g.complete = FALSE)
  <2>1. CASE \E f \in F : Kin(g, f)
    BY <1>1, <2>1 DEF Kin
  <2>2. CASE g.at = 0 /\ g.complete = FALSE
    BY <2>2
  <2> QED
    BY <1>2, <2>1, <2>2
<1>3. ASSUME NEW g \in G, NEW h \in G, g.at = h.at
      PROVE  Kin(g, h)
  <2>1. CASE g.at = 0
    BY <1>2, <1>3, <2>1 DEF Kin
  <2>2. CASE g.at # 0
    <3>1. PICK e \in F : Kin(g, e)
      BY <2>2
    <3>2. PICK f \in F : Kin(h, f)
      BY <1>3, <2>2
    <3>3. e.at = f.at
      BY <1>3, <3>1, <3>2 DEF Kin
    <3>4. Kin(e, f)
      BY <3>3 DEF Stamped
    <3> QED
      BY <1>3, <3>1, <3>2, <3>4 DEF Kin
  <2> QED
    BY <2>1, <2>2
<1> QED
  BY <1>2, <1>3 DEF Stamped

\* And when a scan is done.
LEMMA StampsNewScan ==
  ASSUME NEW F \in SUBSET File, NEW t \in Nat \ {0}, NEW u \in Nat, t < u, Stamped(F, t),
         NEW new, new.at = t, NEW G, G \subseteq F \cup {new}
  PROVE  Stamped(G, u)
<1>1. ASSUME NEW f \in F
      PROVE  f.at \in Nat /\ f.at < t /\ (f.at = 0 => ~f.complete)
  <2>1. f \in File
    OBVIOUS
  <2>2. f.at \in Nat
    BY <2>1, FileFields, ArtifactAssumption DEF ArtifactAssumption
  <2> QED
    BY <2>2 DEF Stamped
<1>2. ASSUME NEW g \in G
      PROVE  g.at < u /\ (g.at = 0 => ~g.complete)
  BY <1>1
<1>3. ASSUME NEW g \in G, NEW h \in G, g.at = h.at
      PROVE  Kin(g, h)
  <2>1. CASE g \in F /\ h \in F
    BY <1>3, <2>1 DEF Stamped
  <2>2. CASE g = new
    <3>1. h = new
      BY <1>1, <1>3, <2>2
    <3> QED
      BY <2>2, <3>1 DEF Kin
  <2>3. CASE h = new
    <3>1. g = new
      BY <1>1, <1>3, <2>3
    <3> QED
      BY <2>3, <3>1 DEF Kin
  <2> QED
    BY <2>1, <2>2, <2>3
<1> QED
  BY <1>2, <1>3 DEF Stamped

\* The files there are when a job has gone on.
LEMMA JobArtifacts ==
  ASSUME TypeOK, NEW j \in Jobs, NEW r, job' = [job EXCEPT ![j] = r], UNCHANGED scan, NEW G,
         {path', prev', base'} \subseteq Artifacts \cup {NoFile},
         r.stage # "idle" => {r.new, r.source, r.current} \subseteq Artifacts \cup G \cup {NoFile}
  PROVE  Artifacts' \subseteq Artifacts \cup G
<1> SUFFICES ASSUME NEW f \in Artifacts', f \notin Artifacts
             PROVE  f \in G
  OBVIOUS
<1>1. BusyScanners' = BusyScanners
  BY DEF BusyScanners
<1>2. f # NoFile /\ f \notin {path', prev', base'} /\ \A s \in BusyScanners' : f # scan'[s].new
  BY <1>1 DEF Artifacts
<1>3. PICK i \in BusyJobs' : f \in {job'[i].new, job'[i].source, job'[i].current}
  BY <1>2 DEF Artifacts
<1>4. job'[j] = r /\ \A k \in Jobs : k # j => job'[k] = job[k]
  BY DEF TypeOK
<1>5. CASE i = j
  BY <1>2, <1>3, <1>4, <1>5 DEF BusyJobs
<1>6. CASE i # j
  <2>1. i \in BusyJobs /\ job'[i] = job[i]
    BY <1>3, <1>4, <1>6 DEF BusyJobs
  <2> QED
    BY <1>2, <1>3, <2>1 DEF Artifacts
<1> QED
  BY <1>5, <1>6

\* The files a job works with are counted.
LEMMA InArtifacts ==
  ASSUME TypeOK
  PROVE  /\ {path, prev, base} \subseteq Artifacts \cup {NoFile}
         /\ \A j \in Jobs : Working(j) => {job[j].new, job[j].source, job[j].current} \subseteq Artifacts \cup {NoFile}
         /\ \A s \in BusyScanners : scan[s].new \in Artifacts \cup {NoFile}
  BY DEF Artifacts, BusyJobs, Working

LEMMA StampsScan ==
  ASSUME TypeOK, Stamped(Artifacts, now), NEW s \in Scanners, ScanStep(s)
  PROVE  Stamped(Artifacts, now)'
<1>0. Artifacts \in SUBSET File /\ now \in Nat \ {0}
  BY ArtifactsTyped, ArtifactAssumption DEF TypeOK, ArtifactAssumption
<1>1. CASE Decide(s)
  <2> PICK full \in BOOLEAN, complete \in BOOLEAN :
        scan' = [scan EXCEPT ![s] = [stage |-> "decided", full |-> full, new |-> Scan(complete)]]
    BY <1>1 DEF Decide
  <2>1. scan'[s].new = Scan(complete) /\ \A x \in Scanners : x # s => scan'[x] = scan[x]
    BY DEF TypeOK
  <2>2. Artifacts' \subseteq Artifacts \cup {Scan(complete)}
    BY <1>1, <2>1 DEF Decide, Artifacts, BusyScanners, BusyJobs
  <2>3. Scan(complete).at = now
    BY DEF Scan
  <2>4. now' \in Nat /\ now < now'
    BY <1>0, <1>1 DEF Decide, Passes
  <2> QED
    BY <1>0, <2>2, <2>3, <2>4, StampsNewScan
<1>2. CASE WriteScan(s) \/ DropScan(s)
  <2>1. scan[s].stage # "idle" /\ scan' = [scan EXCEPT ![s] = Idle]
        /\ UNCHANGED <<prev, base, job, now>> /\ path' \in {path, scan[s].new}
    BY <1>2 DEF WriteScan, DropScan
  <2>2. \A x \in BusyScanners' : x \in BusyScanners /\ scan'[x] = scan[x]
    BY <2>1 DEF BusyScanners, Idle, TypeOK
  <2>3. Artifacts' \subseteq Artifacts
    BY <2>1, <2>2 DEF Artifacts, BusyScanners, BusyJobs
  <2> QED
    BY <1>0, <2>1, <2>3 DEF Stamped
<1> QED
  BY <1>1, <1>2 DEF ScanStep

\* Where a repricing starts is a copy of the scan of what it reprices.
LEMMA PristineKin ==
  ASSUME TypeOK, Stamped(Artifacts, now), path # NoFile
  PROVE  Kin(Repriced(Pristine(path)), path)
<1>1. Kin(Pristine(path), path)
  <2>1. path \in Artifacts /\ (base # NoFile => base \in Artifacts)
    BY DEF Artifacts
  <2> QED
    BY <2>1 DEF Pristine, Stamped, Kin
<1>2. Pristine(path) \in File
  BY PristineFile
<1> QED
  BY <1>1, <1>2, RepricedFile DEF Kin

LEMMA StampsJob ==
  ASSUME TypeOK, Stamped(Artifacts, now), NEW j \in Jobs, JobStep(j)
  PROVE  Stamped(Artifacts, now)'
<1>0. Artifacts \in SUBSET File /\ now \in Nat \ {0}
  BY ArtifactsTyped, ArtifactAssumption DEF TypeOK, ArtifactAssumption
<1>i. {path, prev, base} \subseteq Artifacts \cup {NoFile}
  BY InArtifacts
<1>w. Working(j) => {job[j].new, job[j].source, job[j].current} \subseteq Artifacts \cup {NoFile}
  BY InArtifacts
<1>a. ASSUME NEW G, \A g \in G : (\E f \in Artifacts : Kin(g, f)) \/ (g.at = 0 /\ g.complete = FALSE),
             Artifacts' \subseteq Artifacts \cup G, now' = now
      PROVE  Stamped(Artifacts, now)'
  <2>1. \A f \in Artifacts' : (\E g \in Artifacts : Kin(f, g)) \/ (f.at = 0 /\ f.complete = FALSE)
    BY <1>a DEF Kin
  <2> QED
    BY <1>0, <1>a, <2>1, StampsKept
<1>b. ASSUME Artifacts' \subseteq Artifacts, now' = now
      PROVE  Stamped(Artifacts, now)'
  BY <1>b DEF Stamped
<1>1. CASE StartRefresh(j) \/ StartReprice(j) \/ StartRebuild(j)
  <2>0. UNCHANGED <<path, prev, base, scan, now>>
    BY <1>1 DEF StartRefresh, StartReprice, StartRebuild, Take
  <2>a. ASSUME NEW stage, NEW new, NEW source, NEW current, Take(j, stage, new, source, current), NEW G,
               {new, source, current} \subseteq Artifacts \cup G \cup {NoFile}
        PROVE  Artifacts' \subseteq Artifacts \cup G
    <3> DEFINE r == [stage |-> stage, new |-> new, source |-> source, current |-> current]
    <3>1. job' = [job EXCEPT ![j] = r]
      BY <2>a DEF Take
    <3>2. {r.new, r.source, r.current} \subseteq Artifacts \cup G \cup {NoFile}
      BY <2>a
    <3> HIDE DEF r
    <3> QED
      BY <1>i, <2>0, <3>1, <3>2, JobArtifacts
  <2>1. CASE StartRefresh(j)
    <3>1. Artifacts' \subseteq Artifacts \cup {}
      BY <1>i, <2>1, <2>a DEF StartRefresh
    <3> QED
      BY <1>b, <2>0, <3>1
  <2>2. CASE StartReprice(j)
    <3> DEFINE new == Repriced(Pristine(path))
               source == IF path.repriced THEN NoFile ELSE path
               G == {new}
    <3>1. Take(j, "fetching", new, source, path) /\ path # NoFile
      BY <2>2 DEF StartReprice
    <3>2. Kin(new, path) /\ path \in Artifacts
      BY <1>i, <3>1, PristineKin
    <3>3. {new, source, path} \subseteq Artifacts \cup G \cup {NoFile}
      BY <3>2
    <3> HIDE DEF new, source
    <3>4. \A g \in G : (\E f \in Artifacts : Kin(g, f)) \/ (g.at = 0 /\ g.complete = FALSE)
      BY <3>2
    <3> HIDE DEF G
    <3>5. Artifacts' \subseteq Artifacts \cup G
      BY <2>a, <3>1, <3>3
    <3> QED
      BY <1>a, <2>0, <3>4, <3>5
  <2>3. CASE StartRebuild(j)
    <3> DEFINE source == FromLedger(path)
               new == Repriced(source)
               G == {new, source}
    <3>1. path \in File \cup {NoFile}
      BY DEF TypeOK
    <3>2. /\ source \in File
          /\ path # NoFile => Kin(source, path)
          /\ path = NoFile => source.at = 0 /\ source.complete = FALSE
      BY <3>1, LedgerFile DEF Kin
    <3>3. new.at = source.at /\ new.complete = source.complete
      BY <3>2, RepricedFile
    <3>4. Take(j, "sourced", new, source, NoFile)
      BY <2>3 DEF StartRebuild
    <3> HIDE DEF source, new
    <3>5. \A g \in G : (\E f \in Artifacts : Kin(g, f)) \/ (g.at = 0 /\ g.complete = FALSE)
      BY <1>i, <3>2, <3>3 DEF Kin
    <3>6. {new, source, NoFile} \subseteq Artifacts \cup G \cup {NoFile}
      OBVIOUS
    <3> HIDE DEF G
    <3>7. Artifacts' \subseteq Artifacts \cup G
      BY <2>a, <3>4, <3>6
    <3> QED
      BY <1>a, <2>0, <3>5, <3>7
  <2> QED
    BY <1>1, <2>1, <2>2, <2>3
<1>2. CASE ReadCurrent(j)
  <2> DEFINE r == [job[j] EXCEPT !.stage = "fetching", !.current = path]
  <2>1. job' = [job EXCEPT ![j] = r] /\ UNCHANGED <<path, prev, base, scan, now>> /\ Working(j)
    BY <1>2 DEF ReadCurrent, At, Working
  <2>2. r.new = job[j].new /\ r.source = job[j].source /\ r.current = path
    BY <2>1, JobFields
  <2>3. {r.new, r.source, r.current} \subseteq Artifacts \cup {} \cup {NoFile}
    BY <1>i, <1>w, <2>1, <2>2
  <2> HIDE DEF r
  <2>4. Artifacts' \subseteq Artifacts \cup {}
    BY <1>i, <2>1, <2>3, JobArtifacts
  <2> QED
    BY <1>b, <2>1, <2>4
<1>3. CASE Scanned(j)
  <2> DEFINE r == [job[j] EXCEPT !.stage = "accepted", !.new = Scan(TRUE)]
  <2>1. job' = [job EXCEPT ![j] = r] /\ UNCHANGED <<path, prev, base, scan>> /\ Working(j)
    BY <1>3 DEF Scanned, At, Working
  <2>2. r.new = Scan(TRUE) /\ r.source = job[j].source /\ r.current = job[j].current
    BY <2>1, JobFields
  <2>3. {r.new, r.source, r.current} \subseteq Artifacts \cup {Scan(TRUE)} \cup {NoFile}
    BY <1>w, <2>1, <2>2
  <2>4. Scan(TRUE).at = now
    BY DEF Scan
  <2> HIDE DEF r
  <2>5. Artifacts' \subseteq Artifacts \cup {Scan(TRUE)}
    BY <1>i, <2>1, <2>3, JobArtifacts
  <2>6. now' \in Nat /\ now < now'
    BY <1>0, <1>3 DEF Scanned, Passes
  <2> QED
    BY <1>0, <2>4, <2>5, <2>6, StampsNewScan
<1>4. CASE Priced(j) \/ RetireBase(j) \/ WriteBase(j) \/ KeepPrev(j)
  <2>1. PICK stage : job' = [job EXCEPT ![j] = [job[j] EXCEPT !.stage = stage]]
    BY <1>4 DEF Priced, RetireBase, WriteBase, KeepPrev
  <2> DEFINE r == [job[j] EXCEPT !.stage = stage]
  <2>2. Working(j) /\ UNCHANGED <<path, scan, now>>
    BY <1>4 DEF Priced, RetireBase, WriteBase, KeepPrev, At, Working
  <2>3. r.new = job[j].new /\ r.source = job[j].source /\ r.current = job[j].current
    BY <2>2, JobFields
  <2>4. {r.new, r.source, r.current} \subseteq Artifacts \cup {} \cup {NoFile}
    BY <1>w, <2>2, <2>3
  <2>5. prev' \in {prev, job[j].current} /\ base' \in {base, NoFile, job[j].source}
    BY <1>4 DEF Priced, RetireBase, WriteBase, KeepPrev
  <2>6. {path', prev', base'} \subseteq Artifacts \cup {NoFile}
    BY <1>i, <1>w, <2>2, <2>5
  <2>7. job' = [job EXCEPT ![j] = r]
    BY <2>1
  <2> HIDE DEF r
  <2>8. Artifacts' \subseteq Artifacts \cup {}
    BY <2>2, <2>4, <2>6, <2>7, JobArtifacts
  <2> QED
    BY <1>b, <2>2, <2>8
<1>5. CASE Reject(j) \/ Publish(j) \/ Crash(j)
  <2>1. Working(j) /\ job' = [job EXCEPT ![j] = Idle] /\ UNCHANGED <<prev, base, scan, now>>
        /\ path' \in {path, job[j].new}
    BY <1>5 DEF Reject, Publish, Crash, At, Working
  <2>2. {path', prev', base'} \subseteq Artifacts \cup {NoFile}
    BY <1>i, <1>w, <2>1
  <2>3. Idle.stage = "idle"
    BY DEF Idle
  <2>4. Artifacts' \subseteq Artifacts \cup {}
    BY <2>1, <2>2, <2>3, JobArtifacts
  <2> QED
    BY <1>b, <2>1, <2>4
<1> QED
  BY <1>1, <1>2, <1>3, <1>4, <1>5 DEF JobStep

LEMMA StampsStep ==
  ASSUME TypeOK, Stamped(Artifacts, now), [Next]_vars
  PROVE  Stamped(Artifacts, now)'
<1>0. Artifacts \in SUBSET File /\ now \in Nat \ {0} /\ now' >= now
  <2>1. now \in 1..MaxNow
    BY DEF TypeOK
  <2>2. CASE Tick
    BY <2>1, <2>2, ArtifactsTyped, ArtifactAssumption DEF Tick, Passes, ArtifactAssumption
  <2>3. CASE now' = now \/ now' = now + 1
    BY <2>1, <2>3, ArtifactsTyped, ArtifactAssumption DEF ArtifactAssumption
  <2>4. now' = now \/ now' = now + 1
    BY DEF Next, vars, ScanStep, JobStep, Decide, WriteScan, DropScan, Take, StartRefresh, StartReprice,
           StartRebuild, ReadCurrent, Scanned, Priced, Reject, RetireBase, WriteBase, KeepPrev, Publish,
           Crash, Rollback, Tick, Passes
  <2> QED
    BY <2>3, <2>4
<1>1. CASE \E s \in Scanners : ScanStep(s)
  BY <1>1, StampsScan
<1>2. CASE \E j \in Jobs : JobStep(j)
  BY <1>2, StampsJob
<1>3. CASE Rollback
  <2>1. Artifacts' \subseteq Artifacts /\ now' = now
    BY <1>3 DEF Rollback, Artifacts, BusyJobs, BusyScanners
  <2> QED
    BY <2>1 DEF Stamped
<1>4. CASE Tick \/ UNCHANGED vars
  <2>1. Artifacts' = Artifacts
    BY <1>4 DEF Tick, vars, Artifacts, BusyJobs, BusyScanners
  <2>2. \A f \in Artifacts : f.at \in Nat
    BY <1>0, FileFields, ArtifactAssumption DEF ArtifactAssumption
  <2>3. now' \in Nat
    BY <1>0, <1>4 DEF Tick, Passes, vars
  <2> QED
    BY <1>0, <2>1, <2>2, <2>3 DEF Stamped
<1> QED
  BY <1>1, <1>2, <1>3, <1>4 DEF Next

LEMMA SeenInit == Init => SeenInv
<1> SUFFICES ASSUME Init
             PROVE  SeenInv
  OBVIOUS
<1>1. BusyJobs = {} /\ BusyScanners = {} /\ {path, prev, base} = {NoFile}
  BY DEF Init, BusyJobs, BusyScanners, Idle
<1>2. Artifacts = {}
  BY <1>1 DEF Artifacts
<1> QED
  BY <1>1, <1>2 DEF SeenInv, Stamped

LEMMA SeenScans ==
  ASSUME ArtifactInv, SeenInv, NEW s \in Scanners, ScanStep(s)
  PROVE  SeenInv'
<1>0. TypeOK /\ Stamped(Artifacts, now)'
  BY StampsStep DEF ArtifactInv, SeenInv, Next
<1>1. UNCHANGED <<prev, job>> /\ BusyJobs' = BusyJobs
  BY DEF ScanStep, Decide, WriteScan, DropScan, BusyJobs
<1>2. \A j \in BusyJobs' : Keeps(j)'
  BY <1>1 DEF SeenInv, Keeps
<1>3. CASE Decide(s)
  <2> PICK origin \in {"scheduled", "interactive"}, full \in BOOLEAN, complete \in BOOLEAN :
        /\ ~Refused(origin, full, complete)
        /\ scan' = [scan EXCEPT ![s] = [stage |-> "decided", full |-> full, new |-> Scan(complete)]]
    BY <1>3 DEF Decide
  <2>1. UNCHANGED path /\ overtaken' = overtaken \ {s}
    BY <1>3 DEF Decide
  <2>2. scan'[s].full = full /\ scan'[s].new = Scan(complete) /\ \A x \in Scanners : x # s => scan'[x] = scan[x]
    BY <1>0 DEF TypeOK
  <2>3. ScanSees(s)'
    <3>1. Scan(complete).at = now /\ Scan(complete).complete = complete
      BY DEF Scan
    <3>2. path # NoFile => path.at < now /\ ~(now < path.at)
      <4>1. path # NoFile => path.at \in Nat
        BY <1>0, FileFields, ArtifactAssumption DEF TypeOK, ArtifactAssumption
      <4> QED
        BY <1>0, <4>1, ArtifactAssumption DEF SeenInv, Stamped, Artifacts, TypeOK, ArtifactAssumption
    <3>3. path # NoFile /\ ~full => ~(path.complete /\ ~complete)
      BY DEF Refused
    <3> QED
      BY <2>1, <2>2, <3>1, <3>2, <3>3 DEF ScanSees, Loses
  <2>4. \A x \in BusyScanners' \ overtaken' : ScanSees(x)'
    BY <2>1, <2>2, <2>3 DEF SeenInv, ScanSees, BusyScanners
  <2>5. \A j \in BusyJobs' \ overtaken' : JobSees(j)'
    <3>1. s \notin Jobs
      BY ArtifactAssumption DEF ArtifactAssumption
    <3> QED
      BY <1>1, <2>1, <3>1 DEF SeenInv, JobSees, BusyJobs
  <2> QED
    BY <1>0, <1>2, <2>4, <2>5 DEF SeenInv
<1>4. CASE WriteScan(s)
  <2>1. BusyScanners' \subseteq BusyScanners
    BY <1>0, <1>4 DEF WriteScan, BusyScanners, Idle, TypeOK
  <2>2. BusyJobs' \cup BusyScanners' \subseteq overtaken'
    BY <1>1, <1>4, <2>1 DEF WriteScan
  <2> QED
    BY <1>0, <1>2, <2>2 DEF SeenInv
<1>5. CASE DropScan(s)
  <2>1. \A x \in BusyScanners' : x \in BusyScanners /\ scan'[x] = scan[x]
    BY <1>0, <1>5 DEF DropScan, BusyScanners, Idle, TypeOK
  <2>2. UNCHANGED <<path, overtaken>>
    BY <1>5 DEF DropScan
  <2> QED
    BY <1>0, <1>1, <1>2, <2>1, <2>2 DEF SeenInv, ScanSees, JobSees
<1> QED
  BY <1>3, <1>4, <1>5 DEF ScanStep

\* What is left to show of a step of j that leaves the artifact.
LEMMA SeenJob ==
  ASSUME ArtifactInv, SeenInv, NEW j \in Jobs, JobStep(j), NEW r, job' = [job EXCEPT ![j] = r],
         LockFree \/ Working(j), UNCHANGED <<path, scan>>, overtaken' \in {overtaken, overtaken \ {j}},
         Working(j)' => Keeps(j)',
         Working(j)' /\ j \notin overtaken' => JobSees(j)'
  PROVE  SeenInv'
<1>1. \A i \in BusyJobs' : i = j /\ Working(j)'
  BY OnlyJob DEF BusyJobs, Working
<1>2. Stamped(Artifacts, now)'
  BY StampsStep DEF ArtifactInv, SeenInv, Next
<1>3. \A s \in BusyScanners' \ overtaken' : ScanSees(s)'
  BY ArtifactAssumption DEF SeenInv, ScanSees, BusyScanners, ArtifactAssumption
<1> QED
  BY <1>1, <1>2, <1>3 DEF SeenInv

LEMMA SeenJobs ==
  ASSUME ArtifactInv, SeenInv, NEW j \in Jobs, JobStep(j)
  PROVE  SeenInv'
<1>0. TypeOK /\ Stamped(Artifacts, now)
  BY DEF ArtifactInv, SeenInv
<1>p. path \in File \cup {NoFile} /\ (path # NoFile => path.at \in Nat)
  BY <1>0, FileFields, ArtifactAssumption DEF TypeOK, ArtifactAssumption
<1>k. ASSUME NEW f, path # NoFile => Kin(f, path)
      PROVE  path # NoFile => ~Loses(path, f)
  BY <1>p, <1>k DEF Kin, Loses
<1>f. Working(j) => /\ job[j] \in [stage : Stages, new : File \cup {NoFile},
                                   source : File \cup {NoFile}, current : File \cup {NoFile}]
                    /\ \A r : [job EXCEPT ![j] = r][j] = r
  BY <1>0, JobFields DEF TypeOK
<1>s. Working(j) => /\ Keeps(j)
                    /\ j \notin overtaken => JobSees(j)
  BY DEF SeenInv, BusyJobs, Working
<1>t. ASSUME NEW stage \in {"scanning", "sourced", "fetching"}, NEW new, NEW source, NEW current,
             Take(j, stage, new, source, current),
             stage # "sourced" => current = path,
             stage # "scanning" /\ path # NoFile => ~Loses(path, new)
      PROVE  SeenInv'
  <2> DEFINE r == [stage |-> stage, new |-> new, source |-> source, current |-> current]
  <2>1. job' = [job EXCEPT ![j] = r] /\ LockFree /\ UNCHANGED <<path, scan>> /\ overtaken' = overtaken \ {j}
    BY <1>t DEF Take
  <2>2. job'[j] = r
    BY <1>0, <2>1 DEF TypeOK
  <2>3. job'[j].stage = stage /\ job'[j].new = new /\ job'[j].current = current
    BY <2>2
  <2>4. Keeps(j)' /\ JobSees(j)'
    BY <1>t, <2>1, <2>3 DEF Keeps, JobSees
  <2> HIDE DEF r
  <2> QED
    BY <2>1, <2>4, SeenJob
<1>1. CASE StartRefresh(j)
  BY <1>1, <1>t DEF StartRefresh
<1>2. CASE StartReprice(j)
  <2> DEFINE new == Repriced(Pristine(path))
             source == IF path.repriced THEN NoFile ELSE path
  <2>1. Take(j, "fetching", new, source, path)
    BY <1>2 DEF StartReprice
  <2>2. path # NoFile => ~Loses(path, new)
    BY <1>0, <1>k, PristineKin
  <2> HIDE DEF new, source
  <2> QED
    BY <1>t, <2>1, <2>2
<1>3. CASE StartRebuild(j)
  <2> DEFINE source == FromLedger(path)
             new == Repriced(source)
  <2>1. Take(j, "sourced", new, source, NoFile)
    BY <1>3 DEF StartRebuild
  <2>2. path # NoFile => Kin(new, path)
    BY <1>p, LedgerFile, RepricedFile DEF Kin
  <2> HIDE DEF new, source
  <2>3. path # NoFile => ~Loses(path, new)
    BY <1>k, <2>2
  <2> QED
    BY <1>t, <2>1, <2>3
<1>4. CASE ReadCurrent(j)
  <2> DEFINE r == [job[j] EXCEPT !.stage = "fetching", !.current = path]
  <2>1. /\ job' = [job EXCEPT ![j] = r] /\ Working(j) /\ job[j].stage = "sourced"
        /\ UNCHANGED <<path, scan, overtaken>>
    BY <1>4 DEF ReadCurrent, At, Working
  <2>2. job'[j] = r
    BY <1>f, <2>1
  <2>3. job'[j].stage = "fetching" /\ job'[j].new = job[j].new /\ job'[j].current = path
    BY <1>f, <2>1, <2>2
  <2>4. Keeps(j)' /\ (j \notin overtaken' => JobSees(j)')
    BY <1>s, <2>1, <2>3 DEF Keeps, JobSees
  <2> HIDE DEF r
  <2> QED
    BY <2>1, <2>4, SeenJob
<1>5. CASE Scanned(j)
  <2> DEFINE r == [job[j] EXCEPT !.stage = "accepted", !.new = Scan(TRUE)]
  <2>1. /\ job' = [job EXCEPT ![j] = r] /\ Working(j) /\ job[j].stage = "scanning"
        /\ UNCHANGED <<path, scan, overtaken>>
    BY <1>5 DEF Scanned, At, Working
  <2>2. job'[j] = r
    BY <1>f, <2>1
  <2>3. job'[j].stage = "accepted" /\ job'[j].new = Scan(TRUE) /\ job'[j].current = job[j].current
    BY <1>0, <2>1, <2>2, JobFields, ZenonT(40)
  <2>4. path # NoFile => path.at < now
    BY <1>0 DEF Stamped, Artifacts
  <2>5. path # NoFile => ~Loses(path, Scan(TRUE))
    BY <1>0, <1>p, <2>4, ArtifactAssumption DEF Scan, Loses, TypeOK, ArtifactAssumption
  <2>6. Keeps(j)' /\ (j \notin overtaken' => JobSees(j)')
    BY <1>s, <2>1, <2>3, <2>5 DEF Keeps, JobSees
  <2> HIDE DEF r
  <2> QED
    BY <2>1, <2>6, SeenJob
<1>6. CASE Priced(j) \/ RetireBase(j) \/ WriteBase(j) \/ KeepPrev(j)
  <2>1. PICK stage \in {"accepted", "retired", "based", "kept"} :
          /\ job' = [job EXCEPT ![j] = [job[j] EXCEPT !.stage = stage]]
          /\ stage = "kept" => KeepPrev(j)
    BY <1>6 DEF Priced, RetireBase, WriteBase, KeepPrev
  <2> DEFINE r == [job[j] EXCEPT !.stage = stage]
  <2>2. /\ Working(j) /\ job[j].stage \notin {"scanning", "sourced"}
        /\ UNCHANGED <<path, scan, overtaken>>
    BY <1>6 DEF Priced, RetireBase, WriteBase, KeepPrev, At, Working
  <2>3. job'[j] = r
    BY <1>f, <2>1, <2>2
  <2>4. job'[j].stage = stage /\ job'[j].new = job[j].new /\ job'[j].current = job[j].current
    BY <1>f, <2>2, <2>3
  <2>5. stage = "kept" /\ job[j].current # NoFile => prev' = job[j].current
    BY <2>1 DEF KeepPrev
  <2>6. Keeps(j)' /\ (j \notin overtaken' => JobSees(j)')
    BY <1>s, <2>2, <2>4, <2>5 DEF Keeps, JobSees
  <2>7. job' = [job EXCEPT ![j] = r]
    BY <2>1
  <2> HIDE DEF r
  <2> QED
    BY <2>2, <2>6, <2>7, SeenJob
<1>7. CASE Reject(j) \/ Crash(j)
  <2>1. job' = [job EXCEPT ![j] = Idle] /\ Working(j) /\ UNCHANGED <<path, scan, overtaken>>
    BY <1>7 DEF Reject, Crash, At, Working
  <2>2. ~Working(j)'
    BY <1>f, <2>1 DEF Working, Idle
  <2> QED
    BY <2>1, <2>2, SeenJob
<1>8. CASE Publish(j)
  <2>1. /\ job' = [job EXCEPT ![j] = Idle] /\ Working(j) /\ UNCHANGED scan
        /\ overtaken' = overtaken \cup BusyScanners
    BY <1>8 DEF Publish, At, Working
  <2>2. job'[j] = Idle /\ \A i \in Jobs : i # j => job'[i].stage = "idle"
    BY <2>1, OnlyJob
  <2>3. BusyJobs' = {} /\ BusyScanners' \subseteq overtaken'
    BY <2>1, <2>2 DEF BusyJobs, BusyScanners, Idle
  <2>4. Stamped(Artifacts, now)'
    BY <1>0, StampsJob
  <2> QED
    BY <2>3, <2>4 DEF SeenInv
<1> QED
  BY <1>1, <1>2, <1>3, <1>4, <1>5, <1>6, <1>7, <1>8 DEF JobStep

LEMMA SeenStep ==
  ASSUME ArtifactInv, SeenInv, [Next]_vars
  PROVE  SeenInv'
<1>1. CASE \E s \in Scanners : ScanStep(s)
  BY <1>1, SeenScans
<1>2. CASE \E j \in Jobs : JobStep(j)
  BY <1>2, SeenJobs
<1>0. Stamped(Artifacts, now)'
  BY StampsStep DEF ArtifactInv, SeenInv
<1>3. CASE Rollback
  <2>1. BusyJobs' = {} /\ BusyScanners' \subseteq overtaken'
    BY <1>3 DEF Rollback, BusyJobs, BusyScanners
  <2> QED
    BY <1>0, <2>1 DEF SeenInv
<1>4. CASE Tick \/ UNCHANGED vars
  <2>1. UNCHANGED <<path, prev, job, scan, overtaken, BusyJobs, BusyScanners>>
    BY <1>4 DEF Tick, vars, BusyJobs, BusyScanners
  <2> QED
    BY <1>0, <2>1 DEF SeenInv, Keeps, JobSees, ScanSees
<1> QED
  BY <1>1, <1>2, <1>3, <1>4 DEF Next

\* A writer whose read of the artifact holds good knows what it replaces.
THEOREM WritersSee == Spec => [](ArtifactInv /\ SeenInv)
<1>1. Init => ArtifactInv /\ SeenInv
  BY InvInit, SeenInit
<1>2. ArtifactInv /\ SeenInv /\ [Next]_vars => (ArtifactInv /\ SeenInv)'
  BY InvStep, SeenStep
<1> QED
  BY <1>1, <1>2, PTL DEF Spec

\* A benchmark job sets the market back, and a scan replaces a newer artifact
\* or a bounded one a complete, only when somebody has written since it read.
THEOREM NothingSeenIsLost == Spec => SeenIsKept
<1> DEFINE Kept ==
      path # NoFile =>
        /\ \A j \in Jobs \ overtaken : Publish(j) => ~Loses(path, path')
        /\ \A s \in Scanners \ overtaken :
             WriteScan(s) => /\ path'.at > path.at
                             /\ scan[s].full \/ ~Loses(path, path')
<1>1. ASSUME SeenInv, path # NoFile, NEW j \in Jobs \ overtaken, Publish(j)
      PROVE  ~Loses(path, path')
  <2>1. j \in BusyJobs /\ job[j].stage = "kept" /\ path' = job[j].new
    BY <1>1 DEF Publish, At, BusyJobs
  <2> QED
    BY <1>1, <2>1 DEF SeenInv, JobSees
<1>2. ASSUME TypeOK, SeenInv, path # NoFile, NEW s \in Scanners \ overtaken, WriteScan(s)
      PROVE  path'.at > path.at /\ (scan[s].full \/ ~Loses(path, path'))
  <2>1. s \in BusyScanners /\ path' = scan[s].new
    BY <1>2 DEF WriteScan, BusyScanners
  <2>2. path.at < path'.at /\ (scan[s].full \/ ~Loses(path, path'))
    BY <1>2, <2>1 DEF SeenInv, ScanSees
  <2> QED
    BY <2>2
<1>3. ArtifactInv /\ SeenInv => Kept
  BY <1>1, <1>2 DEF ArtifactInv
<1>4. Spec => [][Kept]_vars
  BY <1>3, WritersSee, PTL
<1> QED
  BY <1>4 DEF SeenIsKept

\* What a rollback would bring back is the artifact the publication replaces.
THEOREM OneRollbackUndoes == Spec => RollbackRestores
<1> DEFINE Restores == \A j \in Jobs \ overtaken : path # NoFile /\ Publish(j) => prev = path
<1>1. SeenInv => Restores
  <2> SUFFICES ASSUME SeenInv, NEW j \in Jobs \ overtaken, path # NoFile, Publish(j)
               PROVE  prev = path
    OBVIOUS
  <2>1. j \in BusyJobs /\ job[j].stage = "kept"
    BY DEF Publish, At, BusyJobs
  <2>2. job[j].current = path
    BY <2>1 DEF SeenInv, JobSees
  <2> QED
    BY <2>1, <2>2 DEF SeenInv, Keeps
<1>2. Spec => [][Restores]_vars
  BY <1>1, WritersSee, PTL
<1> QED
  BY <1>2 DEF RollbackRestores
==============================================================================
