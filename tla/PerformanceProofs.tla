-------------------------- MODULE PerformanceProofs --------------------------
(***************************************************************************)
(* Proofs about PerformanceOutcomes for any number of observations, agents *)
(* and overlapping passes.                                                 *)
(*                                                                         *)
(* Grades follow the outcome because votes stand still once there can be   *)
(* one: whatever has, or is about to get, an outcome has a history that    *)
(* reaches its horizon, and a history that does never gets short again.    *)
(***************************************************************************)
EXTENDS PerformanceOutcomes, TLAPS

\* The votes of o are in.
Settled(o) == path[o] # Short

SettledFirst ==
  /\ \A o \in Obs : outcome[o] # None => Settled(o)
  /\ \A e \in Evaluators : pass[e].step \in {"selected", "checked"} => Settled(pass[e].on)
  /\ repair # Idle => \A o \in repair.todo \cup repair.fixed : Settled(o)

OutcomeInv ==
  /\ TypeOK
  /\ SettledFirst
  /\ GradesMatchOutcome

\* The constants, as numbers.
LEMMA Constants ==
  /\ Returns \subseteq Int /\ None \notin Int /\ Short \notin Int /\ Broken \notin Int
  /\ Suspicious \subseteq Returns /\ Votes \subseteq {-1, 0, 1}
  BY OutcomeAssumption DEF OutcomeAssumption

\* The fields of a pass and of the repair.
LEMMA PassFields ==
  ASSUME TypeOK, NEW e \in Evaluators
  PROVE  /\ pass[e].step \in {"selected", "checked"} =>
              /\ pass[e] \in [step : {"selected", "checked"}, todo : SUBSET Obs, on : Obs, return : Returns]
              /\ pass[e].on \in Obs /\ pass[e].return \in Returns /\ pass[e].todo \in SUBSET Obs
         /\ pass[e].step = "batch" => pass[e].todo \in SUBSET Obs
  BY DEF TypeOK, Passes, Idle

LEMMA RepairFields ==
  ASSUME TypeOK, repair # Idle
  PROVE  /\ repair \in [step : {"checking"}, todo : SUBSET Obs, old : Outcomes, new : Outcomes,
                        fixed : SUBSET Obs]
         /\ repair.todo \in SUBSET Obs /\ repair.fixed \in SUBSET Obs
         /\ repair.old \in Outcomes /\ repair.new \in Outcomes
  BY DEF TypeOK, Repairs

\* What an observation's agents are graded when it has outcome r.
LEMMA GradedIsRight ==
  ASSUME TypeOK, NEW o \in Obs, NEW r \in Returns \cup {None}
  PROVE  /\ Graded(o, r) \in [Agents -> Int \cup {None}]
         /\ \A a \in Agents : Graded(o, r)[a] =
              IF r # None /\ vote[o][a] \in {-1, 1} THEN vote[o][a] * r ELSE None
<1> SUFFICES ASSUME NEW a \in Agents
             PROVE  /\ Graded(o, r)[a] \in Int \cup {None}
                    /\ Graded(o, r)[a] =
                         IF r # None /\ vote[o][a] \in {-1, 1} THEN vote[o][a] * r ELSE None
  BY DEF Graded
<1>1. vote[o][a] \in {-1, 0, 1, None}
  <2>1. vote[o] \in [Agents -> Votes \cup {None}]
    BY DEF TypeOK
  <2> QED
    BY <2>1, Constants
<1>2. r # None => r \in Int
  BY Constants
<1>3. Graded(o, r)[a] = IF r = None \/ vote[o][a] \in {None, 0} THEN None ELSE vote[o][a] * r
  BY DEF Graded
<1>4. CASE vote[o][a] \in {-1, 1}
  <2>1. vote[o][a] \notin {None, 0}
    BY <1>4, Constants
  <2>2. r # None => vote[o][a] * r \in Int
    BY <1>2, <1>4
  <2> QED
    BY <1>3, <1>4, <2>1, <2>2
<1>5. CASE vote[o][a] \in {0, None}
  BY <1>3, <1>5, Constants
<1> QED
  BY <1>1, <1>4, <1>5

------------------------------------------------------------------------------

\* What the market and the recommendations do keeps the invariant.
LEMMA MarketKeeps ==
  ASSUME OutcomeInv, NEW o \in Obs, Mature(o) \/ Correct(o)
  PROVE  OutcomeInv'
<1>1. PICK p \in Returns \cup {Broken} : Becomes(o, p)
  BY DEF Mature, Correct
<1>2. /\ path' = [path EXCEPT ![o] = p] /\ vote' = vote /\ outcome' = outcome
      /\ grade' = grade /\ pass' = pass /\ repair' = repair
  BY <1>1 DEF Becomes
<1>3. TypeOK'
  BY <1>2 DEF OutcomeInv, TypeOK
<1>4. p # Short /\ \A x \in Obs : Settled(x) => Settled(x)'
  <2>1. p # Short
    BY Constants, <1>2 DEF Mature, Correct
  <2> QED
    BY <1>2, <2>1 DEF OutcomeInv, TypeOK, Settled
<1>5. SettledFirst'
  BY <1>2, <1>4, PassFields, RepairFields DEF OutcomeInv, SettledFirst
<1>6. GradesMatchOutcome'
  BY <1>2 DEF OutcomeInv, GradesMatchOutcome
<1> QED
  BY <1>3, <1>5, <1>6 DEF OutcomeInv

LEMMA RecordKeeps ==
  ASSUME OutcomeInv, NEW o \in Obs, Record(o)
  PROVE  OutcomeInv'
<1>1. PICK heard \in SUBSET Agents \ {{}}, cast \in [Agents -> Votes] :
        vote' = [vote EXCEPT ![o] =
          [a \in Agents |-> IF @[a] = None /\ a \in heard THEN cast[a] ELSE @[a]]]
  BY DEF Record
<1>2. /\ path' = path /\ outcome' = outcome /\ grade' = grade /\ pass' = pass /\ repair' = repair
      /\ path[o] = Short
  BY DEF Record
<1>3. vote' \in [Obs -> [Agents -> Votes \cup {None}]]
  BY <1>1 DEF OutcomeInv, TypeOK
<1>4. TypeOK'
  BY <1>2, <1>3 DEF OutcomeInv, TypeOK
<1>5. SettledFirst'
  BY <1>2 DEF OutcomeInv, SettledFirst, Settled
<1>6. outcome[o] = None
  BY <1>2 DEF OutcomeInv, SettledFirst, Settled
<1>7. \A x \in Obs : x # o => vote'[x] = vote[x]
  BY <1>1 DEF OutcomeInv, TypeOK
<1>8. GradesMatchOutcome'
  BY <1>2, <1>6, <1>7 DEF OutcomeInv, GradesMatchOutcome
<1> QED
  BY <1>4, <1>5, <1>8 DEF OutcomeInv

\* An evaluator that only reads, or fails, keeps it.
LEMMA ReaderKeeps ==
  ASSUME OutcomeInv, NEW e \in Evaluators,
         UNCHANGED <<path, vote, outcome, grade, repair>>,
         NEW to \in Passes, pass' = [pass EXCEPT ![e] = to],
         to.step \in {"selected", "checked"} => Settled(to.on)
  PROVE  OutcomeInv'
<1>1. TypeOK'
  BY DEF OutcomeInv, TypeOK
<1>2. SettledFirst'
  BY DEF OutcomeInv, TypeOK, SettledFirst, Settled
<1>3. GradesMatchOutcome'
  BY DEF OutcomeInv, GradesMatchOutcome
<1> QED
  BY <1>1, <1>2, <1>3 DEF OutcomeInv

\* A row that gets an outcome gets its grades with it.
LEMMA WriteKeeps ==
  ASSUME OutcomeInv, NEW e \in Evaluators, Write(e)
  PROVE  OutcomeInv'
<1>1. TypeOK
  BY DEF OutcomeInv
<1>2. PICK o \in Obs, r \in Returns : o = pass[e].on /\ r = pass[e].return
  BY <1>1, PassFields DEF Write
<1>3. /\ outcome' = [outcome EXCEPT ![o] = r] /\ grade' = [grade EXCEPT ![o] = Graded(o, r)]
      /\ pass' = [pass EXCEPT ![e] = [step |-> "batch", todo |-> Left(pass[e].todo, o)]]
      /\ path' = path /\ vote' = vote /\ repair' = repair
  BY <1>2 DEF Write, NextUp, Goes
<1>4. [step |-> "batch", todo |-> Left(pass[e].todo, o)] \in Passes
  BY <1>1, PassFields DEF Write, Passes, Left
<1>5. Settled(o)
  BY <1>2 DEF OutcomeInv, SettledFirst, Write
<1>6. TypeOK'
  BY <1>1, <1>3, <1>4, GradedIsRight DEF TypeOK, Outcomes
<1>7. SettledFirst'
  BY <1>1, <1>3, <1>5 DEF OutcomeInv, TypeOK, Outcomes, SettledFirst, Settled
<1>8. GradesMatchOutcome'
  BY <1>1, <1>3, GradedIsRight, Constants DEF OutcomeInv, TypeOK, Outcomes, GradesMatchOutcome
<1> QED
  BY <1>6, <1>7, <1>8 DEF OutcomeInv

LEMMA EvaluatorKeeps ==
  ASSUME OutcomeInv, NEW e \in Evaluators,
         Step(e) \/ KillPass(e) \/ \E o \in Obs : FetchFails(e, o)
  PROVE  OutcomeInv'
<1>1. TypeOK
  BY DEF OutcomeInv
<1>2. Idle \in Passes /\ Idle.step = "idle"
  BY DEF Passes, Idle
<1>3. CASE StartPass(e)
  <2>1. [step |-> "batch", todo |-> Batch] \in Passes
    BY DEF Passes, Batch, Pending
  <2> QED
    BY <1>3, <2>1, ReaderKeeps DEF StartPass, Goes
<1>4. CASE EndPass(e) \/ KillPass(e)
  BY <1>2, <1>4, ReaderKeeps DEF EndPass, KillPass, Goes
<1>5. ASSUME NEW o \in Obs, pass[e].todo \in SUBSET Obs, NextUp(e, o),
             UNCHANGED <<path, vote, outcome, grade, repair>>
      PROVE  OutcomeInv'
  <2>1. [step |-> "batch", todo |-> Left(pass[e].todo, o)] \in Passes
    BY <1>5 DEF Passes, Left
  <2> QED
    BY <1>5, <2>1, ReaderKeeps DEF NextUp, Goes
<1>6. ASSUME NEW o \in Obs, FetchFails(e, o) PROVE OutcomeInv'
  BY <1>1, <1>5, <1>6, PassFields DEF FetchFails, First
<1>7. ASSUME NEW o \in Obs, Fetch(e, o) PROVE OutcomeInv'
  <2>1. pass[e].todo \in SUBSET Obs
    BY <1>1, <1>7, PassFields DEF Fetch, First
  <2>2. CASE path[o] \in Returns
    <3>1. PICK to \in Passes :
            to = [step |-> "selected", todo |-> pass[e].todo, on |-> o, return |-> path[o]]
      BY <2>1, <2>2 DEF Passes
    <3>2. to.on = o /\ path[o] # Short
      BY <2>2, <3>1, Constants
    <3> QED
      BY <1>7, <2>2, <3>1, <3>2, ReaderKeeps DEF Fetch, Goes, Settled
  <2>3. CASE path[o] \notin Returns
    BY <1>5, <1>7, <2>1, <2>3 DEF Fetch
  <2> QED
    BY <2>2, <2>3
<1>8. CASE Check(e)
  <2>1. pass[e].on \in Obs /\ pass[e].todo \in SUBSET Obs /\ Settled(pass[e].on)
    BY <1>1, <1>8, PassFields DEF Check, OutcomeInv, SettledFirst
  <2>2. CASE outcome[pass[e].on] = None
    <3>1. PICK to \in Passes : to = [pass[e] EXCEPT !.step = "checked"] /\ to.on = pass[e].on
      BY <1>1, <1>8, PassFields DEF Check, Passes
    <3> QED
      BY <1>8, <2>1, <2>2, <3>1, ReaderKeeps DEF Check, Goes
  <2>3. CASE outcome[pass[e].on] # None
    BY <1>5, <1>8, <2>1, <2>3 DEF Check
  <2> QED
    BY <2>2, <2>3
<1>9. CASE Write(e)
  BY <1>9, WriteKeeps
<1>10. CASE WriteFails(e)
  BY <1>1, <1>5, <1>10, PassFields DEF WriteFails
<1> QED
  BY <1>3, <1>4, <1>6, <1>7, <1>8, <1>9, <1>10 DEF Step

------------------------------------------------------------------------------

\* The repair keeps it: what it checks has an outcome, so its votes are in.
LEMMA RepairKeeps ==
  ASSUME OutcomeInv,
         \/ StartRepair \/ CommitRepair \/ KillRepair
         \/ \E o \in Obs : Repair(o) \/ RepairFails(o)
  PROVE  OutcomeInv'
<1>1. TypeOK
  BY DEF OutcomeInv
<1>2. ASSUME UNCHANGED <<path, vote, outcome, grade, pass>>, repair' \in Repairs,
             repair' # Idle => \A x \in repair'.todo \cup repair'.fixed : Settled(x)
      PROVE  OutcomeInv'
  <2>1. TypeOK'
    BY <1>1, <1>2 DEF TypeOK
  <2>2. SettledFirst'
    BY <1>2 DEF OutcomeInv, SettledFirst, Settled
  <2>3. GradesMatchOutcome'
    BY <1>2 DEF OutcomeInv, GradesMatchOutcome
  <2> QED
    BY <2>1, <2>2, <2>3 DEF OutcomeInv
<1>3. CASE StartRepair
  <2>1. repair' \in Repairs
    BY <1>1, <1>3 DEF StartRepair, Repairs, TypeOK
  <2>2. \A x \in repair'.todo \cup repair'.fixed : x \in Obs /\ outcome[x] \in Suspicious
    BY <1>3 DEF StartRepair
  <2>3. \A x \in repair'.todo \cup repair'.fixed : Settled(x)
    BY <2>2, Constants DEF OutcomeInv, SettledFirst
  <2> QED
    BY <1>2, <1>3, <2>1, <2>3 DEF StartRepair
<1>4. CASE KillRepair
  BY <1>2, <1>4 DEF KillRepair, Repairs
<1>5. ASSUME NEW o \in Obs, Repair(o) \/ RepairFails(o) PROVE OutcomeInv'
  <2>1. repair # Idle /\ o \in repair.todo
    <3>1. repair.step = "checking" /\ o \in repair.todo
      BY <1>5 DEF Repair, RepairFails
    <3> QED
      BY <3>1 DEF Idle
  <2>2. PICK r \in Repairs : r = repair /\ r.new \in Outcomes /\ r.todo \in SUBSET Obs /\ r.fixed \in SUBSET Obs
    BY <1>1, <2>1, RepairFields DEF TypeOK
  <2>3. /\ repair' \in Repairs
        /\ repair'.todo \subseteq repair.todo
        /\ repair'.fixed \subseteq repair.fixed \cup {o}
    <3>1. CASE repair' = [repair EXCEPT !.todo = @ \ {o}]
      BY <1>1, <2>1, <3>1, RepairFields DEF Repairs
    <3>2. ASSUME NEW verified \in Returns \cup {None},
                 repair' = [repair EXCEPT !.todo = @ \ {o}, !.new[o] = verified, !.fixed = @ \cup {o}]
          PROVE  /\ repair' \in Repairs
                 /\ repair'.todo \subseteq repair.todo
                 /\ repair'.fixed \subseteq repair.fixed \cup {o}
      <4>1. [repair.new EXCEPT ![o] = verified] \in Outcomes
        BY <2>2 DEF Outcomes
      <4>2. repair' = [repair EXCEPT !.todo = repair.todo \ {o},
                                     !.new = [repair.new EXCEPT ![o] = verified],
                                     !.fixed = repair.fixed \cup {o}]
        BY <1>1, <2>1, <3>2, RepairFields
      <4> QED
        BY <1>1, <2>1, <4>1, <4>2, RepairFields DEF Repairs
    <3>3. \E verified \in Returns \cup {None} :
            \/ repair' = [repair EXCEPT !.todo = @ \ {o}]
            \/ repair' = [repair EXCEPT !.todo = @ \ {o}, !.new[o] = verified, !.fixed = @ \cup {o}]
      BY <1>5 DEF Repair, RepairFails
    <3> QED
      BY <3>1, <3>2, <3>3
  <2>4. \A x \in repair.todo \cup repair.fixed : Settled(x)
    BY <2>1 DEF OutcomeInv, SettledFirst
  <2>5. UNCHANGED <<path, vote, outcome, grade, pass>>
    BY <1>5 DEF Repair, RepairFails
  <2> QED
    BY <1>2, <2>1, <2>3, <2>4, <2>5
<1>6. CASE CommitRepair
  <2>1. repair # Idle
    BY <1>6 DEF CommitRepair, Idle
  <2>2. repair.fixed \subseteq Obs /\ repair.new \in Outcomes
    BY <1>1, <2>1, RepairFields
  <2>3. /\ \A o \in Obs : outcome'[o] = IF o \in repair.fixed THEN repair.new[o] ELSE outcome[o]
        /\ \A o \in Obs : grade'[o] =
             IF o \in repair.fixed THEN Graded(o, repair.new[o]) ELSE grade[o]
        /\ path' = path /\ vote' = vote /\ pass' = pass /\ repair' = Idle
    BY <1>6 DEF CommitRepair
  <2>4. \A o \in Obs : repair.new[o] \in Returns \cup {None}
    BY <2>2 DEF Outcomes
  <2>5. outcome' \in Outcomes
    BY <1>1, <1>6, <2>4 DEF CommitRepair, TypeOK, Outcomes
  <2>6. grade' \in [Obs -> [Agents -> Int \cup {None}]]
    BY <1>1, <1>6, <2>4, GradedIsRight DEF CommitRepair, TypeOK
  <2>7. TypeOK'
    BY <1>1, <2>3, <2>5, <2>6 DEF TypeOK, Repairs
  <2>8. SettledFirst'
    BY <2>1, <2>3 DEF OutcomeInv, SettledFirst, Settled
  <2>9. GradesMatchOutcome'
    <3> SUFFICES ASSUME NEW o \in Obs, NEW a \in Agents
                 PROVE  grade'[o][a] = IF outcome'[o] # None /\ vote[o][a] \in {-1, 1}
                                       THEN vote[o][a] * outcome'[o] ELSE None
      BY <2>3 DEF GradesMatchOutcome
    <3>1. CASE o \in repair.fixed
      BY <1>1, <2>3, <2>4, <3>1, GradedIsRight
    <3>2. CASE o \notin repair.fixed
      BY <2>3, <3>2 DEF OutcomeInv, GradesMatchOutcome
    <3> QED
      BY <3>1, <3>2
  <2> QED
    BY <2>7, <2>8, <2>9 DEF OutcomeInv
<1> QED
  BY <1>3, <1>4, <1>5, <1>6

LEMMA InitKeeps == Init => OutcomeInv
<1> SUFFICES ASSUME Init PROVE OutcomeInv
  OBVIOUS
<1>1. TypeOK
  BY DEF Init, TypeOK, Outcomes, Passes, Repairs
<1>2. SettledFirst /\ GradesMatchOutcome
  BY DEF Init, SettledFirst, GradesMatchOutcome, Idle
<1> QED
  BY <1>1, <1>2 DEF OutcomeInv

LEMMA NextKeeps == OutcomeInv /\ [Next]_vars => OutcomeInv'
<1> SUFFICES ASSUME OutcomeInv, [Next]_vars PROVE OutcomeInv'
  OBVIOUS
<1>1. CASE UNCHANGED vars
  <2>1. TypeOK'
    BY <1>1 DEF vars, OutcomeInv, TypeOK
  <2>2. SettledFirst' /\ GradesMatchOutcome'
    BY <1>1 DEF vars, OutcomeInv, SettledFirst, Settled, GradesMatchOutcome
  <2> QED
    BY <2>1, <2>2 DEF OutcomeInv
<1> QED
  BY <1>1, MarketKeeps, RecordKeeps, EvaluatorKeeps, RepairKeeps DEF Next, RepairStep

\* The inductive invariant: votes are in before there is an outcome.
THEOREM OutcomeInvariant == Spec => []OutcomeInv
  BY InitKeeps, NextKeeps, PTL DEF Spec

\* Rows, passes and the repair keep their types.
THEOREM OutcomesTyped == Spec => []TypeOK
<1>1. OutcomeInv => TypeOK
  BY DEF OutcomeInv
<1> QED
  BY <1>1, OutcomeInvariant, PTL

\* However many passes and repairs overlap, grades follow the outcomes on record.
THEOREM GradesFollow == Spec => []GradesMatchOutcome
<1>1. OutcomeInv => GradesMatchOutcome
  BY DEF OutcomeInv
<1> QED
  BY <1>1, OutcomeInvariant, PTL
==============================================================================
