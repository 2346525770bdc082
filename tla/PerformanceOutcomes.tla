------------------------- MODULE PerformanceOutcomes -------------------------
(***************************************************************************)
(* Recommendations and their outcomes: src/analysis/performance_store.py,  *)
(* the evaluator that runs after the market's close,                       *)
(* src/analysis/performance_evaluator.py, and the repair tool,             *)
(* src/analysis/kiasha_repair_outcomes.py --apply.                         *)
(*                                                                         *)
(* An evaluator works from a batch read once and fetches each history      *)
(* before it reads the row and writes it; the SELECT of                    *)
(* evaluate_observation is outside the transaction its UPDATE begins.  The *)
(* repair is one transaction, and from its first UPDATE on nobody else can *)
(* write.  A dry run writes nothing and is left out.                       *)
(*                                                                         *)
(* An outcome stands for future_price, realized_return, evaluated_at and   *)
(* trading_days_elapsed, always written together.  Observations are        *)
(* numbered by generated_at.                                               *)
(***************************************************************************)
EXTENDS Integers, FiniteSets

CONSTANTS Count,       \* observations
          Agents,
          Votes,       \* directions an agent can take: up, down or none
          Evaluators,  \* passes that may overlap: the timer's, one run by hand
          Limit,       \* pending_observations' limit
          Returns,     \* realized returns a coherent price path can have
          Suspicious,  \* those at or above the repair's threshold
          None,
          Short, Broken,   \* a history that ends before the horizon, or is incoherent
          MaxBroken,   \* bound: histories without a coherent path at one time
          MaxChanges,  \* bound: corrections of histories
          MaxFaults,   \* bound: failed fetches and killed passes
          MaxRepairs   \* bound: runs of the repair tool

Obs == 1..Count

ASSUME OutcomeAssumption ==
  /\ Count \in Nat /\ Limit \in Nat \ {0} /\ MaxBroken \in Nat /\ MaxBroken < Limit
  /\ Votes \subseteq {-1, 0, 1}
  /\ Returns \subseteq Int /\ Suspicious \subseteq Returns /\ {None, Short, Broken} \cap Int = {}

VARIABLES
  path,      \* TSETMC: what each observation's history says by now
  vote,      \* agent_observations.vote; None when the row is missing
  outcome,   \* recommendation_observations; None while evaluated_at is NULL
  grade,     \* agent_observations.signed_realized_return
  pass,      \* the evaluators
  repair,    \* the repair tool
  budget     \* what is left of the bounds

vars == <<path, vote, outcome, grade, pass, repair, budget>>

Idle == [step |-> "idle"]

\* The row is there: every breakdown has an agent.
Recorded(o) == \E a \in Agents : vote[o][a] # None

Init ==
  /\ path = [o \in Obs |-> Short]
  /\ vote = [o \in Obs |-> [a \in Agents |-> None]]
  /\ outcome = [o \in Obs |-> None]
  /\ grade = [o \in Obs |-> [a \in Agents |-> None]]
  /\ pass = [e \in Evaluators |-> Idle]
  /\ repair = Idle
  /\ budget = [changes |-> MaxChanges, faults |-> MaxFaults, repairs |-> MaxRepairs]

Spend(bound) == budget[bound] > 0 /\ budget' = [budget EXCEPT ![bound] = @ - 1]

\* The repair has written and not committed.
Locked == repair.step = "checking" /\ repair.fixed # {}

------------------------------------------------------------------------------
(***************************************************************************)
(* The market and the recommendations.                                     *)
(***************************************************************************)

\* A coherent path with some return, or a discontinuity; a symbol whose
\* sessions never come counts with the latter.
Becomes(o, p) ==
  /\ p = Broken => Cardinality({x \in Obs : path[x] = Broken}) < MaxBroken
  /\ path' = [path EXCEPT ![o] = p]
  /\ UNCHANGED <<vote, outcome, grade, pass, repair>>

\* The horizon's last session.
Mature(o) ==
  /\ Recorded(o)
  /\ path[o] = Short
  /\ \E p \in Returns \cup {Broken} : Becomes(o, p)
  /\ UNCHANGED budget

\* The source corrects its history.
Correct(o) ==
  /\ path[o] # Short
  /\ Spend("changes")
  /\ \E p \in (Returns \cup {Broken}) \ {path[o]} : Becomes(o, p)

\* record_recommendation, on the day itself: a row that is there is kept, and
\* so is every vote; an agent heard for the first time is added.
Record(o) ==
  /\ path[o] = Short
  /\ o > 1 => Recorded(o - 1)
  /\ ~Locked
  /\ \E heard \in SUBSET Agents \ {{}}, cast \in [Agents -> Votes] :
       vote' = [vote EXCEPT ![o] =
         [a \in Agents |-> IF @[a] = None /\ a \in heard THEN cast[a] ELSE @[a]]]
  /\ UNCHANGED <<path, outcome, grade, pass, repair, budget>>

------------------------------------------------------------------------------
(***************************************************************************)
(* The evaluator.                                                          *)
(***************************************************************************)

Goes(e, to) == pass' = [pass EXCEPT ![e] = to]

Pending == {o \in Obs : Recorded(o) /\ outcome[o] = None}

\* pending_observations: the oldest ones.
Batch == {o \in Pending : Cardinality({x \in Pending : x < o}) < Limit}

\* Mutant: an observation that cannot be evaluated ends the pass.
NothingLeft(todo, o) == {}

\* The batch without the observation just dealt with.
Left(todo, o) == todo \ {o}

NextUp(e, o) == Goes(e, [step |-> "batch", todo |-> Left(pass[e].todo, o)])

StartPass(e) ==
  /\ pass[e] = Idle
  /\ Goes(e, [step |-> "batch", todo |-> Batch])
  /\ UNCHANGED <<path, vote, outcome, grade, repair, budget>>

EndPass(e) ==
  /\ pass[e].step = "batch"
  /\ pass[e].todo = {}
  /\ Goes(e, Idle)
  /\ UNCHANGED <<path, vote, outcome, grade, repair, budget>>

\* The first observation of what is left of the batch.
First(e, o) ==
  /\ pass[e].step = "batch"
  /\ o \in pass[e].todo
  /\ \A x \in pass[e].todo : o <= x

\* The history is fetched and a close at the horizon selected, or not.
Fetch(e, o) ==
  /\ First(e, o)
  /\ IF path[o] \in Returns
     THEN Goes(e, [step |-> "selected", todo |-> pass[e].todo, on |-> o, return |-> path[o]])
     ELSE NextUp(e, o)
  /\ UNCHANGED <<path, vote, outcome, grade, repair, budget>>

FetchFails(e, o) ==
  /\ First(e, o)
  /\ Spend("faults")
  /\ NextUp(e, o)
  /\ UNCHANGED <<path, vote, outcome, grade, repair>>

\* evaluate_observation: an outcome that is there is left alone.
Check(e) ==
  /\ pass[e].step = "selected"
  /\ IF outcome[pass[e].on] = None
     THEN Goes(e, [pass[e] EXCEPT !.step = "checked"])
     ELSE NextUp(e, pass[e].on)
  /\ UNCHANGED <<path, vote, outcome, grade, repair, budget>>

\* Mutant: without an outcome the agents keep their grades.
Kept(o, r) ==
  [a \in Agents |-> IF r = None THEN grade[o][a]
                    ELSE IF vote[o][a] \in {None, 0} THEN None ELSE vote[o][a] * r]

\* An agent is graded by its direction; one that did not take any is not.
Graded(o, r) ==
  [a \in Agents |-> IF r = None \/ vote[o][a] \in {None, 0} THEN None ELSE vote[o][a] * r]

\* The outcome and the agents' grades, in one transaction.
Write(e) ==
  /\ pass[e].step = "checked"
  /\ ~Locked
  /\ outcome' = [outcome EXCEPT ![pass[e].on] = pass[e].return]
  /\ grade' = [grade EXCEPT ![pass[e].on] = Graded(pass[e].on, pass[e].return)]
  /\ NextUp(e, pass[e].on)
  /\ UNCHANGED <<path, vote, repair, budget>>

\* The database stays locked longer than a writer waits.
WriteFails(e) ==
  /\ pass[e].step = "checked"
  /\ Locked
  /\ NextUp(e, pass[e].on)
  /\ UNCHANGED <<path, vote, outcome, grade, repair, budget>>

\* The pass is killed between two transactions.
KillPass(e) ==
  /\ pass[e] # Idle
  /\ Spend("faults")
  /\ Goes(e, Idle)
  /\ UNCHANGED <<path, vote, outcome, grade, repair>>

------------------------------------------------------------------------------
(***************************************************************************)
(* The repair tool.                                                        *)
(***************************************************************************)

\* The suspicious rows as they are now.
StartRepair ==
  /\ repair = Idle
  /\ Spend("repairs")
  /\ repair' = [step |-> "checking",
                todo |-> {o \in Obs : outcome[o] \in Suspicious},
                old |-> outcome, new |-> outcome, fixed |-> {}]
  /\ UNCHANGED <<path, vote, outcome, grade, pass>>

\* A row is verified, recomputed, or invalidated when no path supports it.
Repair(o) ==
  LET verified == IF path[o] \in Returns THEN path[o] ELSE None IN
  /\ repair.step = "checking"
  /\ o \in repair.todo
  /\ repair' =
       IF verified = repair.old[o] THEN [repair EXCEPT !.todo = @ \ {o}]
       ELSE [repair EXCEPT !.todo = @ \ {o}, !.new[o] = verified, !.fixed = @ \cup {o}]
  /\ UNCHANGED <<path, vote, outcome, grade, pass, budget>>

RepairFails(o) ==
  /\ repair.step = "checking"
  /\ o \in repair.todo
  /\ Spend("faults")
  /\ repair' = [repair EXCEPT !.todo = @ \ {o}]
  /\ UNCHANGED <<path, vote, outcome, grade, pass>>

CommitRepair ==
  /\ repair.step = "checking"
  /\ repair.todo = {}
  /\ outcome' = [o \in Obs |-> IF o \in repair.fixed THEN repair.new[o] ELSE outcome[o]]
  /\ grade' = [o \in Obs |-> IF o \in repair.fixed THEN Graded(o, repair.new[o]) ELSE grade[o]]
  /\ repair' = Idle
  /\ UNCHANGED <<path, vote, pass, budget>>

\* Killed before the commit, it leaves everything as it was.
KillRepair ==
  /\ repair # Idle
  /\ Spend("faults")
  /\ repair' = Idle
  /\ UNCHANGED <<path, vote, outcome, grade, pass>>

------------------------------------------------------------------------------

Step(e) ==
  \/ StartPass(e) \/ EndPass(e)
  \/ \E o \in Obs : Fetch(e, o)
  \/ Check(e) \/ Write(e) \/ WriteFails(e)

RepairStep == (\E o \in Obs : Repair(o)) \/ CommitRepair

Next ==
  \/ \E o \in Obs : Mature(o) \/ Correct(o) \/ Record(o)
  \/ \E e \in Evaluators :
       Step(e) \/ KillPass(e) \/ \E o \in Obs : FetchFails(e, o)
  \/ StartRepair \/ RepairStep \/ KillRepair
  \/ \E o \in Obs : RepairFails(o)

\* Sessions pass; the timer starts a pass every trading day, and what has started
\* goes on.
Fairness ==
  /\ \A o \in Obs : WF_vars(Mature(o))
  /\ \A e \in Evaluators : WF_vars(Step(e))
  /\ WF_vars(RepairStep)

Spec == Init /\ [][Next]_vars /\ Fairness
------------------------------------------------------------------------------
(***************************************************************************)
(* Properties.                                                             *)
(***************************************************************************)

Passes ==
  {Idle} \cup [step : {"batch"}, todo : SUBSET Obs]
         \cup [step : {"selected", "checked"}, todo : SUBSET Obs, on : Obs, return : Returns]

Outcomes == [Obs -> Returns \cup {None}]

Repairs ==
  {Idle} \cup [step : {"checking"}, todo : SUBSET Obs, old : Outcomes, new : Outcomes,
               fixed : SUBSET Obs]

\* Rows, passes and the repair have values of their kind.
TypeOK ==
  /\ path \in [Obs -> Returns \cup {Short, Broken}]
  /\ vote \in [Obs -> [Agents -> Votes \cup {None}]]
  /\ outcome \in Outcomes
  /\ grade \in [Obs -> [Agents -> Int \cup {None}]]
  /\ pass \in [Evaluators -> Passes]
  /\ repair \in Repairs

\* What the agents are judged by is the outcome on record: however passes and
\* repairs overlap, every grade follows from the vote and the present outcome,
\* and an observation without one grades nobody.
GradesMatchOutcome ==
  \A o \in Obs, a \in Agents :
    grade[o][a] = IF outcome[o] # None /\ vote[o][a] \in {-1, 1}
                  THEN vote[o][a] * outcome[o] ELSE None

\* As long as fewer observations than a batch holds can never be evaluated, every
\* other one is: those that cannot do not keep the younger ones out.
MatureIsEvaluated ==
  \A o \in Obs : path[o] \in Returns ~> outcome[o] # None \/ path[o] = Broken
==============================================================================
