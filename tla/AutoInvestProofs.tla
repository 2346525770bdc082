-------------------------- MODULE AutoInvestProofs --------------------------
(***************************************************************************)
(* Proofs about AutoInvestRun for any number of processes, codes, trades   *)
(* and crashes and any budget, reserve and cash.                           *)
(*                                                                         *)
(* The limits of a run hold because what it pays never passes what it      *)
(* counts as spent, and because a code it is about to buy was not sold and *)
(* found a trade left.  That a day tried again moved nothing needs to know *)
(* that, while no process has died, a RUNNING row has a live owner, whose  *)
(* trades include whatever moved.                                          *)
(***************************************************************************)
EXTENDS AutoInvestRun, FiniteSetTheorems, TLAPS

\* What every live run keeps to.
RunFits(p) ==
  /\ p.phase = "rebalance" => p.bought = {} /\ p.code = NoCode
  /\ p.paid <= p.spent
  /\ p.paid <= Budget
  /\ FilledCount(p) <= MaxTrades
  /\ p.sold \cap p.bought = {}
  /\ p.code # NoCode => p.code \notin p.sold /\ FilledCount(p) < MaxTrades

RunsFit == \A r \in Runs : Live(r) => RunFits(run[r])

\* While no process has died, the row and its owner know of all that moved.
NothingIsLost ==
  crashes = 0 =>
    /\ row \in {"NONE", "RETRYABLE"} => ~moved
    /\ row = "RUNNING" => Owners # {}
    /\ \A r \in Owners : moved => FilledCount(run[r]) > 0

AutoInv == TypeOK /\ OneOwner /\ RunsFit /\ NothingIsLost

\* A process is live exactly when it has a run in progress.
LEMMA LiveRuns ==
  ASSUME TypeOK, NEW r \in Runs
  PROVE  Live(r) <=> run[r] \in Progress
<1>1. \A p \in Progress : p.phase \in {"rebalance", "entry"}
  BY DEF Progress
<1>2. Idle.phase = "idle"
  BY DEF Idle
<1>3. Idle \notin Progress
  BY <1>1, <1>2
<1> QED
  BY <1>3 DEF TypeOK, Live

\* Trades are counted in numbers.
LEMMA CountIsNat ==
  ASSUME NEW p \in Progress
  PROVE  /\ IsFiniteSet(p.sold) /\ IsFiniteSet(p.bought)
         /\ Cardinality(p.sold) \in Nat /\ Cardinality(p.bought) \in Nat
         /\ FilledCount(p) \in Nat
<1>1. p.sold \subseteq Codes /\ p.bought \subseteq Codes
  BY DEF Progress
<1>2. IsFiniteSet(p.sold) /\ IsFiniteSet(p.bought)
  BY <1>1, FS_Subset, AutoAssumption DEF AutoAssumption
<1>3. Cardinality(p.sold) \in Nat /\ Cardinality(p.bought) \in Nat
  BY <1>2, FS_CardinalityType
<1> QED
  BY <1>2, <1>3 DEF FilledCount

\* A minimum of two numbers is below both.
LEMMA MinOfTwo ==
  ASSUME NEW a \in Int, NEW b \in Int
  PROVE  Min({a, b}) \in Int /\ Min({a, b}) <= a /\ Min({a, b}) <= b
<1>1. \E x \in {a, b} : \A y \in {a, b} : x <= y
  <2>1. CASE a <= b
    BY <2>1
  <2>2. CASE b <= a
    BY <2>2
  <2> QED
    BY <2>1, <2>2
<1> QED
  BY <1>1 DEF Min

\* The day begins within the invariant.
LEMMA InitAuto == Init => AutoInv
<1> SUFFICES ASSUME Init PROVE AutoInv
  OBVIOUS
<1>1. Owners = {} /\ \A r \in Runs : ~Live(r)
  BY DEF Init, Owners, Live
<1>2. TypeOK
  <2>1. Cash \in Nat /\ MaxCrashes \in Nat
    BY AutoAssumption DEF AutoAssumption
  <2>2. /\ window \in {"before", "open", "over"}
        /\ row \in Statuses /\ old \in BOOLEAN /\ moved \in BOOLEAN
    BY DEF Init, Statuses
  <2>3. run \in [Runs -> Progress \cup {Idle}] /\ ledger \in [Keys -> Nat]
    BY DEF Init, NoFill
  <2>4. cash \in 0..Cash /\ crashes \in 0..MaxCrashes
    BY <2>1 DEF Init
  <2> QED
    BY <2>2, <2>3, <2>4 DEF TypeOK
<1> QED
  BY <1>1, <1>2 DEF Init, AutoInv, OneOwner, RunsFit, NothingIsLost

\* A run that begins has done nothing yet.
LEMMA FreshRun ==
  ASSUME NEW auto \in BOOLEAN
  PROVE  LET p == [phase |-> "rebalance", auto |-> auto, todo |-> {}, sold |-> {},
                   bought |-> {}, spent |-> 0, paid |-> 0, code |-> NoCode, cash |-> 0]
         IN p \in Progress /\ RunFits(p) /\ FilledCount(p) = 0
<1>1. Cardinality({}) = 0
  BY FS_EmptySet
<1> QED
  BY <1>1, AutoAssumption DEF Progress, RunFits, FilledCount, AutoAssumption

\* Only a row nobody works for is claimed.
LEMMA ClaimKeepsAuto ==
  ASSUME AutoInv, NEW r \in Runs, Claim(r)
  PROVE  AutoInv'
<1> DEFINE p == [phase |-> "rebalance", auto |-> TRUE, todo |-> {}, sold |-> {},
                 bought |-> {}, spent |-> 0, paid |-> 0, code |-> NoCode, cash |-> 0]
<1>1. p \in Progress /\ RunFits(p) /\ FilledCount(p) = 0 /\ p.auto
  BY FreshRun
<1>2. /\ Claimable
      /\ row' = "RUNNING" /\ old' = FALSE
      /\ run' = [run EXCEPT ![r] = p]
      /\ UNCHANGED <<window, ledger, cash, crashes, moved>>
  BY DEF Claim, Begin
<1>3. Owners = {}
  BY <1>2 DEF AutoInv, OneOwner, Claimable, Reclaimable
<1> HIDE DEF p
<1>4. TypeOK'
  BY <1>1, <1>2 DEF AutoInv, TypeOK, Statuses
<1>5. \A s \in Runs : run'[s] = IF s = r THEN p ELSE run[s]
  BY <1>2 DEF AutoInv, TypeOK
<1>6. p # Idle
  BY <1>1 DEF Progress, Idle
<1>7. Owners' = {r}
  BY <1>1, <1>3, <1>5, <1>6 DEF Owners, Live
<1>8. OneOwner'
  BY <1>2, <1>7 DEF OneOwner
<1>9. RunsFit'
  BY <1>1, <1>5 DEF AutoInv, RunsFit, Live, RunFits, FilledCount
<1>10. crashes = 0 => ~moved
  BY <1>2, <1>3 DEF AutoInv, NothingIsLost, Claimable, Reclaimable
<1>11. NothingIsLost'
  BY <1>2, <1>7, <1>10 DEF NothingIsLost
<1> QED
  BY <1>4, <1>8, <1>9, <1>11 DEF AutoInv

\* A forced run without the row concerns nobody else.
LEMMA ForceKeepsAuto ==
  ASSUME AutoInv, NEW r \in Runs, ForceRun(r)
  PROVE  AutoInv'
<1> DEFINE p == [phase |-> "rebalance", auto |-> FALSE, todo |-> {}, sold |-> {},
                 bought |-> {}, spent |-> 0, paid |-> 0, code |-> NoCode, cash |-> 0]
<1>1. p \in Progress /\ RunFits(p) /\ ~p.auto
  BY FreshRun
<1>2. /\ ~Live(r)
      /\ run' = [run EXCEPT ![r] = p]
      /\ UNCHANGED <<window, row, old, ledger, cash, crashes, moved>>
  BY DEF ForceRun, Begin
<1> HIDE DEF p
<1>3. TypeOK'
  BY <1>1, <1>2 DEF AutoInv, TypeOK
<1>4. \A s \in Runs : run'[s] = IF s = r THEN p ELSE run[s]
  BY <1>2 DEF AutoInv, TypeOK
<1>5. Owners' = Owners /\ r \notin Owners
  BY <1>1, <1>2, <1>4 DEF Owners, Live
<1>6. OneOwner'
  BY <1>2, <1>5 DEF AutoInv, OneOwner
<1>7. RunsFit'
  BY <1>1, <1>4 DEF AutoInv, RunsFit, Live, RunFits, FilledCount
<1>8. NothingIsLost'
  BY <1>2, <1>4, <1>5 DEF AutoInv, NothingIsLost, Owners, FilledCount
<1> QED
  BY <1>3, <1>6, <1>7, <1>8 DEF AutoInv

\* A step inside a run that keeps to its limits and counts what it moves.
LEMMA ProgressKeepsAuto ==
  ASSUME AutoInv, NEW r \in Runs, Live(r), NEW p \in Progress, Update(r, p),
         RunFits(p), p.auto = run[r].auto, FilledCount(run[r]) <= FilledCount(p),
         UNCHANGED <<window, row, old, crashes>>,
         ledger' \in [Keys -> Nat], cash' \in 0..Cash, moved' \in BOOLEAN,
         moved' # moved => p.auto /\ FilledCount(p) > 0
  PROVE  AutoInv'
<1>1. TypeOK'
  BY DEF AutoInv, TypeOK, Update
<1>2. \A s \in Runs : run'[s] = IF s = r THEN p ELSE run[s]
  BY DEF AutoInv, TypeOK, Update
<1>3. p # Idle
  BY DEF Progress, Idle
<1>4. Owners' = Owners
  BY <1>2, <1>3 DEF Owners, Live
<1>5. OneOwner'
  BY <1>4 DEF AutoInv, OneOwner
<1>6. RunsFit'
  BY <1>2 DEF AutoInv, RunsFit, Live, RunFits, FilledCount
<1>7. run[r] \in Progress
  BY LiveRuns DEF AutoInv
<1>8. FilledCount(p) \in Nat /\ FilledCount(run[r]) \in Nat
  BY <1>7, CountIsNat
<1>9. NothingIsLost'
  <2> SUFFICES ASSUME crashes = 0 PROVE
        /\ row \in {"NONE", "RETRYABLE"} => ~moved'
        /\ row = "RUNNING" => Owners # {}
        /\ \A s \in Owners : moved' => FilledCount(run'[s]) > 0
    BY <1>4 DEF NothingIsLost, FilledCount
  <2>1. p.auto => r \in Owners
    BY DEF Owners
  <2>2. row \in {"NONE", "RETRYABLE"} => ~moved'
    BY <2>1 DEF AutoInv, OneOwner, NothingIsLost, TypeOK
  <2>3. row = "RUNNING" => Owners # {}
    BY DEF AutoInv, NothingIsLost
  <2>4. ASSUME NEW s \in Owners, moved' PROVE FilledCount(run'[s]) > 0
    <3>1. s \in Runs
      BY DEF Owners
    <3>2. CASE s = r
      <4>1. run'[s] = p
        BY <1>2, <3>2
      <4>2. moved => FilledCount(run[r]) > 0
        BY <3>2 DEF AutoInv, NothingIsLost
      <4>3. ~moved => FilledCount(p) > 0
        BY <2>4
      <4>4. FilledCount(p) > 0
        BY <1>8, <4>2, <4>3
      <4> QED
        BY <4>1, <4>4
    <3>3. CASE s # r /\ moved
      BY <1>2, <2>4, <3>1, <3>3 DEF AutoInv, NothingIsLost
    <3>4. CASE s # r /\ ~moved
      BY <2>1, <2>4, <3>1, <3>4 DEF AutoInv, OneOwner
    <3> QED
      BY <3>2, <3>3, <3>4 DEF AutoInv, TypeOK
  <2> QED
    BY <2>2, <2>3, <2>4
<1> QED
  BY <1>1, <1>5, <1>6, <1>9 DEF AutoInv

\* A SELL takes one of the trades that are left.
LEMMA SellKeepsAuto ==
  ASSUME AutoInv, NEW r \in Runs, NEW c \in Positions, SellPosition(r, c)
  PROVE  AutoInv'
<1> DEFINE q == run[r]
           p == [q EXCEPT !.sold = @ \cup {c}]
           k == <<"SELL", c>>
<1>1. Live(r) /\ q \in Progress /\ RunFits(q) /\ c \in Codes /\ k \in Keys
  BY LiveRuns, AutoAssumption
  DEF SellPosition, AutoInv, RunsFit, AutoAssumption, Keys
<1>2. /\ q.phase = "rebalance" /\ FilledCount(q) < MaxTrades /\ c \notin q.sold
      /\ Update(r, p) /\ Fill(r, k, 1)
      /\ cash' = cash \/ (cash < Cash /\ cash' = cash + 1)
      /\ UNCHANGED <<window, row, old, crashes>>
  BY DEF SellPosition
<1>3. /\ p \in Progress
      /\ p.phase = q.phase /\ p.auto = q.auto /\ p.sold = q.sold \cup {c}
      /\ p.bought = q.bought /\ p.spent = q.spent /\ p.paid = q.paid /\ p.code = q.code
  BY <1>1 DEF Progress
<1>4. FilledCount(p) = FilledCount(q) + 1
  <2>1. Cardinality(p.sold) = Cardinality(q.sold) + 1
    BY <1>1, <1>2, <1>3, CountIsNat, FS_AddElement, ZenonT(40)
  <2> QED
    BY <1>1, <1>3, <2>1, CountIsNat DEF FilledCount
<1>5. FilledCount(q) \in Nat /\ MaxTrades \in Nat
  BY <1>1, CountIsNat, AutoAssumption DEF AutoAssumption
<1>6. RunFits(p)
  BY <1>1, <1>2, <1>3, <1>4, <1>5 DEF RunFits
<1>7. /\ ledger' \in [Keys -> Nat] /\ moved' \in BOOLEAN
      /\ moved' # moved => q.auto
  BY <1>1, <1>2 DEF Fill, Answer, AutoInv, TypeOK, Progress
<1>8. cash' \in 0..Cash
  BY <1>2, AutoAssumption DEF AutoInv, TypeOK, AutoAssumption
<1> HIDE DEF p, q
<1> QED
  BY <1>1, <1>2, <1>3, <1>4, <1>5, <1>6, <1>7, <1>8, ProgressKeepsAuto DEF q

\* Going on to the candidates and reading the account for one change no fill.
LEMMA LookKeepsAuto ==
  ASSUME AutoInv, NEW r \in Runs,
         Discover(r) \/ PassCandidate(r) \/ \E c \in Codes : ReadAccount(r, c)
  PROVE  AutoInv'
<1> DEFINE q == run[r]
<1>1. Live(r) /\ q \in Progress /\ RunFits(q)
  BY LiveRuns DEF Discover, PassCandidate, ReadAccount, AutoInv, RunsFit
<1>2. UNCHANGED <<window, row, old, ledger, cash, crashes, moved>>
  BY DEF Discover, PassCandidate, ReadAccount
<1>3. /\ ledger' \in [Keys -> Nat] /\ cash' \in 0..Cash /\ moved' \in BOOLEAN
      /\ moved' = moved
  BY <1>2 DEF AutoInv, TypeOK
<1>4. FilledCount(q) \in Nat
  BY <1>1, CountIsNat
<1>5. ASSUME NEW p \in Progress, Update(r, p), RunFits(p), p.auto = q.auto,
             p.sold = q.sold, p.bought = q.bought
      PROVE  AutoInv'
  <2>1. FilledCount(p) = FilledCount(q)
    BY <1>5 DEF FilledCount
  <2> QED
    BY <1>1, <1>2, <1>3, <1>4, <1>5, <2>1, ProgressKeepsAuto
<1>6. CASE Discover(r)
  <2> DEFINE p == [q EXCEPT !.phase = "entry", !.todo = Codes]
  <2>1. p \in Progress /\ Update(r, p) /\ p.auto = q.auto /\ p.sold = q.sold
        /\ p.bought = q.bought /\ p.code = q.code /\ p.paid = q.paid
        /\ p.spent = q.spent /\ p.phase = "entry"
    BY <1>1, <1>6 DEF Discover, Progress
  <2>2. RunFits(p)
    BY <1>1, <2>1 DEF RunFits, FilledCount
  <2> QED
    BY <1>5, <2>1, <2>2
<1>7. CASE PassCandidate(r)
  <2> DEFINE p == [q EXCEPT !.code = NoCode, !.cash = 0]
  <2>1. p \in Progress /\ Update(r, p) /\ p.auto = q.auto /\ p.sold = q.sold
        /\ p.bought = q.bought /\ p.code = NoCode /\ p.paid = q.paid
        /\ p.spent = q.spent /\ p.phase = q.phase
    BY <1>1, <1>7 DEF PassCandidate, Progress
  <2>2. RunFits(p)
    BY <1>1, <2>1 DEF RunFits, FilledCount
  <2> QED
    BY <1>5, <2>1, <2>2
<1>8. CASE \E c \in Codes : ReadAccount(r, c)
  <2> PICK c \in Codes : ReadAccount(r, c)
    BY <1>8
  <2> DEFINE p == [q EXCEPT !.todo = @ \ {c}, !.code = c, !.cash = cash]
  <2>1. cash \in Nat
    BY AutoAssumption DEF AutoInv, TypeOK, AutoAssumption
  <2>2. p \in Progress /\ Update(r, p) /\ p.auto = q.auto /\ p.sold = q.sold
        /\ p.bought = q.bought /\ p.code = c /\ p.paid = q.paid
        /\ p.spent = q.spent /\ p.phase = q.phase
    BY <1>1, <2>1 DEF ReadAccount, Progress
  <2>3. q.phase = "entry" /\ c \notin q.sold /\ FilledCount(q) < MaxTrades
    BY DEF ReadAccount, MayEnter
  <2>4. RunFits(p)
    BY <1>1, <2>2, <2>3 DEF RunFits, FilledCount
  <2> QED
    BY <1>5, <2>2, <2>4
<1> QED
  BY <1>6, <1>7, <1>8

\* What a BUY costs fits in what the budget has left.
LEMMA AffordableIsLeft ==
  ASSUME NEW p \in Progress
  PROVE  Affordable(p) \in Int /\ Affordable(p) <= Budget - p.spent
<1>1. Budget - p.spent \in Int /\ p.cash - Reserve \in Int
  BY AutoAssumption DEF Progress, AutoAssumption
<1> QED
  BY <1>1, MinOfTwo DEF Affordable

\* A BUY pays no more than it counts, and no more than the budget has left.
LEMMA BuyKeepsAuto ==
  ASSUME AutoInv, NEW r \in Runs, BuyCandidate(r)
  PROVE  AutoInv'
<1> DEFINE q == run[r]
           k == <<"BUY", q.code>>
<1>1. Live(r) /\ q \in Progress /\ RunFits(q)
  BY LiveRuns DEF BuyCandidate, AutoInv, RunsFit
<1>2. q.code \in Codes /\ q.code # NoCode /\ k \in Keys
  BY <1>1 DEF BuyCandidate, Progress, Keys
<1>3. PICK cost \in 1..Affordable(q) :
        /\ IF ledger[k] = NoFill THEN cost <= cash /\ cash' = cash - cost ELSE cash' = cash
        /\ Fill(r, k, cost)
        /\ Update(r, [q EXCEPT !.code = NoCode, !.cash = 0, !.bought = @ \cup {q.code},
                               !.spent = @ + Answer(k, cost), !.paid = @ + (cash - cash')])
  BY DEF BuyCandidate, Covered
<1>4. /\ cost \in Nat /\ cost > 0 /\ cost <= Budget - q.spent
      /\ Answer(k, cost) \in Nat /\ cash \in 0..Cash
      /\ q.spent \in Nat /\ q.paid \in Nat /\ Budget \in Nat /\ Cash \in Nat /\ MaxTrades \in Nat
  <2>1. cost \in Nat /\ cost > 0 /\ cost <= Budget - q.spent
    BY <1>1, AffordableIsLeft, AutoAssumption DEF AutoAssumption, Progress
  <2>2. q.spent \in Nat /\ q.paid \in Nat /\ Budget \in Nat /\ Cash \in Nat /\ MaxTrades \in Nat
    BY <1>1, AutoAssumption DEF AutoAssumption, Progress
  <2>3. Answer(k, cost) \in Nat /\ cash \in 0..Cash
    BY <1>2, <2>1 DEF Answer, AutoInv, TypeOK
  <2> QED
    BY <2>1, <2>2, <2>3
<1>5. /\ cash' \in 0..Cash
      /\ cash - cash' \in Nat
      /\ cash - cash' <= Answer(k, cost)
      /\ cash - cash' <= cost
  BY <1>3, <1>4 DEF Answer, NoFill
<1> DEFINE counted == Answer(k, cost)
           paid == cash - cash'
           p == [q EXCEPT !.code = NoCode, !.cash = 0, !.bought = @ \cup {q.code},
                          !.spent = @ + counted, !.paid = @ + paid]
<1>6. /\ p \in Progress /\ Update(r, p)
      /\ p.phase = q.phase /\ p.auto = q.auto /\ p.sold = q.sold
      /\ p.bought = q.bought \cup {q.code} /\ p.code = NoCode
      /\ p.spent = q.spent + counted /\ p.paid = q.paid + paid
  <2>1. Update(r, p)
    BY <1>3
  <2>2. counted \in Nat /\ paid \in Nat
    BY <1>4, <1>5
  <2> HIDE DEF counted, paid, q
  <2>3. q.spent + counted \in Nat /\ q.paid + paid \in Nat
    BY <1>4, <2>2
  <2>4. /\ p \in Progress
        /\ p.phase = q.phase /\ p.auto = q.auto /\ p.sold = q.sold
        /\ p.bought = q.bought \cup {q.code} /\ p.code = NoCode
        /\ p.spent = q.spent + counted /\ p.paid = q.paid + paid
    BY <1>1, <1>2, <2>3 DEF Progress
  <2> QED
    BY <2>1, <2>4
<1> HIDE DEF p
<1>7. /\ FilledCount(p) \in Nat /\ FilledCount(q) \in Nat
      /\ FilledCount(q) <= FilledCount(p) /\ FilledCount(p) <= FilledCount(q) + 1
      /\ FilledCount(p) > 0
  <2> HIDE DEF q
  <2>1. /\ IsFiniteSet(q.bought) /\ Cardinality(q.bought) \in Nat /\ Cardinality(q.sold) \in Nat
        /\ IsFiniteSet(p.bought) /\ Cardinality(p.bought) \in Nat
    BY <1>1, <1>6, CountIsNat
  <2>2. Cardinality(q.bought \cup {q.code}) =
          IF q.code \in q.bought THEN Cardinality(q.bought) ELSE Cardinality(q.bought) + 1
    BY <2>1, FS_AddElement
  <2>3. Cardinality(p.bought) # 0
    BY <1>6, <2>1, FS_EmptySet
  <2>4. p.bought = q.bought \cup {q.code} /\ p.sold = q.sold
    BY <1>6
  <2> QED
    BY <2>1, <2>2, <2>3, <2>4 DEF FilledCount
<1>8. RunFits(p)
  <2>1. q.code # NoCode /\ FilledCount(q) < MaxTrades /\ q.code \notin q.sold
        /\ q.sold \cap q.bought = {} /\ q.phase # "rebalance" /\ q.paid <= q.spent
    BY <1>1, <1>2 DEF RunFits
  <2>2. FilledCount(p) <= MaxTrades
    BY <1>4, <1>7, <2>1
  <2>3. p.paid <= p.spent /\ p.paid <= Budget
    <3>1. counted \in Nat /\ paid \in Nat /\ paid <= counted /\ paid <= Budget - q.spent
      <4> HIDE DEF q
      <4>1. counted \in Nat /\ paid \in Nat /\ paid <= counted /\ paid <= cost
        BY <1>4, <1>5
      <4> HIDE DEF counted, paid
      <4> QED
        BY <1>4, <4>1
    <3> HIDE DEF counted, paid, q
    <3> QED
      BY <1>4, <1>6, <2>1, <3>1
  <2> HIDE DEF q
  <2> QED
    BY <1>6, <2>1, <2>2, <2>3 DEF RunFits
<1>9. /\ ledger' \in [Keys -> Nat] /\ moved' \in BOOLEAN
      /\ moved' # moved => q.auto
  BY <1>1, <1>2, <1>3, <1>4 DEF Fill, AutoInv, TypeOK, Progress
<1>10. UNCHANGED <<window, row, old, crashes>>
  BY DEF BuyCandidate
<1> HIDE DEF q
<1> QED
  BY <1>1, <1>5, <1>6, <1>7, <1>8, <1>9, <1>10, ProgressKeepsAuto DEF q

\* A run that ends leaves the row RETRYABLE only without a trade.
LEMMA FinishKeepsAuto ==
  ASSUME AutoInv, NEW r \in Runs, Live(r),
         NEW status \in {"RETRYABLE", "COMPLETED", "FAILED"}, Finish(r, status),
         status = "RETRYABLE" => FilledCount(run[r]) = 0
  PROVE  AutoInv'
<1>1. \A s \in Runs : run'[s] = IF s = r THEN Idle ELSE run[s]
  BY DEF Finish, Update, AutoInv, TypeOK
<1>2. TypeOK'
  BY DEF Finish, Update, AutoInv, TypeOK, Statuses, Closed
<1>3. Owners' = Owners \ {r}
  BY <1>1 DEF Owners, Live
<1>4. OneOwner'
  BY <1>3 DEF AutoInv, OneOwner, Finish, Owners
<1>5. RunsFit'
  BY <1>1 DEF AutoInv, RunsFit, Live, RunFits, FilledCount
<1>6. NothingIsLost'
  <2> SUFFICES ASSUME crashes = 0 PROVE
        /\ row' \in {"NONE", "RETRYABLE"} => ~moved
        /\ row' = "RUNNING" => Owners \ {r} # {}
        /\ \A s \in Owners \ {r} : moved => FilledCount(run'[s]) > 0
    BY <1>3 DEF NothingIsLost, Finish, FilledCount
  <2>1. CASE run[r].auto
    <3>1. Owners = {r}
      BY <2>1 DEF AutoInv, OneOwner, Owners
    <3>2. row' = status
      BY <2>1 DEF Finish
    <3>3. status = "RETRYABLE" => ~moved
      BY <3>1 DEF AutoInv, NothingIsLost
    <3> QED
      BY <3>1, <3>2, <3>3
  <2>2. CASE ~run[r].auto
    <3>1. r \notin Owners /\ row' = row
      BY <2>2 DEF Owners, Finish
    <3>2. \A s \in Owners : s # r /\ run'[s] = run[s]
      BY <1>1, <3>1 DEF Owners
    <3> QED
      BY <3>1, <3>2 DEF AutoInv, NothingIsLost
  <2> QED
    BY <2>1, <2>2
<1> QED
  BY <1>2, <1>4, <1>5, <1>6 DEF AutoInv

\* A process that dies leaves the row to age.
LEMMA CrashKeepsAuto ==
  ASSUME AutoInv, NEW r \in Runs, Crash(r)
  PROVE  AutoInv'
<1>1. \A s \in Runs : run'[s] = IF s = r THEN Idle ELSE run[s]
  BY DEF Crash, Update, AutoInv, TypeOK
<1>2. TypeOK'
  BY AutoAssumption DEF Crash, Update, AutoInv, TypeOK, AutoAssumption
<1>3. Owners' = Owners \ {r}
  BY <1>1 DEF Owners, Live
<1>4. OneOwner'
  BY <1>3 DEF AutoInv, OneOwner, Crash, Owners
<1>5. RunsFit'
  BY <1>1 DEF AutoInv, RunsFit, Live, RunFits, FilledCount
<1>6. NothingIsLost'
  BY DEF Crash, NothingIsLost, AutoInv, TypeOK
<1> QED
  BY <1>2, <1>4, <1>5, <1>6 DEF AutoInv

\* Only a row without an owner ages, which no clean day leaves RUNNING.
LEMMA WorldKeepsAuto ==
  ASSUME AutoInv, Age \/ ManualTrade \/ OpenWindow \/ CloseWindow
  PROVE  AutoInv'
<1>1. UNCHANGED <<row, run, crashes, moved>> /\ Owners' = Owners
  BY DEF Age, ManualTrade, OpenWindow, CloseWindow, Owners, Live
<1>2. TypeOK'
  BY <1>1 DEF Age, ManualTrade, OpenWindow, CloseWindow, AutoInv, TypeOK
<1>3. OneOwner'
  BY <1>1 DEF Age, ManualTrade, OpenWindow, CloseWindow, AutoInv, OneOwner
<1>4. RunsFit'
  BY <1>1 DEF AutoInv, RunsFit, Live, RunFits, FilledCount
<1>5. NothingIsLost'
  BY <1>1 DEF AutoInv, NothingIsLost, FilledCount
<1> QED
  BY <1>2, <1>3, <1>4, <1>5 DEF AutoInv

\* Every step keeps the invariant.
LEMMA NextKeepsAuto == AutoInv /\ [Next]_vars => AutoInv'
<1> SUFFICES ASSUME AutoInv, [Next]_vars PROVE AutoInv'
  OBVIOUS
<1>1. ASSUME NEW r \in Runs, Claim(r) PROVE AutoInv'
  BY <1>1, ClaimKeepsAuto
<1>2. ASSUME NEW r \in Runs, ForceRun(r) PROVE AutoInv'
  BY <1>2, ForceKeepsAuto
<1>3. ASSUME NEW r \in Runs, NEW c \in Positions, SellPosition(r, c) PROVE AutoInv'
  BY <1>3, SellKeepsAuto
<1>4. ASSUME NEW r \in Runs,
             Discover(r) \/ PassCandidate(r) \/ \E c \in Codes : ReadAccount(r, c)
      PROVE AutoInv'
  BY <1>4, LookKeepsAuto
<1>5. ASSUME NEW r \in Runs, BuyCandidate(r) PROVE AutoInv'
  BY <1>5, BuyKeepsAuto
<1>6. ASSUME NEW r \in Runs, EndRun(r) PROVE AutoInv'
  BY <1>6, FinishKeepsAuto DEF EndRun, RetryableNoFill
<1>7. ASSUME NEW r \in Runs, FailRun(r) PROVE AutoInv'
  BY <1>7, FinishKeepsAuto DEF FailRun
<1>8. ASSUME NEW r \in Runs, Crash(r) PROVE AutoInv'
  BY <1>8, CrashKeepsAuto
<1>9. CASE Age \/ ManualTrade \/ OpenWindow \/ CloseWindow
  BY <1>9, WorldKeepsAuto
<1>10. CASE UNCHANGED vars
  BY <1>10 DEF vars, AutoInv, TypeOK, OneOwner, RunsFit, NothingIsLost, Owners, Live,
     RunFits, FilledCount
<1> QED
  BY <1>1, <1>2, <1>3, <1>4, <1>5, <1>6, <1>7, <1>8, <1>9, <1>10 DEF Next, Proceed

------------------------------------------------------------------------------

\* Every reachable state satisfies the invariant.
THEOREM AutoInvariant == Spec => []AutoInv
BY InitAuto, NextKeepsAuto, PTL DEF Spec

\* Every column and every process keeps a value of its kind.
THEOREM AutoTyped == Spec => []TypeOK
<1>1. AutoInv => TypeOK
  BY DEF AutoInv
<1> QED
  BY <1>1, AutoInvariant, PTL

\* However runs are forced, fail and die, one process at most works for the row.
THEOREM OneOwnerOfTheDay == Spec => []OneOwner
<1>1. AutoInv => OneOwner
  BY DEF AutoInv
<1> QED
  BY <1>1, AutoInvariant, PTL

\* Every run stays within its trades and its budget and buys nothing it sold.
THEOREM RunsWithinLimits == Spec => []RunWithinLimits
<1>1. AutoInv => RunWithinLimits
  BY DEF AutoInv, RunsFit, RunFits, RunWithinLimits
<1> QED
  BY <1>1, AutoInvariant, PTL

\* A day to be tried again has moved nothing, unless a process died.
THEOREM RetriesAreClean == Spec => []RetryIsClean
<1>1. AutoInv => RetryIsClean
  BY DEF AutoInv, NothingIsLost, RetryIsClean
<1> QED
  BY <1>1, AutoInvariant, PTL

\* A closed day stays closed: no live process owns it, so none finishes it, and
\* claim_today passes it by.
THEOREM ClosedDaysStay == Spec => ClosedDayStays
<1>1. AutoInv /\ [Next]_vars => [(row \in Closed) => (row' = row)]_vars
  <2> SUFFICES ASSUME AutoInv, Next, row \in Closed PROVE row' = row
    OBVIOUS
  <2>1. row \notin {"NONE", "RUNNING", "RETRYABLE"}
    BY DEF Closed
  <2>2. Owners = {}
    BY <2>1 DEF AutoInv, OneOwner
  <2>3. ASSUME NEW r \in Runs, Claim(r) PROVE FALSE
    BY <2>1, <2>3 DEF Claim, Claimable, Reclaimable
  <2>4. ASSUME NEW r \in Runs, EndRun(r) \/ FailRun(r) PROVE row' = row
    BY <2>2, <2>4 DEF EndRun, FailRun, Finish, Owners
  <2>5. ASSUME NEW r \in Runs,
               ForceRun(r) \/ Crash(r) \/ Discover(r) \/ PassCandidate(r) \/ BuyCandidate(r)
        PROVE row' = row
    BY <2>5 DEF ForceRun, Crash, Discover, PassCandidate, BuyCandidate
  <2>6. ASSUME NEW r \in Runs, \/ \E c \in Positions : SellPosition(r, c)
                               \/ \E c \in Codes : ReadAccount(r, c)
        PROVE row' = row
    BY <2>6 DEF SellPosition, ReadAccount
  <2>7. CASE Age \/ ManualTrade \/ OpenWindow \/ CloseWindow
    BY <2>7 DEF Age, ManualTrade, OpenWindow, CloseWindow
  <2> QED
    BY <2>3, <2>4, <2>5, <2>6, <2>7 DEF Next, Proceed
<1> QED
  BY <1>1, AutoInvariant, PTL DEF Spec, ClosedDayStays

\* Only a BUY writes a new answer under a BUY key.
LEMMA BuysWriteBuyKeys ==
  ASSUME TypeOK, Next, NEW r \in Runs, Live(r), Buys(r)
  PROVE  BuyCandidate(r) /\ ledger[<<"BUY", run[r].code>>] = NoFill
<1> PICK c \in Codes : run[r].code = c /\ ledger'[<<"BUY", c>>] # ledger[<<"BUY", c>>]
  BY DEF Buys
<1>1. <<"BUY", c>> \in Keys /\ c # NoCode
  BY AutoAssumption DEF Keys, AutoAssumption
<1>2. ledger' # ledger /\ run'[r] # run[r]
  BY DEF Buys
<1>3. ASSUME NEW s \in Runs, NEW b \in Positions, SellPosition(s, b)
      PROVE  FALSE
  <2>1. ledger' = [ledger EXCEPT ![<<"SELL", b>>] = Answer(<<"SELL", b>>, 1)]
    BY <1>3 DEF SellPosition, Fill
  <2>2. <<"BUY", c>> # <<"SELL", b>>
    OBVIOUS
  <2> QED
    BY <1>1, <2>1, <2>2 DEF TypeOK
<1>4. ASSUME NEW s \in Runs, BuyCandidate(s)
      PROVE  s = r
  <2>1. PICK p : run' = [run EXCEPT ![s] = p]
    BY <1>4 DEF BuyCandidate, Update
  <2> QED
    BY <1>2, <2>1 DEF TypeOK
<1>5. PICK s \in Runs : (\E b \in Positions : SellPosition(s, b)) \/ BuyCandidate(s)
  <2>1. ASSUME NEW s \in Runs, \/ Claim(s) \/ ForceRun(s) \/ Crash(s) \/ Discover(s) \/ PassCandidate(s)
                               \/ EndRun(s) \/ FailRun(s) \/ \E b \in Codes : ReadAccount(s, b)
        PROVE  FALSE
    BY <1>2, <2>1 DEF Claim, ForceRun, Crash, Discover, PassCandidate, EndRun, FailRun, Finish, ReadAccount
  <2>2. ~Age /\ ~ManualTrade /\ ~OpenWindow /\ ~CloseWindow
    BY <1>2 DEF Age, ManualTrade, OpenWindow, CloseWindow
  <2> QED
    BY <2>1, <2>2 DEF Next, Proceed
<1>6. BuyCandidate(r)
  BY <1>3, <1>4, <1>5
<1>7. ledger[<<"BUY", c>>] = NoFill
  <2>1. PICK cost : ledger' = [ledger EXCEPT ![<<"BUY", c>>] = Answer(<<"BUY", c>>, cost)]
    BY <1>6 DEF BuyCandidate, Fill
  <2> QED
    BY <1>1, <2>1 DEF Answer, TypeOK
<1> QED
  BY <1>6, <1>7

\* A BUY that finds no less cash than its run has read leaves the reserve,
\* whatever other runs and the user do to the account.
THEOREM ReserveRemains == Spec => ReserveIsLeft
<1>1. ASSUME TypeOK, Next, NEW r \in Runs, Live(r), Buys(r), cash >= run[r].cash
      PROVE  cash' >= Reserve
  <2>1. BuyCandidate(r) /\ ledger[<<"BUY", run[r].code>>] = NoFill
    BY <1>1, BuysWriteBuyKeys
  <2>2. PICK cost \in 1..Affordable(run[r]) : cash' = cash - cost
    BY <2>1 DEF BuyCandidate
  <2>3. run[r] \in Progress
    BY <1>1, LiveRuns
  <2>4. Budget \in Nat /\ Reserve \in Nat /\ cash \in Nat /\ run[r].cash \in Nat /\ run[r].spent \in Nat
    BY <1>1, <2>3, AutoAssumption DEF AutoAssumption, TypeOK, Progress
  <2>5. Affordable(run[r]) \in Int /\ Affordable(run[r]) <= run[r].cash - Reserve
    <3> DEFINE left == Budget - run[r].spent
               spare == run[r].cash - Reserve
    <3>1. left \in Int /\ spare \in Int
      BY <2>4
    <3>2. Affordable(run[r]) = Min({left, spare})
      BY DEF Affordable
    <3> HIDE DEF left
    <3>3. Affordable(run[r]) \in Int /\ Affordable(run[r]) <= spare
      BY <3>1, <3>2, MinOfTwo
    <3> QED
      BY <3>3
  <2>6. cost <= run[r].cash - Reserve /\ cost \in Int
    BY <2>2, <2>4, <2>5
  <2> QED
    BY <1>1, <2>2, <2>4, <2>6
<1>2. AutoInv /\ [Next]_vars =>
        [\A r \in Runs : Live(r) /\ Buys(r) /\ cash >= run[r].cash => cash' >= Reserve]_vars
  BY <1>1 DEF AutoInv
<1> QED
  BY <1>2, AutoInvariant, PTL DEF Spec, ReserveIsLeft
==============================================================================
