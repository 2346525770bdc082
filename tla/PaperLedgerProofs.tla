-------------------------- MODULE PaperLedgerProofs --------------------------
(***************************************************************************)
(* Proofs about PaperLedger for every value of its constants: the columns  *)
(* keep their types, the account backs Kiasha's shares, money moves once   *)
(* per key, a mandate's books balance, and the action properties that      *)
(* protect the reserve, the stop and the loss breaker.                     *)
(*                                                                         *)
(* The two sums, over keys and over symbols, are totals (Totals): a fill   *)
(* changes one summand, and the balance by as much.                        *)
(***************************************************************************)
EXTENDS PaperLedger, Totals

\* The inductive invariant: quantities stay in Nat after a manual SELL only
\* because Kiasha's shares are backed, and they stay backed only because
\* every column has its type, so the two are proved together.
LedgerInv == TypeOK /\ KiashaSharesBacked

\* What a fill costs is a positive amount.
LEMMA CostPositive ==
  ASSUME NEW q \in Quantities, NEW p \in Prices
  PROVE  q * p \in Nat /\ q * p > 0
<1>1. q \in Nat /\ q > 0 /\ p \in Nat /\ p > 0
  BY LedgerAssumption
<1> QED
  BY <1>1

\* The average cost after a BUY is a whole number.
LEMMA NewAverageType ==
  ASSUME TypeOK, NEW c \in Codes, NEW q \in Quantities, NEW cost \in Nat
  PROVE  NewAverage(c, q, cost) \in Int
<1>1. mqty[c] \in Nat /\ mavg[c] \in Int /\ q \in Nat /\ q > 0
  BY LedgerAssumption DEF TypeOK
<1>2. mqty[c] * mavg[c] + cost \in Int
  BY <1>1
<1>3. mqty[c] + q \in Nat /\ mqty[c] + q > 0
  BY <1>1
<1> QED
  BY <1>2, <1>3 DEF NewAverage

\* What a mandate realizes on a SELL is a whole number.
LEMMA RealizedType ==
  ASSUME TypeOK, NEW c \in Codes, NEW q \in Quantities, NEW p \in Prices
  PROVE  q * (p - mavg[c]) \in Int
<1>1. q \in Int /\ p - mavg[c] \in Int
  BY LedgerAssumption DEF TypeOK
<1> QED
  BY <1>1

\* An empty ledger satisfies the invariant.
LEMMA InitInv == Init => LedgerInv
  BY LedgerAssumption
     DEF Init, LedgerInv, TypeOK, KiashaSharesBacked, Flat, NoResponse, NotRead,
         Statuses, Open

\* A manual BUY adds to the shared position only, so Kiasha's shares stay
\* backed.
LEMMA ManualBuyInv ==
  ASSUME LedgerInv, NEW k \in Keys, NEW c \in Codes, NEW q \in Quantities,
         NEW p \in Prices, ManualBuy(k, c, q, p)
  PROVE  LedgerInv'
<1> DEFINE cost == q * p
<1>1. cost \in Nat
  BY CostPositive
<1>2. q \in Nat
  BY LedgerAssumption
<1>3. cost <= cash /\ cash' = cash - cost
  BY <1>1 DEF ManualBuy, BuyAllowed, Post, LedgerInv, TypeOK
<1>4. qty' = [qty EXCEPT ![c] = @ + q] /\ response' = [response EXCEPT ![k] = -cost]
  BY DEF ManualBuy, Post
<1>5. UNCHANGED <<mandate, book, today, quoted>>
  BY DEF ManualBuy
<1> HIDE DEF cost
<1>6. TypeOK'
  BY <1>1, <1>2, <1>3, <1>4, <1>5
     DEF LedgerInv, TypeOK, mandate, book, today
<1>7. KiashaSharesBacked'
  BY <1>2, <1>4, <1>5
     DEF LedgerInv, TypeOK, KiashaSharesBacked, Open, mandate, book
<1> QED
  BY <1>6, <1>7 DEF LedgerInv

\* Kiasha's BUY adds the same shares to the mandate and to the shared
\* position.
LEMMA KiashaBuyInv ==
  ASSUME LedgerInv, NEW k \in Keys, NEW c \in Codes, NEW q \in Quantities,
         NEW p \in Prices, KiashaBuy(k, c, q, p)
  PROVE  LedgerInv'
<1> DEFINE cost == q * p
           average == NewAverage(c, q, cost)
<1>1. cost \in Nat
  BY CostPositive
<1>2. q \in Nat
  BY LedgerAssumption
<1>3. average \in Int
  BY <1>1, NewAverageType DEF LedgerInv
<1>4. /\ cost <= cash /\ cash' = cash - cost
      /\ cost <= mcash /\ mcash' = mcash - cost
      /\ notional' = notional + cost
  BY <1>1 DEF KiashaBuy, BuyAllowed, Post, LedgerInv, TypeOK
<1>5. /\ qty' = [qty EXCEPT ![c] = @ + q]
      /\ response' = [response EXCEPT ![k] = -cost]
      /\ mqty' = [mqty EXCEPT ![c] = @ + q]
      /\ mavg' = [mavg EXCEPT ![c] = average]
  BY DEF KiashaBuy, Post
<1>6. UNCHANGED <<mandate, mreal, day, loss, quoted>>
  BY DEF KiashaBuy
<1> HIDE DEF cost, average
<1>7. TypeOK'
  BY <1>1, <1>2, <1>3, <1>4, <1>5, <1>6 DEF LedgerInv, TypeOK, mandate
<1>8. KiashaSharesBacked'
  BY <1>2, <1>5, <1>6 DEF LedgerInv, TypeOK, KiashaSharesBacked, Open, mandate
<1> QED
  BY <1>7, <1>8 DEF LedgerInv

\* A manual SELL takes at most what the mandate does not count.
LEMMA ManualSellInv ==
  ASSUME LedgerInv, NEW k \in Keys, NEW c \in Codes, NEW q \in Quantities,
         NEW p \in Prices, ManualSell(k, c, q, p)
  PROVE  LedgerInv'
<1> DEFINE proceeds == q * p
<1>1. proceeds \in Nat
  BY CostPositive
<1>2. q \in Nat
  BY LedgerAssumption
<1>3. /\ q <= qty[c] - Owned[c]
      /\ cash' = cash + proceeds
      /\ qty' = [qty EXCEPT ![c] = @ + (-q)]
      /\ response' = [response EXCEPT ![k] = proceeds]
      /\ UNCHANGED <<mandate, book, today, quoted>>
  BY DEF ManualSell, Sellable, Post
<1> HIDE DEF proceeds
<1>4. Owned[c] \in Nat /\ (Open => Owned[c] = mqty[c])
  BY DEF LedgerInv, TypeOK, Owned, Flat
<1>5. TypeOK'
  BY <1>1, <1>2, <1>3, <1>4 DEF LedgerInv, TypeOK, mandate, book, today
<1>6. KiashaSharesBacked'
  BY <1>2, <1>3, <1>4 DEF LedgerInv, TypeOK, KiashaSharesBacked, Open, mandate, book
<1> QED
  BY <1>5, <1>6 DEF LedgerInv

\* Kiasha's SELL takes the same shares from the mandate and the shared
\* position.
LEMMA KiashaSellInv ==
  ASSUME LedgerInv, NEW k \in Keys, NEW c \in Codes, NEW q \in Quantities,
         NEW p \in Prices, KiashaSell(k, c, q, p)
  PROVE  LedgerInv'
<1> DEFINE proceeds == q * p
           realized == q * (p - mavg[c])
<1>1. proceeds \in Nat
  BY CostPositive
<1>2. q \in Nat
  BY LedgerAssumption
<1>3. realized \in Int
  BY RealizedType DEF LedgerInv
<1>4. /\ Open /\ q <= mqty[c] /\ q <= qty[c]
      /\ cash' = cash + proceeds
      /\ qty' = [qty EXCEPT ![c] = @ + (-q)]
      /\ response' = [response EXCEPT ![k] = proceeds]
      /\ mcash' = mcash + proceeds
      /\ mqty' = [mqty EXCEPT ![c] = @ - q]
      /\ mavg' = [mavg EXCEPT ![c] = IF mqty[c] = q THEN 0 ELSE @]
      /\ mreal' = mreal + realized
      /\ loss' = IF realized < 0 THEN loss - realized ELSE loss
      /\ UNCHANGED <<mandate, day, notional, quoted>>
  BY DEF KiashaSell, Post
<1> HIDE DEF proceeds, realized
<1>5. TypeOK'
  <2>1. cash' \in Nat /\ mcash' \in Nat /\ mreal' \in Int /\ loss' \in Nat
    BY <1>1, <1>3, <1>4 DEF LedgerInv, TypeOK
  <2>2. qty' \in [Codes -> Nat] /\ mqty' \in [Codes -> Nat]
    BY <1>2, <1>4 DEF LedgerInv, TypeOK
  <2>3. response' \in [Keys -> Int] /\ mavg' \in [Codes -> Int]
    BY <1>1, <1>4 DEF LedgerInv, TypeOK
  <2> QED
    BY <1>4, <2>1, <2>2, <2>3 DEF LedgerInv, TypeOK, mandate
<1>6. KiashaSharesBacked'
  BY <1>2, <1>4 DEF LedgerInv, TypeOK, KiashaSharesBacked, Open, mandate
<1> QED
  BY <1>5, <1>6 DEF LedgerInv

\* Reading the balance, creating a mandate and refusing one keep the
\* invariant.
LEMMA DelegateInv ==
  ASSUME LedgerInv, Delegate
  PROVE  LedgerInv'
<1>1. PICK r \in Requests :
        \/ ReadCash(r)
        \/ \E a \in Allocations :
             RefuseMandate(r, a) \/ \E d \in Durations : CreateMandate(r, a, d)
  BY DEF Delegate
<1>2. CASE ReadCash(r)
  BY <1>2 DEF ReadCash, LedgerInv, TypeOK, KiashaSharesBacked, Open, account,
              mandate, book, today
<1>3. CASE \E a \in Allocations : RefuseMandate(r, a)
  BY <1>3 DEF RefuseMandate, LedgerInv, TypeOK, KiashaSharesBacked, Open, account,
              mandate, book, today
<1>4. CASE \E a \in Allocations, d \in Durations : CreateMandate(r, a, d)
  <2>1. PICK a \in Allocations, d \in Durations : CreateMandate(r, a, d)
    BY <1>4
  <2>2. a \in Nat /\ d \in Nat
    BY LedgerAssumption
  <2>3. TypeOK'
    BY <2>1, <2>2 DEF CreateMandate, LedgerInv, TypeOK, Flat, Statuses, account, today
  <2>4. KiashaSharesBacked'
    BY <2>1 DEF CreateMandate, LedgerInv, TypeOK, KiashaSharesBacked, Flat, account
  <2> QED
    BY <2>3, <2>4 DEF LedgerInv
<1> QED
  BY <1>1, <1>2, <1>3, <1>4

\* Every step of the specification keeps the invariant.
LEMMA NextInv ==
  ASSUME LedgerInv, [Next]_vars
  PROVE  LedgerInv'
<1>1. CASE Fill
  BY <1>1, ManualBuyInv, KiashaBuyInv, ManualSellInv, KiashaSellInv DEF Fill
<1>2. CASE Delegate
  BY <1>2, DelegateInv
<1>3. CASE RequestStop
  BY <1>3 DEF RequestStop, LedgerInv, TypeOK, KiashaSharesBacked, Open, Statuses,
              account, book, today
<1>4. CASE CompleteIfFlat
  BY <1>4 DEF CompleteIfFlat, LedgerInv, TypeOK, KiashaSharesBacked, Open, Statuses,
              account, book, today
<1>5. CASE NewDay
  BY <1>5 DEF NewDay, LedgerInv, TypeOK, KiashaSharesBacked, Open, account,
              mandate, book
<1>6. CASE UNCHANGED vars
  BY <1>6 DEF LedgerInv, TypeOK, KiashaSharesBacked, Open, vars, account, mandate,
              book, today
<1> QED
  BY <1>1, <1>2, <1>3, <1>4, <1>5, <1>6 DEF Next

\* The columns keep their types and Kiasha's shares stay backed, together.
THEOREM LedgerInvariant == Spec => []LedgerInv
<1>1. LedgerInv /\ [Next]_vars => LedgerInv'
  BY NextInv
<1> QED
  BY InitInv, <1>1, PTL DEF Spec

\* No sequence of fills overdraws the account or the mandate, or drives a
\* quantity below zero (commit_buy_fill, commit_sell_fill).
THEOREM LedgerTyped == Spec => []TypeOK
<1>1. LedgerInv => TypeOK
  BY DEF LedgerInv
<1> QED
  BY LedgerInvariant, <1>1, PTL

\* Whatever is bought and sold on either side, the shared position holds every
\* share the open mandate counts (the manually sellable quantity of
\* commit_sell_fill).
THEOREM SharesBacked == Spec => []KiashaSharesBacked
<1>1. LedgerInv => KiashaSharesBacked
  BY DEF LedgerInv
<1> QED
  BY LedgerInvariant, <1>1, PTL
------------------------------------------------------------------------------
(***************************************************************************)
(* What a step may never do.                                               *)
(***************************************************************************)

\* A step of anything but a fill leaves the balance, and one that leaves an
\* open mandate open leaves its cash.
LEMMA OnlyFillsMoveCash ==
  ASSUME Delegate \/ RequestStop \/ CompleteIfFlat \/ NewDay \/ UNCHANGED vars
  PROVE  cash' = cash /\ (Open => mcash' = mcash)
<1>1. CASE Delegate
  BY <1>1 DEF Delegate, ReadCash, RefuseMandate, CreateMandate, account, book
<1>2. CASE RequestStop
  BY <1>2 DEF RequestStop, account, book
<1>3. CASE CompleteIfFlat
  BY <1>3 DEF CompleteIfFlat, account, book
<1>4. CASE NewDay
  BY <1>4 DEF NewDay, account, book
<1>5. CASE UNCHANGED vars
  BY <1>5 DEF vars, account, book
<1> QED
  BY <1>1, <1>2, <1>3, <1>4, <1>5

\* Once backed, the reserve of an open mandate stays backed: the check of a
\* manual BUY against the unreserved cash, and of Kiasha's BUY against the
\* mandate's, is enough for every interleaving of fills.
THEOREM ReserveKept == Spec => ReserveNeverEroded
<1>1. ASSUME LedgerInv, [Next]_vars, Open, mcash <= cash, Open'
      PROVE  mcash' <= cash'
  <2>1. cash \in Int /\ mcash \in Int
    BY <1>1 DEF LedgerInv, TypeOK
  <2>2. ASSUME NEW k \in Keys, NEW c \in Codes, NEW q \in Quantities, NEW p \in Prices,
               \/ ManualBuy(k, c, q, p)
               \/ KiashaBuy(k, c, q, p)
               \/ ManualSell(k, c, q, p)
               \/ KiashaSell(k, c, q, p)
        PROVE  mcash' <= cash'
    <3>1. q * p \in Nat
      BY CostPositive
    <3>2. CASE ManualBuy(k, c, q, p)
      BY <1>1, <2>1, <3>1, <3>2 DEF ManualBuy, Available, Reserved, Post, book
    <3>3. CASE KiashaBuy(k, c, q, p)
      BY <1>1, <2>1, <3>1, <3>3 DEF KiashaBuy, Post
    <3>4. CASE ManualSell(k, c, q, p)
      BY <1>1, <2>1, <3>1, <3>4 DEF ManualSell, Post, book
    <3>5. CASE KiashaSell(k, c, q, p)
      BY <1>1, <2>1, <3>1, <3>5 DEF KiashaSell, Post
    <3> QED
      BY <2>2, <3>2, <3>3, <3>4, <3>5
  <2>3. CASE Fill
    BY <2>2, <2>3 DEF Fill
  <2> QED
    BY <1>1, <2>1, <2>3, OnlyFillsMoveCash DEF Next
<1>2. LedgerInv /\ [Next]_vars
        => [(Open /\ mcash <= cash /\ Open') => mcash' <= cash']_vars
  BY <1>1
<1> QED
  BY LedgerInvariant, <1>2, PTL DEF Spec, ReserveNeverEroded

\* From the stop request on, the mandate only sells and closes, and it closes
\* only when flat (request_stop, complete_if_flat, the refusals of
\* commit_buy_fill and create_mandate).
THEOREM StopKept == Spec => StopIsFinal
<1> DEFINE Final == /\ status' \in {"STOPPING", "COMPLETED"}
                    /\ mcash' >= mcash
                    /\ status' = "COMPLETED" => mqty = Flat
<1>1. ASSUME LedgerInv, [Next]_vars, status = "STOPPING"
      PROVE  Final
  <2>1. mcash \in Nat /\ Open
    BY <1>1 DEF LedgerInv, TypeOK, Open
  <2>2. ASSUME NEW k \in Keys, NEW c \in Codes, NEW q \in Quantities, NEW p \in Prices,
               \/ ManualBuy(k, c, q, p)
               \/ KiashaBuy(k, c, q, p)
               \/ ManualSell(k, c, q, p)
               \/ KiashaSell(k, c, q, p)
        PROVE  Final
    <3>1. q * p \in Nat
      BY CostPositive
    <3>2. ~KiashaBuy(k, c, q, p)
      BY <1>1 DEF KiashaBuy
    <3>3. CASE ManualBuy(k, c, q, p) \/ ManualSell(k, c, q, p)
      BY <1>1, <2>1, <3>3 DEF ManualBuy, ManualSell, mandate, book
    <3>4. CASE KiashaSell(k, c, q, p)
      BY <1>1, <2>1, <3>1, <3>4 DEF KiashaSell, mandate
    <3> QED
      BY <2>2, <3>2, <3>3, <3>4
  <2>3. CASE Fill
    BY <2>2, <2>3 DEF Fill
  <2>4. CASE Delegate
    BY <1>1, <2>1, <2>4
       DEF Delegate, ReadCash, RefuseMandate, CreateMandate, mandate, book
  <2>5. CASE RequestStop \/ CompleteIfFlat
    BY <1>1, <2>1, <2>5 DEF RequestStop, CompleteIfFlat, MandateFlat, book
  <2>6. CASE NewDay \/ UNCHANGED vars
    BY <1>1, <2>1, <2>6 DEF NewDay, vars, mandate, book
  <2> QED
    BY <1>1, <2>3, <2>4, <2>5, <2>6 DEF Next
<1>2. LedgerInv /\ [Next]_vars => [status = "STOPPING" => Final]_vars
  BY <1>1
<1> QED
  BY LedgerInvariant, <1>2, PTL DEF Spec, StopIsFinal

\* Once the realized losses of the day reach the limit, no BUY of either side
\* spends cash before midnight (commit_buy_fill).
THEOREM BreakerKept == Spec => LossBreakerHolds
<1>1. ASSUME LedgerInv, [Next]_vars, loss >= MaxDailyLoss, day' = day
      PROVE  cash' >= cash
  <2>1. cash \in Nat /\ loss \in Nat /\ MaxDailyLoss \in Nat
    BY <1>1, LedgerAssumption DEF LedgerInv, TypeOK
  <2>2. ASSUME NEW k \in Keys, NEW c \in Codes, NEW q \in Quantities, NEW p \in Prices,
               \/ ManualBuy(k, c, q, p)
               \/ KiashaBuy(k, c, q, p)
               \/ ManualSell(k, c, q, p)
               \/ KiashaSell(k, c, q, p)
        PROVE  cash' >= cash
    <3>1. q * p \in Nat
      BY CostPositive
    <3>2. ~ManualBuy(k, c, q, p) /\ ~KiashaBuy(k, c, q, p)
      BY <1>1, <2>1 DEF ManualBuy, KiashaBuy, BuyAllowed
    <3> QED
      BY <2>1, <2>2, <3>1, <3>2 DEF ManualSell, KiashaSell, Post
  <2>3. CASE Fill
    BY <2>2, <2>3 DEF Fill
  <2> QED
    BY <1>1, <2>1, <2>3, OnlyFillsMoveCash DEF Next
<1>2. LedgerInv /\ [Next]_vars
        => [(loss >= MaxDailyLoss /\ day' = day) => cash' >= cash]_vars
  BY <1>1
<1> QED
  BY LedgerInvariant, <1>2, PTL DEF Spec, LossBreakerHolds

------------------------------------------------------------------------------
(***************************************************************************)
(* The ledger implements the two buckets of MandateBoundary.               *)
(***************************************************************************)
ManualShares == [c \in Codes |-> qty[c] - Owned[c]]

\* In a state of the ledger the buckets have the types the boundary gives them.
BucketsTyped == /\ cash - Reserved \in Int
                /\ Reserved \in Nat
                /\ ManualShares \in [Codes -> Nat]
                /\ Owned \in [Codes -> Nat]

\* The two buckets are amounts of cash and quantities of shares.
LEMMA BucketTypes == LedgerInv => BucketsTyped
<1> SUFFICES ASSUME LedgerInv
             PROVE  BucketsTyped
  OBVIOUS
<1>1. Reserved \in Nat /\ Owned \in [Codes -> Nat]
  BY DEF LedgerInv, TypeOK, Reserved, Owned, Flat
<1>2. ASSUME NEW c \in Codes
      PROVE  qty[c] - Owned[c] \in Nat
  <2>1. qty[c] \in Nat /\ Owned[c] \in Nat
    BY <1>1 DEF LedgerInv, TypeOK
  <2>2. Owned[c] <= qty[c]
    BY <2>1 DEF LedgerInv, KiashaSharesBacked, TypeOK, Owned, Flat
  <2> QED
    BY <2>1, <2>2
<1>3. cash - Reserved \in Int
  BY <1>1 DEF LedgerInv, TypeOK
<1> QED
  BY <1>1, <1>2, <1>3 DEF BucketsTyped, ManualShares

\* A new account is two buckets, all of it in the user's.
LEMMA BoundaryInit == Init => Boundary!Init
  BY LedgerAssumption
     DEF Init, Boundary!Init, Boundary!Flat, Flat, Reserved, Owned, Open

\* A manual fill is a trade in the user's bucket.
LEMMA ManualFillKeepsBoundary ==
  ASSUME LedgerInv, LedgerInv', NEW k \in Keys, NEW c \in Codes,
         NEW q \in Quantities, NEW p \in Prices,
         ManualBuy(k, c, q, p) \/ ManualSell(k, c, q, p)
  PROVE  Boundary!ManualTrade
<1>1. q * p \in Nat /\ q * p > 0
  BY CostPositive
<1>2. UNCHANGED <<Reserved, Owned>>
  BY DEF ManualBuy, ManualSell, Reserved, Owned, Open, mandate, book, Flat
<1>3. BucketsTyped /\ BucketsTyped'
  BY BucketTypes, PTL
<1>4. cash \in Int /\ Reserved \in Nat
  BY <1>3 DEF LedgerInv, TypeOK, BucketsTyped
<1>5. (cash - Reserved)' < cash - Reserved => (cash - Reserved)' >= 0
  <2>1. CASE ManualBuy(k, c, q, p)
    BY <1>1, <1>2, <1>4, <2>1 DEF ManualBuy, Available, Post
  <2>2. CASE ManualSell(k, c, q, p)
    BY <1>1, <1>2, <1>4, <2>2 DEF ManualSell, Post
  <2> QED
    BY <2>1, <2>2
<1> QED
  BY <1>2, <1>3, <1>5 DEF Boundary!ManualTrade, ManualShares, BucketsTyped

\* A fill of Kiasha's is a trade in Kiasha's bucket.
LEMMA KiashaFillKeepsBoundary ==
  ASSUME LedgerInv, LedgerInv', NEW k \in Keys, NEW c \in Codes,
         NEW q \in Quantities, NEW p \in Prices,
         KiashaBuy(k, c, q, p) \/ KiashaSell(k, c, q, p)
  PROVE  Boundary!KiashaTrade
<1>1. q * p \in Nat
  BY CostPositive
<1>2. q \in Nat
  BY LedgerAssumption
<1>3. Open /\ Open'
  BY DEF KiashaBuy, KiashaSell, Open, mandate
<1>4. Reserved = mcash /\ Reserved' = mcash' /\ Owned = mqty /\ Owned' = mqty'
  BY <1>3 DEF Reserved, Owned
<1>5. BucketsTyped'
  BY BucketTypes, PTL
<1>6. cash \in Nat /\ mcash \in Nat /\ cash' \in Nat /\ mcash' \in Nat
  BY DEF LedgerInv, TypeOK
<1>7. /\ cash' - mcash' = cash - mcash
      /\ cash - mcash + mcash' = cash'
  <2> DEFINE amount == q * p
  <2>1. amount \in Nat
    BY <1>1
  <2>2. \/ cash' = cash + (-amount) /\ mcash' = mcash - amount
        \/ cash' = cash + amount /\ mcash' = mcash + amount
    BY DEF KiashaBuy, KiashaSell, Post
  <2> HIDE DEF amount
  <2>3. CASE cash' = cash + (-amount) /\ mcash' = mcash - amount
    BY <1>6, <2>1, <2>3
  <2>4. CASE cash' = cash + amount /\ mcash' = mcash + amount
    BY <1>6, <2>1, <2>4
  <2> QED
    BY <2>2, <2>3, <2>4
<1>8. \A x \in Codes : qty'[x] - mqty'[x] = qty[x] - mqty[x]
  <2>1. CASE KiashaBuy(k, c, q, p)
    BY <1>2, <2>1 DEF KiashaBuy, Post, LedgerInv, TypeOK
  <2>2. CASE KiashaSell(k, c, q, p)
    BY <1>2, <2>2 DEF KiashaSell, Post, LedgerInv, TypeOK
  <2> QED
    BY <2>1, <2>2
<1>9. (cash - Reserved)' = cash - Reserved /\ ManualShares' = ManualShares
  BY <1>4, <1>7, <1>8 DEF ManualShares
<1>10. cash - Reserved + Reserved' = cash'
  BY <1>4, <1>7, Zenon
<1>11. cash - Reserved + Reserved' >= 0
  BY <1>6, <1>10
<1> QED
  BY <1>5, <1>9, <1>11 DEF Boundary!KiashaTrade, ManualShares, BucketsTyped

\* Creating a mandate transfers cash; the rest of a request is invisible.
LEMMA DelegateKeepsBoundary ==
  ASSUME LedgerInv, LedgerInv', Delegate
  PROVE  [Boundary!Next]_(Boundary!buckets)
<1>1. PICK r \in Requests :
        \/ ReadCash(r)
        \/ \E a \in Allocations :
             RefuseMandate(r, a) \/ \E d \in Durations : CreateMandate(r, a, d)
  BY DEF Delegate
<1>2. CASE ReadCash(r) \/ \E a \in Allocations : RefuseMandate(r, a)
  BY <1>2 DEF ReadCash, RefuseMandate, Boundary!buckets, Reserved, Owned, Open, Flat,
              account, mandate, book
<1>3. CASE \E a \in Allocations, d \in Durations : CreateMandate(r, a, d)
  <2>1. PICK a \in Allocations, d \in Durations : CreateMandate(r, a, d)
    BY <1>3
  <2>2. /\ ~Open /\ Open'
        /\ UNCHANGED <<cash, qty>>
        /\ mcash' = a /\ mqty' = Flat
    BY <2>1 DEF CreateMandate, account, Open
  <2>3. Reserved = 0 /\ Reserved' = a /\ Owned = Flat /\ Owned' = Flat
    BY <2>2 DEF Reserved, Owned
  <2>4. a \in Nat /\ cash \in Int
    BY LedgerAssumption DEF LedgerInv, TypeOK
  <2>5. (cash - Reserved)' = cash - Reserved + Reserved - Reserved'
    BY <2>2, <2>3, <2>4
  <2>6. ManualShares' = ManualShares
    BY <2>2, <2>3 DEF ManualShares
  <2>7. Boundary!Transfer
    BY <2>3, <2>4, <2>5, <2>6 DEF Boundary!Transfer, Boundary!Flat, Flat, ManualShares
  <2> QED
    BY <2>7 DEF Boundary!Next
<1> QED
  BY <1>1, <1>2, <1>3

\* Closing a flat mandate transfers its cash back.
LEMMA CloseKeepsBoundary ==
  ASSUME LedgerInv, CompleteIfFlat
  PROVE  Boundary!Transfer
<1>1. Open /\ ~Open' /\ mqty = Flat /\ UNCHANGED <<cash, qty, mcash, mqty>>
  BY DEF CompleteIfFlat, MandateFlat, Open, account, book
<1>2. Reserved = mcash /\ Reserved' = 0 /\ Owned = Flat /\ Owned' = Flat
  BY <1>1 DEF Reserved, Owned
<1>3. cash \in Int /\ mcash \in Int
  BY DEF LedgerInv, TypeOK
<1>4. (cash - Reserved)' = cash - Reserved + Reserved - Reserved'
  BY <1>1, <1>2, <1>3
<1>5. ManualShares' = ManualShares
  BY <1>1, <1>2 DEF ManualShares
<1> QED
  BY <1>2, <1>4, <1>5 DEF Boundary!Transfer, Boundary!Flat, Flat, ManualShares

\* Every step of the ledger is a trade of one side, a transfer between the
\* buckets, or a stutter.
LEMMA BoundaryStep ==
  ASSUME LedgerInv, LedgerInv', [Next]_vars
  PROVE  [Boundary!Next]_(Boundary!buckets)
<1>1. CASE Fill
  BY <1>1, ManualFillKeepsBoundary, KiashaFillKeepsBoundary DEF Fill, Boundary!Next
<1>2. CASE Delegate
  BY <1>2, DelegateKeepsBoundary
<1>3. CASE CompleteIfFlat
  BY <1>3, CloseKeepsBoundary DEF Boundary!Next
<1>4. CASE RequestStop \/ NewDay \/ UNCHANGED vars
  BY <1>4 DEF RequestStop, NewDay, vars, Boundary!buckets, Reserved, Owned, Open,
              Flat, account, mandate, book
<1> QED
  BY <1>1, <1>2, <1>3, <1>4 DEF Next

\* The account is two buckets: no trade of the user's touches what is
\* Kiasha's, no trade of Kiasha's touches what is the user's, and capital
\* moves between them only when Kiasha holds no share.
THEOREM LedgerRefinesBoundary == Spec => BoundaryKept
<1>1. LedgerInv /\ LedgerInv' /\ [Next]_vars => [Boundary!Next]_(Boundary!buckets)
  BY BoundaryStep
<1> QED
  BY LedgerInvariant, BoundaryInit, <1>1, PTL DEF Spec, BoundaryKept, Boundary!Spec

------------------------------------------------------------------------------
(***************************************************************************)
(* Money is accounted for.                                                 *)
(***************************************************************************)

\* The cash every key has moved.
LEMMA CashTotal == CashConservation <=> cash = InitialCash + Total(response, Keys)
  BY DEF CashConservation, Total

\* A fill answers a key that had no response with the cash it moves.
LEMMA PostMovesOnce ==
  ASSUME TypeOK, NEW k \in Keys, Unanswered(k), NEW c, NEW shares, NEW delta \in Int,
         Post(k, c, shares, delta), CashConservation
  PROVE  CashConservation'
<1>1. IsFiniteSet(Keys)
  BY LedgerAssumption DEF LedgerAssumption
<1>2. /\ \A x \in Keys : response[x] \in Int /\ response'[x] \in Int
      /\ response[k] = 0 /\ response'[k] = delta
      /\ \A x \in Keys : x # k => response'[x] = response[x]
  BY DEF TypeOK, Post, Unanswered, NoResponse
<1>3. Total(response', Keys) = Total(response, Keys) + delta
  <2> DEFINE after == response'
  <2>1. /\ \A x \in Keys : response[x] \in Int /\ after[x] \in Int
        /\ \A x \in Keys : x # k => after[x] = response[x]
    BY <1>2
  <2> HIDE DEF after
  <2>2. Total(after, Keys) = Total(response, Keys) + (after[k] - response[k])
    BY <1>1, <2>1, TotalChanges
  <2> QED
    BY <1>2, <2>2 DEF after
<1>4. Total(response, Keys) \in Int
  BY <1>1, <1>2, TotalOf
<1>5. cash = InitialCash + Total(response, Keys) /\ cash' = cash + delta
  BY CashTotal DEF Post
<1>6. cash' = InitialCash + Total(response', Keys)
  BY <1>3, <1>4, <1>5, LedgerAssumption DEF LedgerAssumption
<1>7. (CashConservation <=> cash = InitialCash + Total(response, Keys))'
  BY CashTotal, PTL
<1> QED
  BY <1>6, <1>7

\* The balance is the opening cash and what every answered key moved, once, for
\* any number of keys: no retry of a fill is debited or credited again.
THEOREM CashConserved == Spec => []CashConservation
<1>1. Init => CashConservation
  <2> SUFFICES ASSUME Init
               PROVE  CashConservation
    OBVIOUS
  <2>1. IsFiniteSet(Keys) /\ \A k \in Keys : response[k] = 0
    BY LedgerAssumption DEF LedgerAssumption, Init, NoResponse
  <2>2. Total(response, Keys) = 0
    BY <2>1, TotalZero
  <2>3. cash = InitialCash + Total(response, Keys)
    BY <2>2, LedgerAssumption DEF Init, LedgerAssumption
  <2> QED
    BY <2>3, CashTotal
<1>2. LedgerInv /\ CashConservation /\ [Next]_vars => CashConservation'
  <2> SUFFICES ASSUME LedgerInv, CashConservation, [Next]_vars
               PROVE  CashConservation'
    OBVIOUS
  <2>1. ASSUME NEW k \in Keys, NEW c \in Codes, NEW q \in Quantities, NEW p \in Prices,
               \/ ManualBuy(k, c, q, p)
               \/ KiashaBuy(k, c, q, p)
               \/ ManualSell(k, c, q, p)
               \/ KiashaSell(k, c, q, p)
        PROVE  CashConservation'
    <3>1. q * p \in Int /\ -(q * p) \in Int
      BY CostPositive
    <3>2. Unanswered(k) /\ \E shares : Post(k, c, shares, q * p) \/ Post(k, c, shares, -(q * p))
      BY <2>1 DEF ManualBuy, KiashaBuy, ManualSell, KiashaSell
    <3> QED
      BY <3>1, <3>2, PostMovesOnce DEF LedgerInv
  <2>2. CASE UNCHANGED account
    <3>1. UNCHANGED <<cash, response>>
      BY <2>2 DEF account
    <3>2. (CashConservation <=> cash = InitialCash + Total(response, Keys))'
      BY CashTotal, PTL
    <3>3. cash = InitialCash + Total(response, Keys)
      BY CashTotal
    <3> QED
      BY <3>1, <3>2, <3>3
  <2> QED
    BY <2>1, <2>2 DEF Next, Fill, Delegate, ReadCash, RefuseMandate, CreateMandate, RequestStop,
                      CompleteIfFlat, NewDay, vars
<1> QED
  BY <1>1, <1>2, LedgerInvariant, PTL DEF Spec

\* The mandate's positions at cost.
AtCost == [c \in Codes |-> mqty[c] * mavg[c]]

\* The money of the mandate's record.
LEMMA EquityTotal ==
  ASSUME TypeOK
  PROVE  /\ MandateEquityIdentity <=> mcash + Total(AtCost, Codes) = allocated + mreal
         /\ Total(AtCost, Codes) \in Int
         /\ \A c \in Codes : AtCost[c] \in Int
<1>1. MapThenSumSet(LAMBDA c : mqty[c] * mavg[c], Codes) = Total(AtCost, Codes)
  BY ZenonT(40) DEF Total, AtCost, MapThenSumSet, MapThenFoldSet
<1>2. \A c \in Codes : mqty[c] \in Int /\ mavg[c] \in Int
  BY DEF TypeOK
<1>3. \A c \in Codes : AtCost[c] \in Int
  BY <1>2 DEF AtCost
<1>4. Total(AtCost, Codes) \in Int
  BY <1>3, TotalOf, LedgerAssumption DEF LedgerAssumption
<1> QED
  BY <1>1, <1>3, <1>4 DEF MandateEquityIdentity

\* No average cost is rounded.  The code keeps it in a REAL column; here money
\* is whole, and \div may lose what a later SELL realizes.
Exact(c, q, p) == NewAverage(c, q, q * p) * (mqty[c] + q) = mqty[c] * mavg[c] + q * p

AveragesExact ==
  [][\A k \in Keys, c \in Codes, q \in Quantities, p \in Prices : KiashaBuy(k, c, q, p) => Exact(c, q, p)]_vars

\* A fill of Kiasha's that changes a position at cost by what its cash and its
\* result change.
LEMMA FillKeepsEquity ==
  ASSUME TypeOK, TypeOK', MandateEquityIdentity, NEW c \in Codes,
         NEW cost \in Int, NEW paid \in Int, NEW gain \in Int, paid + gain = cost,
         mqty'[c] * mavg'[c] = mqty[c] * mavg[c] + cost,
         \A x \in Codes : x # c => mqty'[x] = mqty[x] /\ mavg'[x] = mavg[x],
         mcash' = mcash - paid, mreal' = mreal + gain, allocated' = allocated
  PROVE  MandateEquityIdentity'
<1> DEFINE after == AtCost'
           before == AtCost
<1>1. IsFiniteSet(Codes)
  BY LedgerAssumption DEF LedgerAssumption
<1>2. /\ mcash + Total(before, Codes) = allocated + mreal
      /\ Total(before, Codes) \in Int
      /\ \A x \in Codes : before[x] \in Int
  BY EquityTotal
<1>3. (MandateEquityIdentity <=> mcash + Total(AtCost, Codes) = allocated + mreal)'
  <2>1. (TypeOK => (MandateEquityIdentity <=> mcash + Total(AtCost, Codes) = allocated + mreal))'
    BY EquityTotal, PTL
  <2> QED
    BY <2>1
<1>4. after[c] = before[c] + cost /\ \A x \in Codes : x # c => after[x] = before[x]
  BY DEF AtCost
<1>5. \A x \in Codes : before[x] \in Int /\ after[x] \in Int
  <2>1. \A x \in Codes : mqty'[x] \in Int /\ mavg'[x] \in Int
    BY DEF TypeOK
  <2>2. \A x \in Codes : after[x] \in Int
    BY <2>1 DEF AtCost
  <2> QED
    BY <1>2, <2>2
<1>6. mcash' + Total(after, Codes) = allocated' + mreal' => MandateEquityIdentity'
  BY <1>3
<1> HIDE DEF after, before
<1>7. Total(after, Codes) = Total(before, Codes) + (after[c] - before[c])
  BY <1>1, <1>4, <1>5, TotalChanges
<1>8. Total(after, Codes) = Total(before, Codes) + cost
  BY <1>2, <1>4, <1>5, <1>7
<1>9. mcash \in Int /\ mreal \in Int /\ allocated \in Int
  BY DEF TypeOK
<1> QED
  BY <1>2, <1>6, <1>8, <1>9

\* A mandate's cash and its positions at cost are always its allocation and what
\* it has realized, for any number of symbols and fills, as long as no average
\* is rounded.
THEOREM EquityIdentity == Spec /\ AveragesExact => []MandateEquityIdentity
<1> DEFINE E == \A k \in Keys, c \in Codes, q \in Quantities, p \in Prices :
                  KiashaBuy(k, c, q, p) => Exact(c, q, p)
<1>1. Init => MandateEquityIdentity
  <2> SUFFICES ASSUME Init
               PROVE  MandateEquityIdentity
    OBVIOUS
  <2>1. TypeOK
    BY InitInv DEF LedgerInv
  <2>2. \A c \in Codes : AtCost[c] = 0
    BY DEF Init, Flat, AtCost
  <2>3. Total(AtCost, Codes) = 0
    BY <2>2, TotalZero, LedgerAssumption DEF LedgerAssumption
  <2>4. mcash + Total(AtCost, Codes) = allocated + mreal
    BY <2>3 DEF Init
  <2> QED
    BY <2>1, <2>4, EquityTotal
<1>2. LedgerInv /\ MandateEquityIdentity /\ [Next]_vars /\ [E]_vars => MandateEquityIdentity'
  <2> SUFFICES ASSUME LedgerInv, MandateEquityIdentity, [Next]_vars, [E]_vars
               PROVE  MandateEquityIdentity'
    OBVIOUS
  <2>0. TypeOK /\ TypeOK'
    BY NextInv DEF LedgerInv
  <2>1. ASSUME NEW k \in Keys, NEW c \in Codes, NEW q \in Quantities, NEW p \in Prices, KiashaBuy(k, c, q, p)
        PROVE  MandateEquityIdentity'
    <3> DEFINE cost == q * p
               average == NewAverage(c, q, q * p)
    <3>1. cost \in Int /\ cost > 0 /\ q \in Nat /\ average \in Int
      BY <2>0, CostPositive, NewAverageType, LedgerAssumption DEF LedgerAssumption
    <3>2. cash' # cash
      BY <2>0, <2>1, <3>1 DEF KiashaBuy, Post, TypeOK
    <3>3. Exact(c, q, p)
      BY <2>1, <3>2 DEF vars, account
    <3>4. average * (mqty[c] + q) = mqty[c] * mavg[c] + cost
      BY <3>3 DEF Exact
    <3>5. /\ mcash' = mcash - cost /\ mreal' = mreal + 0 /\ allocated' = allocated
          /\ mqty' = [mqty EXCEPT ![c] = @ + q]
          /\ mavg' = [mavg EXCEPT ![c] = average]
      BY <2>0, <2>1 DEF KiashaBuy, mandate, TypeOK
    <3> HIDE DEF cost, average
    <3>6. /\ mqty'[c] = mqty[c] + q /\ mavg'[c] = average
          /\ \A x \in Codes : x # c => mqty'[x] = mqty[x] /\ mavg'[x] = mavg[x]
      BY <2>0, <3>5 DEF TypeOK
    <3>7. (mqty[c] + q) * average = average * (mqty[c] + q)
      BY <2>0, <3>1 DEF TypeOK
    <3>8. mqty'[c] * mavg'[c] = mqty[c] * mavg[c] + cost
      BY <3>4, <3>6, <3>7
    <3>9. cost + 0 = cost
      BY <3>1
    <3> QED
      BY <2>0, <3>1, <3>5, <3>6, <3>8, <3>9, FillKeepsEquity
  <2>2. ASSUME NEW k \in Keys, NEW c \in Codes, NEW q \in Quantities, NEW p \in Prices, KiashaSell(k, c, q, p)
        PROVE  MandateEquityIdentity'
    <3> DEFINE proceeds == q * p
               realized == q * (p - mavg[c])
               basis == q * mavg[c]
    <3>1. /\ q \in Nat /\ p \in Nat /\ mavg[c] \in Int /\ mqty[c] \in Nat
          /\ proceeds \in Int /\ realized \in Int /\ basis \in Int
      <4>1. q \in Nat /\ p \in Nat /\ mavg[c] \in Int /\ mqty[c] \in Nat
        BY <2>0, LedgerAssumption DEF TypeOK, LedgerAssumption
      <4> QED
        BY <2>0, <4>1, CostPositive, RealizedType
    <3>2. realized = proceeds - basis
      BY <3>1
    <3>3. (mqty[c] - q) * mavg[c] = mqty[c] * mavg[c] - basis
      BY <3>1
    <3>4. /\ mcash' = mcash + proceeds /\ mreal' = mreal + realized /\ allocated' = allocated
          /\ mqty' = [mqty EXCEPT ![c] = @ - q]
          /\ mavg' = [mavg EXCEPT ![c] = IF mqty[c] = q THEN 0 ELSE @]
      BY <2>2 DEF KiashaSell, mandate
    <3> HIDE DEF proceeds, realized, basis
    <3>5. /\ mqty'[c] = mqty[c] - q /\ mavg'[c] = IF mqty[c] = q THEN 0 ELSE mavg[c]
          /\ \A x \in Codes : x # c => mqty'[x] = mqty[x] /\ mavg'[x] = mavg[x]
      BY <2>0, <3>4 DEF TypeOK
    <3>6. mqty'[c] * mavg'[c] = (mqty[c] - q) * mavg[c]
      <4>1. CASE mqty[c] = q
        <5>1. mqty[c] - q = 0
          BY <3>1, <4>1
        <5> QED
          BY <3>1, <3>5, <4>1, <5>1
      <4>2. CASE mqty[c] # q
        BY <3>5, <4>2
      <4> QED
        BY <4>1, <4>2
    <3>7. mqty[c] * mavg[c] \in Int
      BY <3>1
    <3>8. mqty'[c] * mavg'[c] = mqty[c] * mavg[c] + (-basis) /\ mcash' = mcash - (-proceeds)
          /\ (-proceeds) + realized = -basis
      BY <2>0, <3>1, <3>2, <3>3, <3>4, <3>6, <3>7 DEF TypeOK
    <3>9. -basis \in Int /\ -proceeds \in Int
      BY <3>1
    <3> QED
      BY <2>0, <3>1, <3>4, <3>5, <3>8, <3>9, FillKeepsEquity
  <2>3. ASSUME NEW r \in Requests, NEW a \in Allocations, NEW d \in Durations, CreateMandate(r, a, d)
        PROVE  MandateEquityIdentity'
    <3> DEFINE after == AtCost'
    <3>1. (MandateEquityIdentity <=> mcash + Total(AtCost, Codes) = allocated + mreal)'
      <4>1. (TypeOK => (MandateEquityIdentity <=> mcash + Total(AtCost, Codes) = allocated + mreal))'
        BY EquityTotal, PTL
      <4> QED
        BY <2>0, <4>1
    <3>2. \A c \in Codes : after[c] = 0
      BY <2>3 DEF CreateMandate, Flat, AtCost
    <3>3. mcash' = a /\ allocated' = a /\ mreal' = 0 /\ a \in Int
      BY <2>3, LedgerAssumption DEF CreateMandate, LedgerAssumption
    <3>4. mcash' + Total(after, Codes) = allocated' + mreal' => MandateEquityIdentity'
      BY <3>1
    <3> HIDE DEF after
    <3>5. Total(after, Codes) = 0
      BY <3>2, TotalZero, LedgerAssumption DEF LedgerAssumption
    <3> QED
      BY <3>3, <3>4, <3>5
  <2>4. CASE UNCHANGED <<allocated, book>>
    <3>1. UNCHANGED <<allocated, mcash, mqty, mavg, mreal>>
      BY <2>4 DEF book
    <3>2. (TypeOK => (MandateEquityIdentity <=> mcash + Total(AtCost, Codes) = allocated + mreal))'
      BY EquityTotal, PTL
    <3>3. AtCost' = AtCost
      BY <3>1 DEF AtCost
    <3>4. mcash + Total(AtCost, Codes) = allocated + mreal
      BY <2>0, EquityTotal
    <3> QED
      BY <2>0, <3>1, <3>2, <3>3, <3>4
  <2>5. ASSUME NEW k \in Keys, NEW c \in Codes, NEW q \in Quantities, NEW p \in Prices,
               ManualBuy(k, c, q, p) \/ ManualSell(k, c, q, p)
        PROVE  UNCHANGED <<allocated, book>>
    BY <2>5 DEF ManualBuy, ManualSell, mandate
  <2>6. CASE Delegate
    <3>1. ASSUME NEW r \in Requests, ReadCash(r) \/ \E a \in Allocations : RefuseMandate(r, a)
          PROVE  UNCHANGED <<allocated, book>>
      BY <3>1 DEF ReadCash, RefuseMandate, mandate
    <3> QED
      BY <2>3, <2>4, <2>6, <3>1 DEF Delegate
  <2>7. CASE RequestStop \/ CompleteIfFlat \/ NewDay \/ UNCHANGED vars
    <3>1. UNCHANGED <<allocated, book>>
      BY <2>7 DEF RequestStop, CompleteIfFlat, NewDay, vars, mandate
    <3> QED
      BY <2>4, <3>1
  <2>8. CASE Fill
    BY <2>1, <2>2, <2>4, <2>5, <2>8 DEF Fill
  <2> QED
    BY <2>6, <2>7, <2>8 DEF Next
<1> QED
  BY <1>1, <1>2, LedgerInvariant, PTL DEF Spec, AveragesExact
==============================================================================
