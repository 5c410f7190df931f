----------------------- MODULE AccountingLedgerProofs -----------------------
(***************************************************************************)
(* The ledger's accounts are explained by its reservations, locks and      *)
(* cost positions, for every set of commands, reservations, locks and      *)
(* tokens; and its durable owner loses no acknowledged command, shows no   *)
(* books its journal does not give, and implements a ledger that never     *)
(* crashes, whatever crashes.                                              *)
(***************************************************************************)
EXTENDS DurableLedger, FiniteSetTheorems, SequenceTheorems, TLAPS

USE DEF Collateral, NoId, Absent

Assets == Tokens \cup {Collateral}

\* Every account the handlers name is an account of the chart.
LEMMA AccountMembership ==
    /\ CashAvailable \in Accounts /\ FeeExpense \in Accounts
    /\ TradingRevenue \in Accounts /\ CostOfGoodsSold \in Accounts
    /\ CapitalContributed \in Accounts
    /\ \A r \in ReservationIds : CashReserved(r) \in Accounts
    /\ \A t \in Tokens : /\ TokenAvailable(t) \in Accounts /\ External(t) \in Accounts
                         /\ InventoryCost(t) \in Accounts
    /\ \A r \in ReservationIds, t \in Tokens : TokenReserved(r, t) \in Accounts
    /\ \A l \in LockIds, t \in Tokens : LockedToken(l, t) \in Accounts
    /\ \A l \in LockIds : LockedCost(l) \in Accounts
  BY DEF Accounts

\* Accounts of different kinds, or of different owners, are different.
LEMMA AccountIdentity ==
    /\ CashAvailable[1] = "CashAvailable" /\ FeeExpense[1] = "FeeExpense"
    /\ TradingRevenue[1] = "TradingRevenue" /\ CostOfGoodsSold[1] = "CostOfGoodsSold"
    /\ CapitalContributed[1] = "CapitalContributed"
    /\ \A x : CashReserved(x)[1] = "CashReserved" /\ CashReserved(x)[2] = x
    /\ \A x : TokenAvailable(x)[1] = "TokenAvailable" /\ TokenAvailable(x)[3] = x
    /\ \A x, y : /\ TokenReserved(x, y)[1] = "TokenReserved"
                 /\ TokenReserved(x, y)[2] = x /\ TokenReserved(x, y)[3] = y
    /\ \A x : InventoryCost(x)[1] = "InventoryCost" /\ InventoryCost(x)[2] = x
    /\ \A x, y : /\ LockedToken(x, y)[1] = "LockedToken"
                 /\ LockedToken(x, y)[2] = x /\ LockedToken(x, y)[3] = y
    /\ \A x : LockedCost(x)[1] = "LockedCost" /\ LockedCost(x)[2] = x
    /\ \A x : External(x)[1] = "External" /\ External(x)[3] = x
  BY DEF CashAvailable, FeeExpense, TradingRevenue, CostOfGoodsSold, CapitalContributed,
         CashReserved, TokenAvailable, TokenReserved, InventoryCost, LockedToken,
         LockedCost, External

\* The fields a command of each kind carries.
LEMMA CommandFields ==
    ASSUME NEW c \in CommandType
    PROVE  /\ c.op = "FundCollateral" => c.amount \in Int
           /\ c.op \in {"ReserveCollateral", "ReserveToken"} =>
                  c.amount \in Int /\ c.r \in ReservationIds
           /\ c.op = "ReserveToken" => c.token \in Tokens
           /\ c.op = "ReleaseReservation" => c.r \in ReservationIds
           /\ c.op = "ConfirmBuy" =>
                  /\ c.r \in ReservationIds /\ c.token \in Tokens
                  /\ c.quantity \in Int /\ c.consideration \in Int /\ c.fee \in Int
           /\ c.op = "ConfirmSell" =>
                  /\ c.r \in ReservationIds
                  /\ c.quantity \in Int /\ c.gross \in Int /\ c.fee \in Int
           /\ c.op = "LockPair" =>
                  /\ c.l \in LockIds /\ c.up \in Tokens /\ c.down \in Tokens
                  /\ c.quantity \in Int
           /\ c.op = "ConfirmMerge" => c.l \in LockIds
           /\ c.op = "ConfirmSplit" =>
                  /\ c.r \in ReservationIds /\ c.up \in Tokens /\ c.down \in Tokens
                  /\ c.quantity \in Int
           /\ c.op = "ConfirmRedemption" =>
                  c.r \in ReservationIds /\ c.quantity \in Int /\ c.payout \in Int
  BY DEF CommandType

\* Posting a transaction changes every account by its delta and overdraws none.
LEMMA PostEffect ==
    ASSUME balances \in [Accounts -> Int], NEW txn \in [Accounts -> Int],
           CanPost(txn), Post(txn)
    PROVE  /\ balances' \in [Accounts -> Int]
           /\ \A a \in Accounts : balances'[a] = balances[a] + txn[a]
           /\ NoOverdraft => NoOverdraft'
  BY DEF CanPost, Post, NoOverdraft

\* What a disposal takes from the cost of a position is an integer.
LEMMA AllocateCostType ==
    ASSUME costs \in [Tokens -> [quantity : Int, cost : Int]],
           NEW t \in Tokens, NEW q \in Int, CanAllocate(t, q)
    PROVE  AllocateCost(t, q) \in Int
  BY DEF CanAllocate, AllocateCost

(***************************************************************************)
(* Where each transaction posts: what it does to the accounts of the       *)
(* reservations, of the locks and of the inventory cost.                   *)
(***************************************************************************)
ReservedMove(txn, r, asset, delta) ==
    \A q \in ReservationIds, s \in Assets :
        txn[ReservedAccount(q, s)] = IF q = r /\ s = asset THEN delta ELSE 0
NoReservedMove(txn) ==
    \A q \in ReservationIds, s \in Assets : txn[ReservedAccount(q, s)] = 0
NoLockMove(txn) ==
    \A l \in LockIds : /\ \A t \in Tokens : txn[LockedToken(l, t)] = 0
                       /\ txn[LockedCost(l)] = 0
NoCostMove(txn) == \A t \in Tokens : txn[InventoryCost(t)] = 0

LEMMA FundPostingsAt ==
    ASSUME NEW c \in CommandType, c.op = "FundCollateral"
    PROVE  LET txn == FundPostings(c)
           IN  /\ txn \in [Accounts -> Int]
               /\ NoReservedMove(txn) /\ NoLockMove(txn) /\ NoCostMove(txn)
  BY CommandFields, AccountMembership, AccountIdentity
     DEF FundPostings, NoReservedMove, NoLockMove, NoCostMove, ReservedAccount, Assets

LEMMA ReservePostingsAt ==
    ASSUME NEW c \in CommandType, c.op \in {"ReserveCollateral", "ReserveToken"}
    PROVE  LET txn == ReservePostings(c)
           IN  /\ ReservedAsset(c) \in Assets
               /\ txn \in [Accounts -> Int]
               /\ ReservedMove(txn, c.r, ReservedAsset(c), c.amount)
               /\ NoLockMove(txn) /\ NoCostMove(txn)
  BY CommandFields, AccountMembership, AccountIdentity, TokensAssumption
     DEF ReservePostings, ReservedMove, NoLockMove, NoCostMove, ReservedAccount,
         FreeAccount, ReservedAsset, Assets

LEMMA ReleasePostingsAt ==
    ASSUME NEW c \in CommandType, c.op = "ReleaseReservation",
           reservations \in [ReservationIds -> ReservationType]
    PROVE  LET txn == ReleasePostings(c)
               res == reservations[c.r]
           IN  /\ txn \in [Accounts -> Int]
               /\ ReservedMove(txn, c.r, res.asset, -res.remaining)
               /\ NoLockMove(txn) /\ NoCostMove(txn)
  <1>1. c.r \in ReservationIds /\ reservations[c.r] \in ReservationType
    BY CommandFields
  <1>2. reservations[c.r].asset \in Assets /\ reservations[c.r].remaining \in Int
    BY <1>1 DEF ReservationType, Assets
  <1> QED
    BY <1>1, <1>2, AccountMembership, AccountIdentity, TokensAssumption
       DEF ReleasePostings, ReservedMove, NoLockMove, NoCostMove, ReservedAccount,
           FreeAccount, Assets

LEMMA BuyPostingsAt ==
    ASSUME NEW c \in CommandType, c.op = "ConfirmBuy"
    PROVE  LET txn == BuyPostings(c)
           IN  /\ txn \in [Accounts -> Int]
               /\ ReservedMove(txn, c.r, Collateral, -(c.consideration + c.fee))
               /\ NoLockMove(txn)
               /\ \A t \in Tokens :
                      txn[InventoryCost(t)] = IF t = c.token THEN c.consideration ELSE 0
  BY CommandFields, AccountMembership, AccountIdentity, TokensAssumption
     DEF BuyPostings, ReservedMove, NoLockMove, ReservedAccount, Assets

LEMMA SellPostingsAt ==
    ASSUME NEW c \in CommandType, c.op = "ConfirmSell",
           NEW t \in Tokens, t = reservations[c.r].asset,
           AllocateCost(t, c.quantity) \in Int
    PROVE  LET txn == SellPostings(c)
           IN  /\ txn \in [Accounts -> Int]
               /\ ReservedMove(txn, c.r, t, -c.quantity)
               /\ NoLockMove(txn)
               /\ \A u \in Tokens : txn[InventoryCost(u)] =
                      IF u = t THEN -AllocateCost(t, c.quantity) ELSE 0
  BY CommandFields, AccountMembership, AccountIdentity, TokensAssumption
     DEF SellPostings, ReservedMove, NoLockMove, ReservedAccount, Assets

LEMMA RedemptionPostingsAt ==
    ASSUME NEW c \in CommandType, c.op = "ConfirmRedemption",
           NEW t \in Tokens, t = reservations[c.r].asset,
           AllocateCost(t, c.quantity) \in Int
    PROVE  LET txn == RedemptionPostings(c)
           IN  /\ txn \in [Accounts -> Int]
               /\ ReservedMove(txn, c.r, t, -c.quantity)
               /\ NoLockMove(txn)
               /\ \A u \in Tokens : txn[InventoryCost(u)] =
                      IF u = t THEN -AllocateCost(t, c.quantity) ELSE 0
  BY CommandFields, AccountMembership, AccountIdentity, TokensAssumption
     DEF RedemptionPostings, ReservedMove, NoLockMove, ReservedAccount, Assets

LEMMA SplitPostingsAt ==
    ASSUME NEW c \in CommandType, c.op = "ConfirmSplit", c.up # c.down
    PROVE  LET txn == SplitPostings(c)
           IN  /\ UpCost(c) \in Int /\ DownCost(c) \in Int
               /\ txn \in [Accounts -> Int]
               /\ ReservedMove(txn, c.r, Collateral, -c.quantity)
               /\ NoLockMove(txn)
               /\ \A u \in Tokens : txn[InventoryCost(u)] =
                      IF u = c.up THEN UpCost(c) ELSE IF u = c.down THEN DownCost(c) ELSE 0
  <1>1. UpCost(c) \in Int /\ DownCost(c) \in Int
    BY CommandFields DEF UpCost, DownCost
  <1> QED
    BY <1>1, CommandFields, AccountMembership, AccountIdentity, TokensAssumption
       DEF SplitPostings, ReservedMove, NoLockMove, ReservedAccount, Assets

LEMMA LockPostingsAt ==
    ASSUME NEW c \in CommandType, c.op = "LockPair", c.up # c.down,
           AllocateCost(c.up, c.quantity) \in Int, AllocateCost(c.down, c.quantity) \in Int
    PROVE  LET txn == LockPostings(c)
               upCost == AllocateCost(c.up, c.quantity)
               downCost == AllocateCost(c.down, c.quantity)
           IN  /\ txn \in [Accounts -> Int]
               /\ NoReservedMove(txn)
               /\ \A l \in LockIds :
                      /\ txn[LockedCost(l)] = IF l = c.l THEN upCost + downCost ELSE 0
                      /\ \A t \in Tokens : txn[LockedToken(l, t)] =
                             IF l = c.l /\ t \in {c.up, c.down} THEN c.quantity ELSE 0
               /\ \A u \in Tokens : txn[InventoryCost(u)] =
                      IF u = c.up THEN -upCost ELSE IF u = c.down THEN -downCost ELSE 0
  BY CommandFields, AccountMembership, AccountIdentity, TokensAssumption
     DEF LockPostings, NoReservedMove, ReservedAccount, Assets

LEMMA MergePostingsAt ==
    ASSUME NEW c \in CommandType, c.op = "ConfirmMerge",
           locks \in [LockIds -> LockType]
    PROVE  LET txn == MergePostings(c)
               lock == locks[c.l]
           IN  /\ txn \in [Accounts -> Int]
               /\ NoReservedMove(txn) /\ NoCostMove(txn)
               /\ \A l \in LockIds :
                      /\ txn[LockedCost(l)] = IF l = c.l THEN -lock.cost ELSE 0
                      /\ \A t \in Tokens : txn[LockedToken(l, t)] =
                             IF l = c.l /\ t \in {lock.up, lock.down} THEN -lock.quantity ELSE 0
  <1>1. c.l \in LockIds /\ locks[c.l] \in LockType
    BY CommandFields
  <1>2. /\ locks[c.l].up \in Tokens /\ locks[c.l].down \in Tokens
        /\ locks[c.l].quantity \in Int /\ locks[c.l].cost \in Int /\ locks[c.l].payout \in Int
    BY <1>1 DEF LockType
  <1> QED
    BY <1>1, <1>2, AccountMembership, AccountIdentity, TokensAssumption
       DEF MergePostings, NoReservedMove, NoCostMove, ReservedAccount, Assets

-----------------------------------------------------------------------------
(***************************************************************************)
(* The inductive invariant about the books: one lemma per handler.         *)
(***************************************************************************)
BooksType ==
    /\ balances \in [Accounts -> Int]
    /\ reservations \in [ReservationIds -> ReservationType]
    /\ costs \in [Tokens -> [quantity : Int, cost : Int]]
    /\ locks \in [LockIds -> LockType]

BooksInv == BooksType /\ ReservationBacked /\ LockBacked /\ CostBacked /\ NoOverdraft

\* Reservations, locks or costs whose accounts are not posted to stay backed.
LEMMA UntouchedReservations ==
    ASSUME BooksInv, NEW txn \in [Accounts -> Int], CanPost(txn), Post(txn),
           NoReservedMove(txn), UNCHANGED reservations
    PROVE  ReservationBacked'
  <1>1. \A q \in ReservationIds, s \in Assets : ReservedAccount(q, s) \in Accounts
    BY AccountMembership DEF ReservedAccount, Assets
  <1>2. \A a \in Accounts : balances'[a] = balances[a] + txn[a]
    BY PostEffect DEF BooksInv, BooksType
  <1> QED
    BY <1>1, <1>2 DEF BooksInv, BooksType, ReservationBacked, NoReservedMove,
       ActiveReservation, Assets

LEMMA UntouchedLocks ==
    ASSUME BooksInv, NEW txn \in [Accounts -> Int], CanPost(txn), Post(txn),
           NoLockMove(txn), UNCHANGED locks
    PROVE  LockBacked'
  <1>1. \A a \in Accounts : balances'[a] = balances[a] + txn[a]
    BY PostEffect DEF BooksInv, BooksType
  <1> QED
    BY <1>1, AccountMembership DEF BooksInv, BooksType, LockBacked, NoLockMove

LEMMA UntouchedCosts ==
    ASSUME BooksInv, NEW txn \in [Accounts -> Int], CanPost(txn), Post(txn),
           NoCostMove(txn), UNCHANGED costs
    PROVE  CostBacked'
  <1>1. \A a \in Accounts : balances'[a] = balances[a] + txn[a]
    BY PostEffect DEF BooksInv, BooksType
  <1> QED
    BY <1>1, AccountMembership DEF BooksInv, BooksType, CostBacked, NoCostMove

\* What is left of a reservation after spending from it.
LEMMA SpentType ==
    ASSUME NEW res \in ReservationType, NEW amount \in Int
    PROVE  /\ Spent(res, amount) \in ReservationType
           /\ Spent(res, amount).asset = res.asset
           /\ Spent(res, amount).original = res.original
           /\ Spent(res, amount).remaining = res.remaining - amount
           /\ Spent(res, amount).status =
                  IF res.remaining = amount THEN "Consumed" ELSE res.status
  BY DEF ReservationType, Spent

\* Spending from an active reservation what its account is debited keeps it backed.
LEMMA ConsumedReservation ==
    ASSUME BooksInv, NEW txn \in [Accounts -> Int], CanPost(txn), Post(txn),
           NEW r \in ReservationIds, NEW amount \in Int, amount > 0,
           ActiveReservation(r), reservations[r].remaining >= amount,
           ReservedMove(txn, r, reservations[r].asset, -amount),
           ConsumeReservation(r, amount)
    PROVE  /\ reservations' \in [ReservationIds -> ReservationType]
           /\ ReservationBacked'
  <1>1. \A q \in ReservationIds, s \in Assets : ReservedAccount(q, s) \in Accounts
    BY AccountMembership DEF ReservedAccount, Assets
  <1>2. \A a \in Accounts : balances'[a] = balances[a] + txn[a]
    BY PostEffect DEF BooksInv, BooksType
  <1>3. \A q \in ReservationIds :
            /\ reservations[q].asset \in Assets /\ reservations[q].remaining \in Int
            /\ reservations[q].original \in Int
    BY DEF BooksInv, BooksType, ReservationType, Assets
  <1>4. reservations' \in [ReservationIds -> ReservationType]
    <2>1. Spent(reservations[r], amount) \in ReservationType
      BY SpentType DEF BooksInv, BooksType
    <2> QED BY <2>1 DEF BooksInv, BooksType, ConsumeReservation
  <1>5. \A q \in ReservationIds :
            /\ reservations'[q].asset = reservations[q].asset
            /\ reservations'[q].original = reservations[q].original
            /\ reservations'[q].remaining =
                   reservations[q].remaining - (IF q = r THEN amount ELSE 0)
            /\ reservations'[q].status =
                   IF q = r /\ reservations[q].remaining = amount
                   THEN "Consumed" ELSE reservations[q].status
    <2> SUFFICES ASSUME NEW q \in ReservationIds
                 PROVE  /\ reservations'[q].asset = reservations[q].asset
                        /\ reservations'[q].original = reservations[q].original
                        /\ reservations'[q].remaining =
                               reservations[q].remaining - (IF q = r THEN amount ELSE 0)
                        /\ reservations'[q].status =
                               IF q = r /\ reservations[q].remaining = amount
                               THEN "Consumed" ELSE reservations[q].status
      OBVIOUS
    <2>1. CASE q = r
      <3>1. reservations'[r] = Spent(reservations[r], amount)
        BY DEF BooksInv, BooksType, ConsumeReservation
      <3> QED BY <2>1, <3>1 DEF Spent
    <2>2. CASE q # r
      <3>1. reservations'[q] = reservations[q]
        BY <2>2 DEF BooksInv, BooksType, ConsumeReservation
      <3> QED BY <1>3, <2>2, <3>1
    <2> QED BY <2>1, <2>2
  <1>6. ASSUME NEW q \in ReservationIds, NEW s \in Assets
        PROVE  balances'[ReservedAccount(q, s)] =
                   IF reservations'[q].status = "Active" /\ reservations'[q].asset = s
                   THEN reservations'[q].remaining ELSE 0
    <2>1. balances[ReservedAccount(q, s)] =
              IF reservations[q].status = "Active" /\ reservations[q].asset = s
              THEN reservations[q].remaining ELSE 0
      BY DEF BooksInv, ReservationBacked, ActiveReservation, Assets
    <2>2. txn[ReservedAccount(q, s)] =
              IF q = r /\ s = reservations[r].asset THEN -amount ELSE 0
      BY DEF ReservedMove
    <2> QED BY <1>1, <1>2, <1>3, <1>5, <2>1, <2>2 DEF ActiveReservation
  <1>7. ASSUME NEW q \in ReservationIds, reservations'[q].status # Absent
        PROVE  /\ reservations'[q].original > 0
               /\ 0 <= reservations'[q].remaining
               /\ reservations'[q].remaining <= reservations'[q].original
    BY <1>3, <1>5, <1>7 DEF BooksInv, ReservationBacked, ActiveReservation
  <1> QED
    BY <1>4, <1>6, <1>7 DEF ReservationBacked, ActiveReservation, Assets

CostType == [Tokens -> [quantity : Int, cost : Int]]

\* add_cost and reduce_cost change the position of one token.
LEMMA CostUpdates ==
    ASSUME NEW f \in CostType, NEW t \in Tokens, NEW q \in Int, NEW k \in Int
    PROVE  /\ AddCost(f, t, q, k) \in CostType /\ ReduceCost(f, t, q, k) \in CostType
           /\ \A u \in Tokens :
                  /\ f[u].quantity \in Int /\ f[u].cost \in Int
                  /\ AddCost(f, t, q, k)[u].quantity = IF u = t THEN f[u].quantity + q
                                                                ELSE f[u].quantity
                  /\ AddCost(f, t, q, k)[u].cost = IF u = t THEN f[u].cost + k ELSE f[u].cost
                  /\ ReduceCost(f, t, q, k)[u].quantity = IF u = t THEN f[u].quantity - q
                                                                   ELSE f[u].quantity
                  /\ ReduceCost(f, t, q, k)[u].cost = IF u = t THEN f[u].cost - k
                                                               ELSE f[u].cost
  <1>1. \A u \in Tokens : f[u].quantity \in Int /\ f[u].cost \in Int
    BY DEF CostType
  <1>2. AddCost(f, t, q, k) \in CostType /\ ReduceCost(f, t, q, k) \in CostType
    BY <1>1 DEF CostType, AddCost, ReduceCost
  <1>3. ASSUME NEW u \in Tokens
        PROVE  /\ AddCost(f, t, q, k)[u] =
                      IF u = t THEN [quantity |-> f[t].quantity + q, cost |-> f[t].cost + k]
                      ELSE f[u]
               /\ ReduceCost(f, t, q, k)[u] =
                      IF u = t THEN [quantity |-> f[t].quantity - q, cost |-> f[t].cost - k]
                      ELSE f[u]
    BY DEF CostType, AddCost, ReduceCost
  <1>4. ASSUME NEW u \in Tokens
        PROVE  /\ AddCost(f, t, q, k)[u].quantity = IF u = t THEN f[u].quantity + q
                                                             ELSE f[u].quantity
               /\ AddCost(f, t, q, k)[u].cost = IF u = t THEN f[u].cost + k ELSE f[u].cost
               /\ ReduceCost(f, t, q, k)[u].quantity = IF u = t THEN f[u].quantity - q
                                                                ELSE f[u].quantity
               /\ ReduceCost(f, t, q, k)[u].cost = IF u = t THEN f[u].cost - k ELSE f[u].cost
    <2>1. CASE u = t
      BY <1>3, <2>1
    <2>2. CASE u # t
      BY <1>3, <2>2
    <2> QED BY <2>1, <2>2
  <1> QED BY <1>1, <1>2, <1>4

\* Cost positions that move with their inventory account stay backed.
LEMMA MovedCosts ==
    ASSUME BooksInv, NEW txn \in [Accounts -> Int], CanPost(txn), Post(txn),
           costs' \in CostType,
           \A u \in Tokens :
               /\ costs'[u].cost = costs[u].cost + txn[InventoryCost(u)]
               /\ costs'[u].quantity >= 0
               /\ costs'[u].quantity = 0 => costs'[u].cost = 0
    PROVE  CostBacked'
  <1>1. \A a \in Accounts : balances'[a] = balances[a] + txn[a]
    BY PostEffect DEF BooksInv, BooksType
  <1>2. NoOverdraft'
    BY PostEffect DEF BooksInv, BooksType
  <1>3. \A u \in Tokens : RequiresNonnegative(InventoryCost(u))
    BY AccountIdentity DEF RequiresNonnegative
  <1>4. \A u \in Tokens : balances'[InventoryCost(u)] = costs'[u].cost
    BY <1>1, AccountMembership DEF BooksInv, CostBacked
  <1> QED
    BY <1>2, <1>3, <1>4, AccountMembership DEF CostBacked, NoOverdraft

LEMMA FundKeepsBooks ==
    ASSUME BooksInv, NEW c \in CommandType, c.op = "FundCollateral",
           CanFund(c), FundCollateral(c)
    PROVE  BooksInv'
  <1> DEFINE txn == FundPostings(c)
  <1>1. /\ txn \in [Accounts -> Int]
        /\ NoReservedMove(txn) /\ NoLockMove(txn) /\ NoCostMove(txn)
    BY FundPostingsAt
  <1>2. CanPost(txn) /\ Post(txn) /\ UNCHANGED <<reservations, costs, locks>>
    BY DEF CanFund, FundCollateral, Valid
  <1> HIDE DEF txn
  <1>3. balances' \in [Accounts -> Int] /\ NoOverdraft'
    BY <1>1, <1>2, PostEffect DEF BooksInv, BooksType
  <1>4. BooksType'
    BY <1>2, <1>3 DEF BooksInv, BooksType
  <1>5. ReservationBacked' /\ LockBacked' /\ CostBacked'
    BY <1>1, <1>2, UntouchedReservations, UntouchedLocks, UntouchedCosts
  <1> QED BY <1>3, <1>4, <1>5 DEF BooksInv

LEMMA ReserveKeepsBooks ==
    ASSUME BooksInv, NEW c \in CommandType, c.op \in {"ReserveCollateral", "ReserveToken"},
           CanReserve(c), Reserve(c)
    PROVE  BooksInv'
  <1> DEFINE txn == ReservePostings(c)
             asset == ReservedAsset(c)
  <1>1. /\ txn \in [Accounts -> Int] /\ asset \in Assets
        /\ ReservedMove(txn, c.r, asset, c.amount) /\ NoLockMove(txn) /\ NoCostMove(txn)
    BY ReservePostingsAt
  <1>2. /\ CanPost(txn) /\ Post(txn) /\ UNCHANGED <<costs, locks>>
        /\ c.r \in ReservationIds /\ c.amount \in Int /\ c.amount > 0
        /\ reservations[c.r].status = Absent
        /\ reservations' = [reservations EXCEPT ![c.r] =
               [asset |-> asset, original |-> c.amount, remaining |-> c.amount,
                status |-> "Active"]]
    BY CommandFields DEF CanReserve, Reserve, Valid
  <1> HIDE DEF txn, asset
  <1>3. balances' \in [Accounts -> Int] /\ NoOverdraft'
    BY <1>1, <1>2, PostEffect DEF BooksInv, BooksType
  <1>4. [asset |-> asset, original |-> c.amount, remaining |-> c.amount,
         status |-> "Active"] \in ReservationType
    BY <1>1, <1>2 DEF ReservationType, Assets
  <1>5. BooksType'
    BY <1>2, <1>3, <1>4 DEF BooksInv, BooksType
  <1>6. ReservationBacked'
    <2>1. \A q \in ReservationIds, s \in Assets : ReservedAccount(q, s) \in Accounts
      BY AccountMembership DEF ReservedAccount, Assets
    <2>2. \A a \in Accounts : balances'[a] = balances[a] + txn[a]
      BY <1>1, <1>2, PostEffect DEF BooksInv, BooksType
    <2>3. ASSUME NEW q \in ReservationIds
          PROVE  reservations'[q] = IF q = c.r
                     THEN [asset |-> asset, original |-> c.amount, remaining |-> c.amount,
                           status |-> "Active"]
                     ELSE reservations[q]
      BY <1>2 DEF BooksInv, BooksType
    <2>4. ASSUME NEW q \in ReservationIds, NEW s \in Assets
          PROVE  balances'[ReservedAccount(q, s)] =
                     IF reservations'[q].status = "Active" /\ reservations'[q].asset = s
                     THEN reservations'[q].remaining ELSE 0
      <3>1. balances[ReservedAccount(q, s)] =
                IF reservations[q].status = "Active" /\ reservations[q].asset = s
                THEN reservations[q].remaining ELSE 0
        BY DEF BooksInv, ReservationBacked, ActiveReservation, Assets
      <3>2. txn[ReservedAccount(q, s)] = IF q = c.r /\ s = asset THEN c.amount ELSE 0
        BY <1>1 DEF ReservedMove
      <3>3. reservations[q].remaining \in Int
        BY DEF BooksInv, BooksType, ReservationType
      <3>4. CASE q = c.r
        BY <1>2, <2>1, <2>2, <2>3, <3>1, <3>2, <3>4
      <3>5. CASE q # c.r
        BY <2>1, <2>2, <2>3, <3>1, <3>2, <3>3, <3>5
      <3> QED BY <3>4, <3>5
    <2>5. ASSUME NEW q \in ReservationIds, reservations'[q].status # Absent
          PROVE  /\ reservations'[q].original > 0
                 /\ 0 <= reservations'[q].remaining
                 /\ reservations'[q].remaining <= reservations'[q].original
      <3>1. CASE q = c.r
        BY <1>2, <2>3, <3>1
      <3>2. CASE q # c.r
        BY <2>3, <2>5, <3>2 DEF BooksInv, ReservationBacked
      <3> QED BY <3>1, <3>2
    <2> QED BY <2>4, <2>5 DEF ReservationBacked, ActiveReservation, Assets
  <1>7. LockBacked' /\ CostBacked'
    BY <1>1, <1>2, UntouchedLocks, UntouchedCosts
  <1> QED BY <1>3, <1>5, <1>6, <1>7 DEF BooksInv

LEMMA ReleaseKeepsBooks ==
    ASSUME BooksInv, NEW c \in CommandType, c.op = "ReleaseReservation",
           CanRelease(c), Release(c)
    PROVE  BooksInv'
  <1> DEFINE txn == ReleasePostings(c)
             res == reservations[c.r]
             after == [asset |-> res.asset, original |-> res.original,
                       remaining |-> 0, status |-> "Released"]
  <1>1. /\ txn \in [Accounts -> Int]
        /\ ReservedMove(txn, c.r, res.asset, -res.remaining)
        /\ NoLockMove(txn) /\ NoCostMove(txn)
    BY ReleasePostingsAt DEF BooksInv, BooksType
  <1>2. /\ CanPost(txn) /\ Post(txn) /\ UNCHANGED <<costs, locks>>
        /\ c.r \in ReservationIds /\ res.status = "Active"
        /\ reservations' = [reservations EXCEPT ![c.r] = after]
    BY CommandFields DEF CanRelease, Release, ActiveReservation
  <1>3. balances' \in [Accounts -> Int] /\ NoOverdraft'
    BY <1>1, <1>2, PostEffect DEF BooksInv, BooksType
  <1>4. res \in ReservationType
    BY <1>2 DEF BooksInv, BooksType
  <1>5. after \in ReservationType
    BY <1>4 DEF ReservationType
  <1> HIDE DEF txn
  <1>6. BooksType'
    BY <1>2, <1>3, <1>5 DEF BooksInv, BooksType
  <1>7. ReservationBacked'
    <2>1. \A q \in ReservationIds, s \in Assets : ReservedAccount(q, s) \in Accounts
      BY AccountMembership DEF ReservedAccount, Assets
    <2>2. \A a \in Accounts : balances'[a] = balances[a] + txn[a]
      BY <1>1, <1>2, PostEffect DEF BooksInv, BooksType
    <2>3. \A q \in ReservationIds :
              reservations'[q] = IF q = c.r THEN after ELSE reservations[q]
      BY <1>2 DEF BooksInv, BooksType
    <2>4. ASSUME NEW q \in ReservationIds, NEW s \in Assets
          PROVE  balances'[ReservedAccount(q, s)] =
                     IF reservations'[q].status = "Active" /\ reservations'[q].asset = s
                     THEN reservations'[q].remaining ELSE 0
      <3>1. balances[ReservedAccount(q, s)] =
                IF reservations[q].status = "Active" /\ reservations[q].asset = s
                THEN reservations[q].remaining ELSE 0
        BY DEF BooksInv, ReservationBacked, ActiveReservation, Assets
      <3>2. txn[ReservedAccount(q, s)] =
                IF q = c.r /\ s = res.asset THEN -res.remaining ELSE 0
        BY <1>1 DEF ReservedMove
      <3>3. reservations[q].remaining \in Int
        BY DEF BooksInv, BooksType, ReservationType
      <3>4. CASE q = c.r
        BY <1>2, <2>1, <2>2, <2>3, <3>1, <3>2, <3>3, <3>4
      <3>5. CASE q # c.r
        BY <2>1, <2>2, <2>3, <3>1, <3>2, <3>3, <3>5
      <3> QED BY <3>4, <3>5
    <2>5. ASSUME NEW q \in ReservationIds, reservations'[q].status # Absent
          PROVE  /\ reservations'[q].original > 0
                 /\ 0 <= reservations'[q].remaining
                 /\ reservations'[q].remaining <= reservations'[q].original
      <3>1. CASE q = c.r
        <4>1. res.original > 0 /\ res.original \in Int
          BY <1>2, <1>4 DEF BooksInv, ReservationBacked, ReservationType
        <4> QED BY <2>3, <3>1, <4>1
      <3>2. CASE q # c.r
        BY <2>3, <2>5, <3>2 DEF BooksInv, ReservationBacked
      <3> QED BY <3>1, <3>2
    <2> QED BY <2>4, <2>5 DEF ReservationBacked, ActiveReservation, Assets
  <1>8. LockBacked' /\ CostBacked'
    BY <1>1, <1>2, UntouchedLocks, UntouchedCosts
  <1> QED BY <1>3, <1>6, <1>7, <1>8 DEF BooksInv

LEMMA BuyKeepsBooks ==
    ASSUME BooksInv, NEW c \in CommandType, c.op = "ConfirmBuy",
           CanConfirmBuy(c), ConfirmBuy(c)
    PROVE  BooksInv'
  <1> DEFINE txn == BuyPostings(c)
             total == c.consideration + c.fee
  <1>1. /\ txn \in [Accounts -> Int]
        /\ ReservedMove(txn, c.r, Collateral, -total)
        /\ NoLockMove(txn)
        /\ \A t \in Tokens :
               txn[InventoryCost(t)] = IF t = c.token THEN c.consideration ELSE 0
    BY BuyPostingsAt
  <1>2. /\ CanPost(txn) /\ Post(txn) /\ ConsumeReservation(c.r, total) /\ UNCHANGED locks
        /\ costs' = AddCost(costs, c.token, c.quantity, c.consideration)
        /\ c.r \in ReservationIds /\ c.token \in Tokens /\ c.quantity \in Int
        /\ c.consideration \in Int /\ total \in Int /\ total > 0 /\ c.quantity > 0
        /\ ActiveReservation(c.r) /\ reservations[c.r].asset = Collateral
        /\ reservations[c.r].remaining >= total
    BY CommandFields DEF CanConfirmBuy, ConfirmBuy, Valid
  <1> HIDE DEF txn, total
  <1>3. balances' \in [Accounts -> Int] /\ NoOverdraft'
    BY <1>1, <1>2, PostEffect DEF BooksInv, BooksType
  <1>4. reservations' \in [ReservationIds -> ReservationType] /\ ReservationBacked'
    BY <1>1, <1>2, ConsumedReservation
  <1>5. costs \in CostType
    BY DEF BooksInv, BooksType, CostType
  <1>6. costs' \in CostType /\ CostBacked'
    BY <1>1, <1>2, <1>5, CostUpdates, MovedCosts DEF BooksInv, CostBacked
  <1>7. LockBacked'
    BY <1>1, <1>2, UntouchedLocks
  <1> QED BY <1>2, <1>3, <1>4, <1>6, <1>7 DEF BooksInv, BooksType, CostType

\* The cost of a position whose share is taken by allocate_cost: the full
\* disposal leaves neither tokens nor cost.
LEMMA DisposalLeaves ==
    ASSUME BooksInv, NEW t \in Tokens, NEW q \in Int, CanAllocate(t, q)
    PROVE  /\ AllocateCost(t, q) \in Int
           /\ costs[t].quantity - q >= 0
           /\ costs[t].quantity - q = 0 => costs[t].cost - AllocateCost(t, q) = 0
  <1>1. costs[t].quantity \in Int /\ costs[t].cost \in Int
    BY DEF BooksInv, BooksType
  <1>2. AllocateCost(t, q) \in Int
    BY AllocateCostType DEF BooksInv, BooksType
  <1>3. q = costs[t].quantity => AllocateCost(t, q) = costs[t].cost
    BY DEF AllocateCost
  <1> QED BY <1>1, <1>2, <1>3 DEF CanAllocate

\* A disposal of one token moves its cost position with its inventory account.
LEMMA DisposedCost ==
    ASSUME BooksInv, NEW txn \in [Accounts -> Int], CanPost(txn), Post(txn),
           NEW t \in Tokens, NEW q \in Int, CanAllocate(t, q),
           costs' = ReduceCost(costs, t, q, AllocateCost(t, q)),
           \A u \in Tokens :
               txn[InventoryCost(u)] = IF u = t THEN -AllocateCost(t, q) ELSE 0
    PROVE  costs' \in CostType /\ CostBacked'
  <1> DEFINE cost == AllocateCost(t, q)
  <1>1. /\ cost \in Int /\ costs[t].quantity - q >= 0
        /\ costs[t].quantity - q = 0 => costs[t].cost - cost = 0
    BY DisposalLeaves
  <1>2. costs \in CostType
    BY DEF BooksInv, BooksType, CostType
  <1>3. /\ costs' \in CostType
        /\ \A u \in Tokens :
               /\ costs[u].quantity \in Int /\ costs[u].cost \in Int
               /\ costs'[u].quantity = IF u = t THEN costs[u].quantity - q ELSE costs[u].quantity
               /\ costs'[u].cost = IF u = t THEN costs[u].cost - cost ELSE costs[u].cost
    <2> HIDE DEF cost
    <2>1. costs' = ReduceCost(costs, t, q, cost)
      BY DEF cost
    <2> QED BY <1>1, <1>2, <2>1, CostUpdates
  <1>4. ASSUME NEW u \in Tokens
        PROVE  /\ costs'[u].cost = costs[u].cost + txn[InventoryCost(u)]
               /\ costs'[u].quantity >= 0
               /\ costs'[u].quantity = 0 => costs'[u].cost = 0
    <2> HIDE DEF cost
    <2>1. CASE u = t
      <3>1. txn[InventoryCost(u)] = -cost
        BY <2>1 DEF cost
      <3> QED BY <1>1, <1>3, <2>1, <3>1
    <2>2. CASE u # t
      <3>1. txn[InventoryCost(u)] = 0
        BY <2>2
      <3> QED BY <1>3, <2>2, <3>1 DEF BooksInv, CostBacked
    <2> QED BY <2>1, <2>2
  <1> QED BY <1>3, <1>4, MovedCosts

LEMMA SellKeepsBooks ==
    ASSUME BooksInv, NEW c \in CommandType, c.op = "ConfirmSell",
           CanConfirmSell(c), ConfirmSell(c)
    PROVE  BooksInv'
  <1> DEFINE txn == SellPostings(c)
             t == reservations[c.r].asset
             cost == AllocateCost(t, c.quantity)
  <1>1. /\ c.r \in ReservationIds /\ t \in Tokens /\ c.quantity \in Int /\ c.quantity > 0
        /\ CanPost(txn) /\ Post(txn) /\ ConsumeReservation(c.r, c.quantity)
        /\ UNCHANGED locks /\ costs' = ReduceCost(costs, t, c.quantity, cost)
        /\ ActiveReservation(c.r) /\ reservations[c.r].remaining >= c.quantity
        /\ CanAllocate(t, c.quantity)
    BY CommandFields DEF CanConfirmSell, ConfirmSell, Valid
  <1>2. /\ cost \in Int /\ costs[t].quantity - c.quantity >= 0
        /\ costs[t].quantity - c.quantity = 0 => costs[t].cost - cost = 0
    BY <1>1, DisposalLeaves
  <1>3. /\ txn \in [Accounts -> Int]
        /\ ReservedMove(txn, c.r, t, -c.quantity) /\ NoLockMove(txn)
        /\ \A u \in Tokens : txn[InventoryCost(u)] = IF u = t THEN -cost ELSE 0
    BY <1>1, <1>2, SellPostingsAt
  <1> HIDE DEF txn, cost
  <1>4. balances' \in [Accounts -> Int] /\ NoOverdraft'
    BY <1>1, <1>3, PostEffect DEF BooksInv, BooksType
  <1>5. reservations' \in [ReservationIds -> ReservationType] /\ ReservationBacked'
    BY <1>1, <1>3, ConsumedReservation
  <1>7. costs' \in CostType /\ CostBacked'
    BY <1>1, <1>3, DisposedCost DEF cost
  <1>8. LockBacked'
    BY <1>1, <1>3, UntouchedLocks
  <1> QED BY <1>1, <1>4, <1>5, <1>7, <1>8 DEF BooksInv, BooksType, CostType

LEMMA RedemptionKeepsBooks ==
    ASSUME BooksInv, NEW c \in CommandType, c.op = "ConfirmRedemption",
           CanConfirmRedemption(c), ConfirmRedemption(c)
    PROVE  BooksInv'
  <1> DEFINE txn == RedemptionPostings(c)
             t == reservations[c.r].asset
             cost == AllocateCost(t, c.quantity)
  <1>1. /\ c.r \in ReservationIds /\ t \in Tokens /\ c.quantity \in Int /\ c.quantity > 0
        /\ CanPost(txn) /\ Post(txn) /\ ConsumeReservation(c.r, c.quantity)
        /\ UNCHANGED locks /\ costs' = ReduceCost(costs, t, c.quantity, cost)
        /\ ActiveReservation(c.r) /\ reservations[c.r].remaining >= c.quantity
        /\ CanAllocate(t, c.quantity)
    BY CommandFields DEF CanConfirmRedemption, ConfirmRedemption, Valid
  <1>2. /\ cost \in Int /\ costs[t].quantity - c.quantity >= 0
        /\ costs[t].quantity - c.quantity = 0 => costs[t].cost - cost = 0
    BY <1>1, DisposalLeaves
  <1>3. /\ txn \in [Accounts -> Int]
        /\ ReservedMove(txn, c.r, t, -c.quantity) /\ NoLockMove(txn)
        /\ \A u \in Tokens : txn[InventoryCost(u)] = IF u = t THEN -cost ELSE 0
    BY <1>1, <1>2, RedemptionPostingsAt
  <1> HIDE DEF txn, cost
  <1>4. balances' \in [Accounts -> Int] /\ NoOverdraft'
    BY <1>1, <1>3, PostEffect DEF BooksInv, BooksType
  <1>5. reservations' \in [ReservationIds -> ReservationType] /\ ReservationBacked'
    BY <1>1, <1>3, ConsumedReservation
  <1>7. costs' \in CostType /\ CostBacked'
    BY <1>1, <1>3, DisposedCost DEF cost
  <1>8. LockBacked'
    BY <1>1, <1>3, UntouchedLocks
  <1> QED BY <1>1, <1>4, <1>5, <1>7, <1>8 DEF BooksInv, BooksType, CostType

LEMMA SplitKeepsBooks ==
    ASSUME BooksInv, NEW c \in CommandType, c.op = "ConfirmSplit",
           CanConfirmSplit(c), ConfirmSplit(c)
    PROVE  BooksInv'
  <1> DEFINE txn == SplitPostings(c)
             k == UpCost(c)
             m == DownCost(c)
             mid == AddCost(costs, c.up, c.quantity, k)
  <1>1. /\ c.r \in ReservationIds /\ c.up \in Tokens /\ c.down \in Tokens
        /\ c.up # c.down /\ c.quantity \in Int /\ c.quantity > 0
        /\ CanPost(txn) /\ Post(txn) /\ ConsumeReservation(c.r, c.quantity)
        /\ UNCHANGED locks /\ costs' = AddCost(mid, c.down, c.quantity, m)
        /\ ActiveReservation(c.r) /\ reservations[c.r].asset = Collateral
        /\ reservations[c.r].remaining >= c.quantity
    BY CommandFields DEF CanConfirmSplit, ConfirmSplit, ValidPair, Valid
  <1>2. /\ k \in Int /\ m \in Int /\ txn \in [Accounts -> Int]
        /\ ReservedMove(txn, c.r, Collateral, -c.quantity) /\ NoLockMove(txn)
        /\ \A u \in Tokens : txn[InventoryCost(u)] =
               IF u = c.up THEN k ELSE IF u = c.down THEN m ELSE 0
    BY <1>1, SplitPostingsAt
  <1>3. costs \in CostType
    BY DEF BooksInv, BooksType, CostType
  <1> HIDE DEF txn, k, m
  <1>4. balances' \in [Accounts -> Int] /\ NoOverdraft'
    BY <1>1, <1>2, PostEffect DEF BooksInv, BooksType
  <1>5. reservations' \in [ReservationIds -> ReservationType] /\ ReservationBacked'
    BY <1>1, <1>2, ConsumedReservation
  <1>6. /\ mid \in CostType
        /\ \A u \in Tokens :
               /\ costs[u].quantity \in Int /\ costs[u].cost \in Int
               /\ mid[u].quantity = IF u = c.up THEN costs[u].quantity + c.quantity
                                                ELSE costs[u].quantity
               /\ mid[u].cost = IF u = c.up THEN costs[u].cost + k ELSE costs[u].cost
    BY <1>1, <1>2, <1>3, CostUpdates
  <1> HIDE DEF mid
  <1>7. /\ costs' \in CostType
        /\ \A u \in Tokens :
               /\ costs'[u].quantity = IF u = c.down THEN mid[u].quantity + c.quantity
                                                     ELSE mid[u].quantity
               /\ costs'[u].cost = IF u = c.down THEN mid[u].cost + m ELSE mid[u].cost
    BY <1>1, <1>2, <1>6, CostUpdates
  <1>8. ASSUME NEW u \in Tokens
        PROVE  /\ costs'[u].cost = costs[u].cost + txn[InventoryCost(u)]
               /\ costs'[u].quantity >= 0
               /\ costs'[u].quantity = 0 => costs'[u].cost = 0
    <2>1. /\ costs[u].quantity >= 0 /\ (costs[u].quantity = 0 => costs[u].cost = 0)
          /\ costs[u].quantity \in Int /\ costs[u].cost \in Int
      BY <1>6 DEF BooksInv, CostBacked
    <2>2. CASE u = c.up
      BY <1>1, <1>2, <1>6, <1>7, <2>1, <2>2
    <2>3. CASE u = c.down
      BY <1>1, <1>2, <1>6, <1>7, <2>1, <2>3
    <2>4. CASE u # c.up /\ u # c.down
      BY <1>1, <1>2, <1>6, <1>7, <2>1, <2>4
    <2> QED BY <2>2, <2>3, <2>4
  <1>9. CostBacked'
    BY <1>1, <1>2, <1>7, <1>8, MovedCosts
  <1>10. LockBacked'
    BY <1>1, <1>2, UntouchedLocks
  <1> QED BY <1>1, <1>4, <1>5, <1>7, <1>9, <1>10 DEF BooksInv, BooksType, CostType

LEMMA LockPairKeepsBooks ==
    ASSUME BooksInv, NEW c \in CommandType, c.op = "LockPair",
           CanLockPair(c), LockPair(c)
    PROVE  BooksInv'
  <1> DEFINE txn == LockPostings(c)
             k == AllocateCost(c.up, c.quantity)
             m == AllocateCost(c.down, c.quantity)
             mid == ReduceCost(costs, c.up, c.quantity, k)
             lock == [up |-> c.up, down |-> c.down, quantity |-> c.quantity,
                      cost |-> k + m, payout |-> c.quantity, status |-> "Active"]
  <1>1. /\ c.l \in LockIds /\ c.up \in Tokens /\ c.down \in Tokens
        /\ c.up # c.down /\ c.quantity \in Int /\ c.quantity > 0
        /\ CanPost(txn) /\ Post(txn) /\ UNCHANGED reservations
        /\ costs' = ReduceCost(mid, c.down, c.quantity, m)
        /\ locks' = [locks EXCEPT ![c.l] = lock]
        /\ locks[c.l].status = Absent
        /\ CanAllocate(c.up, c.quantity) /\ CanAllocate(c.down, c.quantity)
    BY CommandFields DEF CanLockPair, LockPair, ValidPair, Valid
  <1>2. /\ k \in Int /\ costs[c.up].quantity - c.quantity >= 0
        /\ costs[c.up].quantity - c.quantity = 0 => costs[c.up].cost - k = 0
        /\ m \in Int /\ costs[c.down].quantity - c.quantity >= 0
        /\ costs[c.down].quantity - c.quantity = 0 => costs[c.down].cost - m = 0
    BY <1>1, DisposalLeaves
  <1>3. /\ txn \in [Accounts -> Int] /\ NoReservedMove(txn)
        /\ \A l \in LockIds :
               /\ txn[LockedCost(l)] = IF l = c.l THEN k + m ELSE 0
               /\ \A t \in Tokens : txn[LockedToken(l, t)] =
                      IF l = c.l /\ t \in {c.up, c.down} THEN c.quantity ELSE 0
        /\ \A u \in Tokens : txn[InventoryCost(u)] =
               IF u = c.up THEN -k ELSE IF u = c.down THEN -m ELSE 0
    BY <1>1, <1>2, LockPostingsAt
  <1>4. costs \in CostType
    BY DEF BooksInv, BooksType, CostType
  <1> HIDE DEF txn, k, m
  <1>5. lock \in LockType
    BY <1>1, <1>2 DEF LockType
  <1>6. balances' \in [Accounts -> Int] /\ NoOverdraft'
    BY <1>1, <1>3, PostEffect DEF BooksInv, BooksType
  <1>7. /\ mid \in CostType
        /\ \A u \in Tokens :
               /\ costs[u].quantity \in Int /\ costs[u].cost \in Int
               /\ mid[u].quantity = IF u = c.up THEN costs[u].quantity - c.quantity
                                                ELSE costs[u].quantity
               /\ mid[u].cost = IF u = c.up THEN costs[u].cost - k ELSE costs[u].cost
    BY <1>1, <1>2, <1>4, CostUpdates
  <1> HIDE DEF mid
  <1>8. /\ costs' \in CostType
        /\ \A u \in Tokens :
               /\ costs'[u].quantity = IF u = c.down THEN mid[u].quantity - c.quantity
                                                     ELSE mid[u].quantity
               /\ costs'[u].cost = IF u = c.down THEN mid[u].cost - m ELSE mid[u].cost
    BY <1>1, <1>2, <1>7, CostUpdates
  <1>9. ASSUME NEW u \in Tokens
        PROVE  /\ costs'[u].cost = costs[u].cost + txn[InventoryCost(u)]
               /\ costs'[u].quantity >= 0
               /\ costs'[u].quantity = 0 => costs'[u].cost = 0
    <2>1. /\ costs[u].quantity >= 0 /\ (costs[u].quantity = 0 => costs[u].cost = 0)
          /\ costs[u].quantity \in Int /\ costs[u].cost \in Int
      BY <1>7 DEF BooksInv, CostBacked
    <2>2. CASE u = c.up
      BY <1>1, <1>2, <1>3, <1>7, <1>8, <2>1, <2>2
    <2>3. CASE u = c.down
      BY <1>1, <1>2, <1>3, <1>7, <1>8, <2>1, <2>3
    <2>4. CASE u # c.up /\ u # c.down
      BY <1>1, <1>2, <1>3, <1>7, <1>8, <2>1, <2>4
    <2> QED BY <2>2, <2>3, <2>4
  <1>10. CostBacked'
    BY <1>1, <1>3, <1>8, <1>9, MovedCosts
  <1>11. LockBacked'
    <2>1. \A a \in Accounts : balances'[a] = balances[a] + txn[a]
      BY <1>1, <1>3, PostEffect DEF BooksInv, BooksType
    <2>2. \A l \in LockIds : locks'[l] = IF l = c.l THEN lock ELSE locks[l]
      BY <1>1 DEF BooksInv, BooksType
    <2>3. ASSUME NEW l \in LockIds
          PROVE  /\ \A t \in Tokens : balances'[LockedToken(l, t)] =
                        IF locks'[l].status = "Active" /\ t \in {locks'[l].up, locks'[l].down}
                        THEN locks'[l].quantity ELSE 0
                 /\ balances'[LockedCost(l)] =
                        IF locks'[l].status = "Active" THEN locks'[l].cost ELSE 0
      <3>1. /\ \A t \in Tokens : /\ LockedToken(l, t) \in Accounts
                                 /\ balances[LockedToken(l, t)] \in Int
            /\ LockedCost(l) \in Accounts /\ balances[LockedCost(l)] \in Int
        BY AccountMembership DEF BooksInv, BooksType
      <3>2. CASE l = c.l
        BY <1>1, <1>2, <1>3, <2>1, <2>2, <3>1, <3>2 DEF BooksInv, LockBacked
      <3>3. CASE l # c.l
        BY <1>1, <1>3, <2>1, <2>2, <3>1, <3>3 DEF BooksInv, LockBacked
      <3> QED BY <3>2, <3>3
    <2> QED BY <2>3 DEF LockBacked
  <1>12. ReservationBacked'
    BY <1>1, <1>3, UntouchedReservations
  <1> QED
    BY <1>1, <1>5, <1>6, <1>8, <1>10, <1>11, <1>12 DEF BooksInv, BooksType, CostType

LEMMA MergeKeepsBooks ==
    ASSUME BooksInv, NEW c \in CommandType, c.op = "ConfirmMerge",
           CanConfirmMerge(c), ConfirmMerge(c)
    PROVE  BooksInv'
  <1> DEFINE txn == MergePostings(c)
             lock == locks[c.l]
  <1>1. /\ c.l \in LockIds /\ CanPost(txn) /\ Post(txn) /\ lock.status = "Active"
        /\ locks' = [locks EXCEPT ![c.l].status = "Merged"]
        /\ UNCHANGED <<reservations, costs>>
    BY CommandFields DEF CanConfirmMerge, ConfirmMerge
  <1>2. /\ txn \in [Accounts -> Int] /\ NoReservedMove(txn) /\ NoCostMove(txn)
        /\ \A l \in LockIds :
               /\ txn[LockedCost(l)] = IF l = c.l THEN -lock.cost ELSE 0
               /\ \A t \in Tokens : txn[LockedToken(l, t)] =
                      IF l = c.l /\ t \in {lock.up, lock.down} THEN -lock.quantity ELSE 0
    BY MergePostingsAt DEF BooksInv, BooksType
  <1> HIDE DEF txn
  <1>3. balances' \in [Accounts -> Int] /\ NoOverdraft'
    BY <1>1, <1>2, PostEffect DEF BooksInv, BooksType
  <1>4. locks' \in [LockIds -> LockType]
    BY <1>1 DEF BooksInv, BooksType, LockType
  <1>5. LockBacked'
    <2>1. \A a \in Accounts : balances'[a] = balances[a] + txn[a]
      BY <1>1, <1>2, PostEffect DEF BooksInv, BooksType
    <2>2. \A l \in LockIds : l # c.l => locks'[l] = locks[l]
      BY <1>1 DEF BooksInv, BooksType
    <2>3. locks'[c.l].status = "Merged"
      BY <1>1 DEF BooksInv, BooksType, LockType
    <2>4. lock.quantity \in Int /\ lock.cost \in Int
      BY <1>1 DEF BooksInv, BooksType, LockType
    <2>5. ASSUME NEW l \in LockIds
          PROVE  /\ \A t \in Tokens : balances'[LockedToken(l, t)] =
                        IF locks'[l].status = "Active" /\ t \in {locks'[l].up, locks'[l].down}
                        THEN locks'[l].quantity ELSE 0
                 /\ balances'[LockedCost(l)] =
                        IF locks'[l].status = "Active" THEN locks'[l].cost ELSE 0
      <3>1. /\ \A t \in Tokens : /\ LockedToken(l, t) \in Accounts
                                 /\ balances[LockedToken(l, t)] \in Int
            /\ LockedCost(l) \in Accounts /\ balances[LockedCost(l)] \in Int
        BY AccountMembership DEF BooksInv, BooksType
      <3>2. CASE l = c.l
        BY <1>1, <1>2, <2>1, <2>3, <2>4, <3>1, <3>2 DEF BooksInv, LockBacked
      <3>3. CASE l # c.l
        BY <1>2, <2>1, <2>2, <3>1, <3>3 DEF BooksInv, LockBacked
      <3> QED BY <3>2, <3>3
    <2> QED BY <2>5 DEF LockBacked
  <1>6. ReservationBacked' /\ CostBacked'
    BY <1>1, <1>2, UntouchedReservations, UntouchedCosts
  <1> QED BY <1>1, <1>3, <1>4, <1>5, <1>6 DEF BooksInv, BooksType

-----------------------------------------------------------------------------
LedgerInv == TypeOK /\ BooksInv /\ OneCommandPerId

LEMMA InitLedgerInv == Init => LedgerInv
  <1> SUFFICES ASSUME Init PROVE LedgerInv
    OBVIOUS
  <1>1. SomeToken \in Tokens
    BY TokensAssumption DEF SomeToken
  <1>2. TypeOK
    <2>1. [asset |-> Collateral, original |-> 0, remaining |-> 0, status |-> Absent]
              \in ReservationType
      BY DEF ReservationType
    <2>2. [up |-> SomeToken, down |-> SomeToken, quantity |-> 0, cost |-> 0, payout |-> 0,
           status |-> Absent] \in LockType
      BY <1>1 DEF LockType
    <2>3. /\ reservations \in [ReservationIds -> ReservationType]
          /\ locks \in [LockIds -> LockType]
      BY <2>1, <2>2 DEF Init, ZeroBalances, NoReservations, NoCosts, NoLocks
    <2>4. halted \in BOOLEAN
      BY DEF Init, ZeroBalances, NoReservations, NoCosts, NoLocks
    <2> QED BY <2>3, <2>4 DEF Init, ZeroBalances, NoReservations, NoCosts, NoLocks, TypeOK
  <1>3. BooksType
    BY <1>2 DEF TypeOK, BooksType
  <1>4. \A q \in ReservationIds, s \in Assets : ReservedAccount(q, s) \in Accounts
    BY AccountMembership DEF ReservedAccount, Assets
  <1>5. ReservationBacked
    BY <1>4 DEF Init, ZeroBalances, NoReservations, NoCosts, NoLocks, ReservationBacked,
               ActiveReservation, Assets
  <1>6. LockBacked /\ CostBacked /\ NoOverdraft
    BY AccountMembership DEF Init, ZeroBalances, NoReservations, NoCosts, NoLocks, LockBacked,
               CostBacked, NoOverdraft
  <1>7. OneCommandPerId
    BY DEF Init, ZeroBalances, NoReservations, NoCosts, NoLocks, OneCommandPerId
  <1> QED BY <1>2, <1>3, <1>5, <1>6, <1>7 DEF LedgerInv, BooksInv

\* Every accepted command keeps the books explained: one case per handler.
LEMMA HandlerKeepsBooks ==
    ASSUME BooksInv, NEW c \in CommandType, Accepts(c), Handler(c)
    PROVE  BooksInv'
  <1>1. CASE c.op = "FundCollateral"
    BY <1>1, FundKeepsBooks DEF Accepts, Handler
  <1>2. CASE c.op \in {"ReserveCollateral", "ReserveToken"}
    BY <1>2, ReserveKeepsBooks DEF Accepts, Handler
  <1>3. CASE c.op = "ReleaseReservation"
    BY <1>3, ReleaseKeepsBooks DEF Accepts, Handler
  <1>4. CASE c.op = "ConfirmBuy"
    BY <1>4, BuyKeepsBooks DEF Accepts, Handler
  <1>5. CASE c.op = "ConfirmSell"
    BY <1>5, SellKeepsBooks DEF Accepts, Handler
  <1>6. CASE c.op = "LockPair"
    BY <1>6, LockPairKeepsBooks DEF Accepts, Handler
  <1>7. CASE c.op = "ConfirmMerge"
    BY <1>7, MergeKeepsBooks DEF Accepts, Handler
  <1>8. CASE c.op = "ConfirmSplit"
    BY <1>8, SplitKeepsBooks DEF Accepts, Handler
  <1>9. CASE c.op = "ConfirmRedemption"
    BY <1>9, RedemptionKeepsBooks DEF Accepts, Handler
  <1> QED
    BY <1>1, <1>2, <1>3, <1>4, <1>5, <1>6, <1>7, <1>8, <1>9 DEF Handler

LEMMA NextKeepsLedgerInv == LedgerInv /\ [Next]_vars => LedgerInv'
  <1> SUFFICES ASSUME LedgerInv, [Next]_vars PROVE LedgerInv'
    OBVIOUS
  <1>1. CASE UNCHANGED vars
    BY <1>1 DEF LedgerInv, vars, TypeOK, BooksInv, BooksType, ReservationBacked, LockBacked,
       CostBacked, NoOverdraft, OneCommandPerId, ActiveReservation
  <1>2. ASSUME NEW c \in Commands, Apply(c)
        PROVE  LedgerInv'
    <2>0. c \in CommandType
      BY CommandsAssumption
    <2>1. CASE ApplyFresh(c)
      <3>1. BooksInv'
        BY <2>0, <2>1, HandlerKeepsBooks DEF ApplyFresh, LedgerInv
      <3>2. TypeOK'
        BY <2>0, <2>1, <3>1 DEF ApplyFresh, LedgerInv, TypeOK, BooksInv, BooksType
      <3>3. OneCommandPerId'
        BY <2>1 DEF ApplyFresh, LedgerInv, OneCommandPerId, Known
      <3> QED BY <3>1, <3>2, <3>3 DEF LedgerInv
    <2>2. ASSUME UNCHANGED <<balances, reservations, costs, locks, processed>>,
                 halted' \in BOOLEAN,
                 outcome' \in {"Refused", "Duplicate", "IdempotencyConflict", "Halted"}
          PROVE  LedgerInv'
      BY <2>2 DEF LedgerInv, TypeOK, BooksInv, BooksType, ReservationBacked, LockBacked,
         CostBacked, NoOverdraft, OneCommandPerId, ActiveReservation
    <2>3. CASE Refuse(c) \/ Duplicate(c) \/ Conflict(c) \/ RefuseHalted(c)
      BY <2>2, <2>3 DEF Refuse, Duplicate, Conflict, RefuseHalted, LedgerInv, TypeOK
    <2> QED BY <1>2, <2>1, <2>3 DEF Apply
  <1> QED BY <1>1, <1>2 DEF Next

\* Every field of the ledger keeps its type under every command.
THEOREM LedgerTypeCorrect == Spec => []TypeOK
  <1>1. LedgerInv => TypeOK
    BY DEF LedgerInv
  <1> QED BY <1>1, InitLedgerInv, NextKeepsLedgerInv, PTL DEF Spec

\* The reservation part of verify_invariants can never refuse a command its
\* handler accepted: every reserved account holds exactly the remainder of its
\* active reservation, whatever the sequence of commands.
THEOREM LedgerReservationsBacked == Spec => []ReservationBacked
  <1>1. LedgerInv => ReservationBacked
    BY DEF LedgerInv, BooksInv
  <1> QED BY <1>1, InitLedgerInv, NextKeepsLedgerInv, PTL DEF Spec

\* The lock part of verify_invariants can never refuse an accepted command.
THEOREM LedgerLocksBacked == Spec => []LockBacked
  <1>1. LedgerInv => LockBacked
    BY DEF LedgerInv, BooksInv
  <1> QED BY <1>1, InitLedgerInv, NextKeepsLedgerInv, PTL DEF Spec

\* The inventory account of a token is its tracked cost, never negative, and the
\* disposal of the last unit leaves no cost behind, however allocate_cost rounded.
THEOREM LedgerCostsBacked == Spec => []CostBacked
  <1>1. LedgerInv => CostBacked
    BY DEF LedgerInv, BooksInv
  <1> QED BY <1>1, InitLedgerInv, NextKeepsLedgerInv, PTL DEF Spec

\* No sequence of commands overdraws an asset or expense account, and no id is
\* ever accepted with two contents.
THEOREM LedgerNeverOverdrawn == Spec => [](NoOverdraft /\ OneCommandPerId)
  <1>1. LedgerInv => NoOverdraft /\ OneCommandPerId
    BY DEF LedgerInv, BooksInv
  <1> QED BY <1>1, InitLedgerInv, NextKeepsLedgerInv, PTL DEF Spec

-----------------------------------------------------------------------------
(***************************************************************************)
(* Sums over finite sets.  MapThenSumSet takes a recursive function on the *)
(* subsets.  An induction over them is an argument about a smallest subset *)
(* for which a claim fails.                                                *)
(***************************************************************************)
Some(s) == CHOOSE x \in s : TRUE
Rest(s) == s \ {Some(s)}
SumsUp(g, S, f) == g = [s \in SUBSET S |-> IF s = {} THEN 0 ELSE f[Some(s)] + g[Rest(s)]]
Sum(S, f) == MapThenSumSet(LAMBDA x : f[x], S)

\* Among subsets of a finite set there is one that contains none of the others.
LEMMA SmallestSubset ==
    ASSUME NEW S, IsFiniteSet(S), NEW T, T \subseteq SUBSET S, T # {}
    PROVE  \E x \in T : \A y \in T : y \subseteq x => y = x
  <1>1. FiniteSubsetsOf(S) = SUBSET S
    BY FS_FiniteSubsetsOfFinite
  <1>2. IsWellFoundedOn(StrictSubsetOrdering(S), SUBSET S)
    BY <1>1, FS_StrictSubsetOrderingWellFounded
  <1>3. \E x \in T : \A y \in T : ~ (<<y, x>> \in StrictSubsetOrdering(S))
    BY <1>2, WFMin
  <1> QED BY <1>3 DEF StrictSubsetOrdering

\* The element taken out of a set is one of it.
LEMMA RestIsLess ==
    ASSUME NEW s, s # {}
    PROVE  Some(s) \in s /\ Rest(s) \subseteq s /\ Rest(s) # s /\ s = Rest(s) \cup {Some(s)}
  BY DEF Some, Rest

\* Two tables of sums agree where they are both defined.
LEMMA TablesAgree ==
    ASSUME NEW S, IsFiniteSet(S), NEW T \in SUBSET S, NEW f, NEW g, NEW h,
           SumsUp(g, S, f), SumsUp(h, T, f)
    PROVE  \A s \in SUBSET T : g[s] = h[s]
  <1> DEFINE bad == {s \in SUBSET T : g[s] # h[s]}
  <1> SUFFICES ASSUME bad # {} PROVE FALSE
    OBVIOUS
  <1>1. IsFiniteSet(T)
    BY FS_Subset
  <1>b. bad \subseteq SUBSET T
    OBVIOUS
  <1> HIDE DEF bad
  <1>2. PICK s \in bad : \A y \in bad : y \subseteq s => y = s
    BY <1>1, <1>b, SmallestSubset
  <1> USE DEF bad
  <1>3. s \in SUBSET S /\ s \in SUBSET T /\ g[s] # h[s]
    BY <1>2
  <1>4. s # {}
    BY <1>3 DEF SumsUp
  <1>5. Rest(s) \in SUBSET T /\ Rest(s) \notin bad
    BY <1>2, <1>3, <1>4, RestIsLess
  <1>6. g[Rest(s)] = h[Rest(s)]
    BY <1>5
  <1>7. g[s] = f[Some(s)] + g[Rest(s)] /\ h[s] = f[Some(s)] + h[Rest(s)]
    BY <1>3, <1>4 DEF SumsUp
  <1> QED BY <1>3, <1>6, <1>7

\* There is a table of sums for every finite set.
LEMMA TableExists ==
    ASSUME NEW S, IsFiniteSet(S), NEW f
    PROVE  \E g : SumsUp(g, S, f)
  <1> DEFINE bad == {T \in SUBSET S : ~ \E g : SumsUp(g, T, f)}
             Table(U) == CHOOSE g : SumsUp(g, U, f)
             Value(U) == Table(U)[U]
  <1> SUFFICES ASSUME bad # {} PROVE FALSE
    BY DEF SumsUp
  <1>b. bad \subseteq SUBSET S
    OBVIOUS
  <1> HIDE DEF bad
  <1>1. PICK T \in bad : \A y \in bad : y \subseteq T => y = T
    BY <1>b, SmallestSubset
  <1> USE DEF bad
  <1>2. \A U \in SUBSET T : U # T => SumsUp(Table(U), U, f)
    BY <1>1
  <1>t. T \in SUBSET S /\ ~ \E g : SumsUp(g, T, f)
    BY <1>1
  <1> DEFINE G == [s \in SUBSET T |-> IF s = {} THEN 0 ELSE f[Some(s)] + Value(Rest(s))]
  <1>3. ASSUME NEW s \in SUBSET T, s # {}
        PROVE  G[Rest(s)] = Value(Rest(s))
    <2> DEFINE U == Rest(s)
    <2>1. U \in SUBSET T /\ U # T
      BY <1>3, RestIsLess
    <2>2. SumsUp(Table(U), U, f)
      BY <1>2, <2>1
    <2>3. CASE U = {}
      BY <2>1, <2>2, <2>3 DEF SumsUp
    <2>4. CASE U # {}
      <3> DEFINE W == Rest(U)
      <3>1. W \in SUBSET U /\ W \in SUBSET T /\ W # T
        BY <2>1, <2>4, RestIsLess
      <3>2. SumsUp(Table(W), W, f)
        BY <1>2, <3>1
      <3>3. IsFiniteSet(U)
        BY <1>t, <2>1, FS_Subset
      <3> HIDE DEF Table
      <3>4. \A t \in SUBSET W : Table(U)[t] = Table(W)[t]
        BY <2>2, <3>1, <3>2, <3>3, TablesAgree
      <3>5. Table(U)[W] = Value(W)
        BY <3>4
      <3>6. Table(U)[U] = f[Some(U)] + Table(U)[W]
        BY <2>2, <2>4 DEF SumsUp
      <3>7. G[U] = f[Some(U)] + Value(W)
        BY <2>1, <2>4
      <3> QED BY <3>5, <3>6, <3>7
    <2> QED BY <2>3, <2>4
  <1> HIDE DEF Table
  <1>4. G = [s \in SUBSET T |-> IF s = {} THEN 0 ELSE f[Some(s)] + G[Rest(s)]]
    BY <1>3
  <1>5. SumsUp(G, T, f)
    BY <1>4 DEF SumsUp
  <1> QED BY <1>t, <1>5

\* The sum is an entry of a table.
LEMMA SumInTable ==
    ASSUME NEW S, IsFiniteSet(S), NEW f
    PROVE  \E g : SumsUp(g, S, f) /\ Sum(S, f) = g[S]
  <1> DEFINE g == CHOOSE g : SumsUp(g, S, f)
  <1>1. SumsUp(g, S, f)
    BY TableExists
  <1>2. Sum(S, f) = g[S]
    BY DEF Sum, MapThenSumSet, MapThenFoldSet, SumsUp, Some, Rest
  <1> QED BY <1>1, <1>2

\* The recursion of the sum.
LEMMA SumRecursion ==
    ASSUME NEW S, IsFiniteSet(S), NEW f
    PROVE  /\ S = {} => Sum(S, f) = 0
           /\ S # {} => Sum(S, f) = f[Some(S)] + Sum(Rest(S), f)
  <1>1. PICK g : SumsUp(g, S, f) /\ Sum(S, f) = g[S]
    BY SumInTable
  <1>2. CASE S = {}
    BY <1>1, <1>2 DEF SumsUp
  <1>3. CASE S # {}
    <2>1. Rest(S) \in SUBSET S /\ IsFiniteSet(Rest(S))
      BY <1>3, RestIsLess, FS_Subset
    <2>2. PICK h : SumsUp(h, Rest(S), f) /\ Sum(Rest(S), f) = h[Rest(S)]
      BY <2>1, SumInTable
    <2>3. g[Rest(S)] = h[Rest(S)]
      BY <1>1, <2>1, <2>2, TablesAgree
    <2>4. g[S] = f[Some(S)] + g[Rest(S)]
      BY <1>1, <1>3 DEF SumsUp
    <2> QED BY <1>1, <1>3, <2>2, <2>3, <2>4
  <1> QED BY <1>2, <1>3

\* Sums of integers are integers.
LEMMA SumIsInteger ==
    ASSUME NEW S, IsFiniteSet(S), NEW f, \A x \in S : f[x] \in Int
    PROVE  Sum(S, f) \in Int
  <1> DEFINE bad == {T \in SUBSET S : Sum(T, f) \notin Int}
  <1> SUFFICES ASSUME bad # {} PROVE FALSE
    OBVIOUS
  <1>b. bad \subseteq SUBSET S
    OBVIOUS
  <1> HIDE DEF bad
  <1>1. PICK T \in bad : \A y \in bad : y \subseteq T => y = T
    BY <1>b, SmallestSubset
  <1> USE DEF bad
  <1>2. IsFiniteSet(T) /\ T \in SUBSET S
    BY <1>1, FS_Subset
  <1>3. T # {}
    BY <1>1, <1>2, SumRecursion
  <1>4. Some(T) \in S /\ Rest(T) \in SUBSET S /\ Rest(T) \notin bad
    BY <1>1, <1>2, <1>3, RestIsLess
  <1>5. f[Some(T)] \in Int /\ Sum(Rest(T), f) \in Int
    BY <1>4
  <1> QED BY <1>1, <1>2, <1>3, <1>5, SumRecursion

\* The sum of a sum.
LEMMA SumAdds ==
    ASSUME NEW S, IsFiniteSet(S), NEW f, NEW g, NEW h,
           \A x \in S : f[x] \in Int /\ g[x] \in Int /\ h[x] = f[x] + g[x]
    PROVE  Sum(S, h) = Sum(S, f) + Sum(S, g)
  <1> DEFINE bad == {T \in SUBSET S : Sum(T, h) # Sum(T, f) + Sum(T, g)}
  <1> SUFFICES ASSUME bad # {} PROVE FALSE
    OBVIOUS
  <1>b. bad \subseteq SUBSET S
    OBVIOUS
  <1> HIDE DEF bad
  <1>1. PICK T \in bad : \A y \in bad : y \subseteq T => y = T
    BY <1>b, SmallestSubset
  <1> USE DEF bad
  <1>2. IsFiniteSet(T) /\ T \in SUBSET S
    BY <1>1, FS_Subset
  <1>3. T # {}
    BY <1>1, <1>2, SumRecursion
  <1>4. Some(T) \in S /\ Rest(T) \in SUBSET S /\ Rest(T) \notin bad /\ IsFiniteSet(Rest(T))
    BY <1>1, <1>2, <1>3, RestIsLess, FS_Subset
  <1>5. Sum(Rest(T), h) = Sum(Rest(T), f) + Sum(Rest(T), g)
    BY <1>4
  <1>6. Sum(Rest(T), f) \in Int /\ Sum(Rest(T), g) \in Int
    BY <1>4, SumIsInteger
  <1>7. /\ Sum(T, h) = h[Some(T)] + Sum(Rest(T), h)
        /\ Sum(T, f) = f[Some(T)] + Sum(Rest(T), f)
        /\ Sum(T, g) = g[Some(T)] + Sum(Rest(T), g)
    BY <1>2, <1>3, SumRecursion
  <1> QED BY <1>1, <1>4, <1>5, <1>6, <1>7

\* Functions that agree on a set have one sum over it.
LEMMA SumOfEquals ==
    ASSUME NEW S, IsFiniteSet(S), NEW f, NEW g, \A x \in S : f[x] = g[x]
    PROVE  Sum(S, f) = Sum(S, g)
  <1> DEFINE bad == {T \in SUBSET S : Sum(T, f) # Sum(T, g)}
  <1> SUFFICES ASSUME bad # {} PROVE FALSE
    OBVIOUS
  <1>b. bad \subseteq SUBSET S
    OBVIOUS
  <1> HIDE DEF bad
  <1>1. PICK T \in bad : \A y \in bad : y \subseteq T => y = T
    BY <1>b, SmallestSubset
  <1> USE DEF bad
  <1>2. IsFiniteSet(T) /\ T \in SUBSET S
    BY <1>1, FS_Subset
  <1>3. T # {}
    BY <1>1, <1>2, SumRecursion
  <1>4. Some(T) \in S /\ Rest(T) \in SUBSET S /\ Rest(T) \notin bad
    BY <1>1, <1>2, <1>3, RestIsLess
  <1>5. Sum(Rest(T), f) = Sum(Rest(T), g)
    BY <1>4
  <1> QED BY <1>1, <1>2, <1>3, <1>4, <1>5, SumRecursion

\* Any element may be taken out first.
LEMMA SumTakesOut ==
    ASSUME NEW S, IsFiniteSet(S), NEW f, \A x \in S : f[x] \in Int, NEW e \in S
    PROVE  Sum(S, f) = f[e] + Sum(S \ {e}, f)
  <1> DEFINE bad == {T \in SUBSET S : \E x \in T : Sum(T, f) # f[x] + Sum(T \ {x}, f)}
  <1> SUFFICES ASSUME bad # {} PROVE FALSE
    OBVIOUS
  <1>b. bad \subseteq SUBSET S
    OBVIOUS
  <1> HIDE DEF bad
  <1>1. PICK T \in bad : \A y \in bad : y \subseteq T => y = T
    BY <1>b, SmallestSubset
  <1> USE DEF bad
  <1>2. PICK x \in T : Sum(T, f) # f[x] + Sum(T \ {x}, f)
    BY <1>1
  <1>3. IsFiniteSet(T) /\ T \in SUBSET S /\ T # {}
    BY <1>1, <1>2, FS_Subset
  <1>4. Sum(T, f) = f[Some(T)] + Sum(Rest(T), f)
    BY <1>3, SumRecursion
  <1> DEFINE y == Some(T)
  <1>5. y \in T /\ Rest(T) = T \ {y}
    BY <1>3, RestIsLess DEF Rest
  <1> HIDE DEF y
  <1>6. x # y
    BY <1>2, <1>4, <1>5 DEF y
  <1>7. /\ T \ {y} \in SUBSET S /\ T \ {y} \notin bad /\ x \in T \ {y}
        /\ T \ {x} \in SUBSET S /\ T \ {x} \notin bad /\ y \in T \ {x}
    BY <1>1, <1>3, <1>5, <1>6
  <1>8. /\ Sum(T \ {y}, f) = f[x] + Sum((T \ {y}) \ {x}, f)
        /\ Sum(T \ {x}, f) = f[y] + Sum((T \ {x}) \ {y}, f)
    BY <1>7
  <1>9. (T \ {y}) \ {x} = (T \ {x}) \ {y}
    OBVIOUS
  <1>10. /\ f[x] \in Int /\ f[y] \in Int
         /\ IsFiniteSet((T \ {x}) \ {y}) /\ (T \ {x}) \ {y} \subseteq S
    BY <1>3, <1>5, FS_Subset
  <1>11. Sum((T \ {x}) \ {y}, f) \in Int
    BY <1>10, SumIsInteger
  <1> QED BY <1>2, <1>4, <1>5, <1>8, <1>9, <1>10, <1>11 DEF y

\* Nothing adds up to nothing.
LEMMA SumOfZeros ==
    ASSUME NEW S, IsFiniteSet(S), NEW f, \A x \in S : f[x] = 0
    PROVE  Sum(S, f) = 0
  <1>1. \A x \in S : f[x] \in Int /\ f[x] = f[x] + f[x]
    OBVIOUS
  <1>2. Sum(S, f) = Sum(S, f) + Sum(S, f)
    BY <1>1, SumAdds
  <1>3. Sum(S, f) \in Int
    BY <1>1, SumIsInteger
  <1>4. \A n \in Int : n = n + n => n = 0
    OBVIOUS
  <1> QED BY <1>2, <1>3, <1>4, Zenon

\* Elements that add nothing may be left out.
LEMMA SumOfPart ==
    ASSUME NEW S, IsFiniteSet(S), NEW f, \A x \in S : f[x] \in Int,
           NEW P \in SUBSET S, \A x \in S \ P : f[x] = 0
    PROVE  Sum(S, f) = Sum(P, f)
  <1> DEFINE bad == {T \in SUBSET S : Sum(T, f) # Sum(T \cap P, f)}
  <1> SUFFICES ASSUME bad # {} PROVE FALSE
    <2>1. S \cap P = P
      OBVIOUS
    <2> QED BY <2>1
  <1>b. bad \subseteq SUBSET S
    OBVIOUS
  <1> HIDE DEF bad
  <1>1. PICK T \in bad : \A y \in bad : y \subseteq T => y = T
    BY <1>b, SmallestSubset
  <1> USE DEF bad
  <1>2. T \in SUBSET S /\ IsFiniteSet(T) /\ Sum(T, f) # Sum(T \cap P, f)
    BY <1>1, FS_Subset
  <1>3. T # {}
    <2>1. {} \cap P = {}
      OBVIOUS
    <2> QED BY <1>2, <2>1
  <1>4. PICK x : x \in T
    BY <1>3
  <1>5. Sum(T, f) = f[x] + Sum(T \ {x}, f)
    BY <1>2, <1>4, SumTakesOut
  <1>6. Sum(T \ {x}, f) = Sum((T \ {x}) \cap P, f)
    <2>1. T \ {x} \in SUBSET S /\ T \ {x} \subseteq T /\ T \ {x} # T
      BY <1>2, <1>4
    <2>2. T \ {x} \notin bad
      BY <1>1, <2>1
    <2> QED BY <2>1, <2>2
  <1>7. CASE x \in P
    <2>1. (T \cap P) \ {x} = (T \ {x}) \cap P /\ x \in T \cap P /\ T \cap P \in SUBSET S
      BY <1>2, <1>4, <1>7
    <2>2. IsFiniteSet(T \cap P)
      BY <2>1, FS_Subset
    <2>3. Sum(T \cap P, f) = f[x] + Sum((T \cap P) \ {x}, f)
      BY <2>1, <2>2, SumTakesOut
    <2> QED BY <1>2, <1>5, <1>6, <2>1, <2>3
  <1>8. CASE x \notin P
    <2>1. (T \ {x}) \cap P = T \cap P /\ T \cap P \in SUBSET S
      BY <1>2, <1>8
    <2>2. IsFiniteSet(T \cap P) /\ f[x] = 0
      BY <1>2, <1>4, <1>8, <2>1, FS_Subset
    <2>3. Sum(T \cap P, f) \in Int
      BY <2>1, <2>2, SumIsInteger
    <2>4. Sum(T \ {x}, f) = Sum(T \cap P, f)
      BY ONLY <1>6, <2>1
    <2>5. Sum(T, f) = 0 + Sum(T \cap P, f)
      BY ONLY <1>5, <2>2, <2>4
    <2>6. Sum(T, f) = Sum(T \cap P, f)
      BY ONLY <2>3, <2>5
    <2> QED BY ONLY <1>2, <2>6
  <1> QED BY <1>7, <1>8

-----------------------------------------------------------------------------
(***************************************************************************)
(* Conservation: a transaction that sums to zero in every asset, posted to *)
(* accounts that do, leaves accounts that do.                              *)
(***************************************************************************)

\* A ledger has finitely many accounts.
LEMMA AccountsAreFinite == IsFiniteSet(Accounts)
  <1> DEFINE Kinds == {"CashAvailable", "FeeExpense", "TradingRevenue", "CostOfGoodsSold",
                       "CapitalContributed"} \cup
                      {"CashReserved", "TokenAvailable", "TokenReserved", "InventoryCost",
                       "LockedToken"} \cup {"LockedCost", "External"}
             Ids == (ReservationIds \cup LockIds) \cup (Tokens \cup {NoId})
             Keys == (Kinds \X Ids) \X Assets
             account == [k \in Keys |-> <<k[1][1], k[1][2], k[2]>>]
             Image == {account[k] : k \in Keys}
  <1>1. \A x : IsFiniteSet({x})
    BY FS_Singleton
  <1>2. IsFiniteSet(Ids) /\ IsFiniteSet(Assets)
    BY <1>1, FiniteAssumption, FS_Union DEF Assets
  <1>3. IsFiniteSet(Kinds)
    <2>1. \A A, B : IsFiniteSet(A) /\ IsFiniteSet(B) => IsFiniteSet(A \cup B)
      BY FS_Union
    <2>2. \A y, z : IsFiniteSet({y, z})
      <3> SUFFICES ASSUME NEW y, NEW z PROVE IsFiniteSet({y, z})
        OBVIOUS
      <3>1. {y, z} = {y} \cup {z}
        OBVIOUS
      <3>2. IsFiniteSet({y} \cup {z})
        BY <1>1, <2>1
      <3> QED BY <3>1, <3>2
    <2>3. \A v, w, x, y, z : IsFiniteSet({v, w, x, y, z})
      <3> SUFFICES ASSUME NEW v, NEW w, NEW x, NEW y, NEW z PROVE IsFiniteSet({v, w, x, y, z})
        OBVIOUS
      <3>1. {v, w, x, y, z} = ({v, w} \cup {x}) \cup {y, z}
        OBVIOUS
      <3>2. IsFiniteSet({v, w} \cup {x})
        BY <1>1, <2>1, <2>2
      <3>3. IsFiniteSet(({v, w} \cup {x}) \cup {y, z})
        BY <2>1, <2>2, <3>2
      <3> QED BY <3>1, <3>3
    <2> QED BY <2>1, <2>2, <2>3, Zenon
  <1>4. IsFiniteSet(Keys)
    BY <1>2, <1>3, FS_Product
  <1>5. account \in Surjection(Keys, Image)
    BY DEF Surjection
  <1>6. IsFiniteSet(Image)
    BY <1>4, <1>5, FS_Surjection
  <1>7. ASSUME NEW kind \in Kinds, NEW id \in Ids, NEW asset \in Assets
        PROVE  <<kind, id, asset>> \in Image
    <2>1. <<<<kind, id>>, asset>> \in Keys
      OBVIOUS
    <2>2. account[<<<<kind, id>>, asset>>] = <<kind, id, asset>>
      BY <2>1
    <2> QED BY <2>1, <2>2
  <1>8. NoId \in Ids /\ ReservationIds \subseteq Ids /\ LockIds \subseteq Ids /\ Tokens \subseteq Ids
    OBVIOUS
  <1>9. Collateral \in Assets /\ Tokens \subseteq Assets
    BY DEF Assets
  <1> HIDE DEF Image, Ids
  <1>10. Accounts \subseteq Image
    BY <1>7, <1>8, <1>9 DEF Accounts, CashAvailable, FeeExpense, TradingRevenue,
       CostOfGoodsSold, CapitalContributed, CashReserved, TokenAvailable, TokenReserved,
       InventoryCost, LockedToken, LockedCost, External
  <1> QED BY <1>6, <1>10, FS_Subset

\* The total of a transaction is added to the total of the accounts.
LEMMA PostConserves ==
    ASSUME balances \in [Accounts -> Int], NEW txn \in [Accounts -> Int],
           CanPost(txn), Post(txn), Conservation
    PROVE  Conservation'
  <1> SUFFICES ASSUME NEW asset \in Assets PROVE Total(balances', asset) = 0
    BY DEF Conservation, Assets
  <1> DEFINE S == {a \in Accounts : a[3] = asset}
  <1>1. IsFiniteSet(S)
    BY AccountsAreFinite, FS_Subset
  <1>2. balances' \in [Accounts -> Int] /\ \A a \in Accounts : balances'[a] = balances[a] + txn[a]
    BY PostEffect
  <1>3. Sum(S, balances') = Sum(S, balances) + Sum(S, txn)
    BY <1>1, <1>2, SumAdds
  <1>4. /\ Total(balances', asset) = Sum(S, balances')
        /\ Total(balances, asset) = Sum(S, balances)
        /\ Total(txn, asset) = Sum(S, txn)
    BY <1>2 DEF Total, Sum
  <1>5. Total(balances, asset) = 0 /\ Total(txn, asset) = 0
    BY DEF Conservation, CanPost, Assets
  <1> QED BY <1>3, <1>4, <1>5

\* Every handler posts one transaction.
LEMMA HandlerPosts ==
    ASSUME BooksInv, NEW c \in CommandType, Accepts(c), Handler(c)
    PROVE  \E txn \in [Accounts -> Int] : CanPost(txn) /\ Post(txn)
  <1>t. /\ reservations \in [ReservationIds -> ReservationType]
        /\ costs \in [Tokens -> [quantity : Int, cost : Int]]
        /\ locks \in [LockIds -> LockType]
    BY DEF BooksInv, BooksType
  <1>1. CASE c.op = "FundCollateral"
    BY <1>1, FundPostingsAt DEF Accepts, Handler, CanFund, FundCollateral
  <1>2. CASE c.op \in {"ReserveCollateral", "ReserveToken"}
    BY <1>2, ReservePostingsAt DEF Accepts, Handler, CanReserve, Reserve
  <1>3. CASE c.op = "ReleaseReservation"
    BY <1>3, <1>t, ReleasePostingsAt DEF Accepts, Handler, CanRelease, Release
  <1>4. CASE c.op = "ConfirmBuy"
    BY <1>4, BuyPostingsAt DEF Accepts, Handler, CanConfirmBuy, ConfirmBuy
  <1>5. CASE c.op = "ConfirmSell"
    <2>1. CanConfirmSell(c) /\ ConfirmSell(c) /\ c.quantity \in Int
      BY <1>5, CommandFields DEF Accepts, Handler
    <2>2. /\ reservations[c.r].asset \in Tokens
          /\ AllocateCost(reservations[c.r].asset, c.quantity) \in Int
      BY <1>t, <2>1, AllocateCostType DEF CanConfirmSell
    <2>3. SellPostings(c) \in [Accounts -> Int]
      BY <1>5, <2>2, SellPostingsAt
    <2> QED BY <2>1, <2>3 DEF CanConfirmSell, ConfirmSell
  <1>6. CASE c.op = "LockPair"
    <2>1. CanLockPair(c) /\ LockPair(c) /\ c.quantity \in Int /\ c.up \in Tokens /\ c.down \in Tokens
      BY <1>6, CommandFields DEF Accepts, Handler
    <2>2. /\ AllocateCost(c.up, c.quantity) \in Int /\ AllocateCost(c.down, c.quantity) \in Int
          /\ c.up # c.down
      BY <1>6, <1>t, <2>1, AllocateCostType DEF CanLockPair, ValidPair, Valid
    <2>3. LockPostings(c) \in [Accounts -> Int]
      BY <1>6, <2>2, LockPostingsAt
    <2> QED BY <2>1, <2>3 DEF CanLockPair, LockPair
  <1>7. CASE c.op = "ConfirmMerge"
    BY <1>7, <1>t, MergePostingsAt DEF Accepts, Handler, CanConfirmMerge, ConfirmMerge
  <1>8. CASE c.op = "ConfirmSplit"
    <2>1. CanConfirmSplit(c) /\ ConfirmSplit(c)
      BY <1>8 DEF Accepts, Handler
    <2>2. SplitPostings(c) \in [Accounts -> Int]
      BY <1>8, <2>1, SplitPostingsAt DEF CanConfirmSplit, ValidPair, Valid
    <2> QED BY <2>1, <2>2 DEF CanConfirmSplit, ConfirmSplit
  <1>9. CASE c.op = "ConfirmRedemption"
    <2>1. CanConfirmRedemption(c) /\ ConfirmRedemption(c) /\ c.quantity \in Int
      BY <1>9, CommandFields DEF Accepts, Handler
    <2>2. /\ reservations[c.r].asset \in Tokens
          /\ AllocateCost(reservations[c.r].asset, c.quantity) \in Int
      BY <1>t, <2>1, AllocateCostType DEF CanConfirmRedemption
    <2>3. RedemptionPostings(c) \in [Accounts -> Int]
      BY <1>9, <2>2, RedemptionPostingsAt
    <2> QED BY <2>1, <2>3 DEF CanConfirmRedemption, ConfirmRedemption
  <1> QED
    BY <1>1, <1>2, <1>3, <1>4, <1>5, <1>6, <1>7, <1>8, <1>9 DEF Handler

\* Value is conserved, in every asset, by every sequence of commands: no handler creates
\* or destroys a unit of collateral or of a token, over all accounts together.
THEOREM LedgerConserves == Spec => []Conservation
  <1>1. Init => Conservation
    <2> SUFFICES ASSUME Init, NEW asset \in Assets PROVE Total(balances, asset) = 0
      BY DEF Conservation, Assets
    <2> DEFINE S == {a \in Accounts : a[3] = asset}
    <2>1. IsFiniteSet(S)
      BY AccountsAreFinite, FS_Subset
    <2>2. balances \in [Accounts -> Int] /\ \A a \in S : balances[a] = 0
      BY DEF Init, ZeroBalances
    <2>3. Sum(S, balances) = 0
      BY <2>1, <2>2, SumOfZeros
    <2> QED BY <2>2, <2>3 DEF Total, Sum
  <1>2. LedgerInv /\ Conservation /\ [Next]_vars => Conservation'
    <2> SUFFICES ASSUME LedgerInv, Conservation, [Next]_vars PROVE Conservation'
      OBVIOUS
    <2>1. CASE UNCHANGED balances
      BY <2>1 DEF Conservation
    <2>2. ASSUME NEW c \in Commands, ApplyFresh(c) PROVE Conservation'
      <3>1. c \in CommandType /\ BooksInv /\ Accepts(c) /\ Handler(c)
        BY <2>2, CommandsAssumption DEF ApplyFresh, LedgerInv
      <3>2. PICK txn \in [Accounts -> Int] : CanPost(txn) /\ Post(txn)
        BY <3>1, HandlerPosts
      <3> QED BY <3>1, <3>2, PostConserves DEF BooksInv, BooksType
    <2> QED BY <2>1, <2>2 DEF Next, vars, Apply, Refuse, Duplicate, Conflict, RefuseHalted
  <1> QED BY <1>1, <1>2, InitLedgerInv, NextKeepsLedgerInv, PTL DEF Spec

-----------------------------------------------------------------------------
(***************************************************************************)
(* The tracked quantity of a token: what its free account and the accounts *)
(* of all reservations hold together.                                      *)
(***************************************************************************)
HeldIn(f, t) == [r \in ReservationIds |-> f[TokenReserved(r, t)]]
QuantityBacked ==
    \A t \in Tokens :
        costs[t].quantity =
            balances[TokenAvailable(t)] + Sum(ReservationIds, HeldIn(balances, t))

\* What a transaction moves in and out of the reservations of a token.
LEMMA MovedIntoReservations ==
    ASSUME NEW txn \in [Accounts -> Int], NEW r \in ReservationIds, NEW asset \in Assets,
           NEW delta \in Int, ReservedMove(txn, r, asset, delta), NEW t \in Tokens
    PROVE  Sum(ReservationIds, HeldIn(txn, t)) = IF t = asset THEN delta ELSE 0
  <1> DEFINE f == HeldIn(txn, t)
  <1>1. \A q \in ReservationIds : f[q] = IF q = r /\ t = asset THEN delta ELSE 0
    BY TokensAssumption DEF HeldIn, ReservedMove, ReservedAccount, Assets
  <1> HIDE DEF f
  <1>2. \A q \in ReservationIds : f[q] \in Int
    BY <1>1
  <1>3. IsFiniteSet(ReservationIds) /\ IsFiniteSet(ReservationIds \ {r})
    BY FiniteAssumption, FS_Subset
  <1>4. Sum(ReservationIds, f) = f[r] + Sum(ReservationIds \ {r}, f)
    BY <1>2, <1>3, SumTakesOut
  <1>5. Sum(ReservationIds \ {r}, f) = 0
    BY <1>1, <1>3, SumOfZeros
  <1>6. f[r] = IF t = asset THEN delta ELSE 0
    BY <1>1
  <1> QED BY <1>4, <1>5, <1>6 DEF f

LEMMA NothingIntoReservations ==
    ASSUME NEW txn \in [Accounts -> Int], NoReservedMove(txn), NEW t \in Tokens
    PROVE  Sum(ReservationIds, HeldIn(txn, t)) = 0
  <1> DEFINE f == HeldIn(txn, t)
  <1>1. \A q \in ReservationIds : f[q] = 0
    BY TokensAssumption DEF HeldIn, NoReservedMove, ReservedAccount, Assets
  <1> HIDE DEF f
  <1>2. Sum(ReservationIds, f) = 0
    BY <1>1, FiniteAssumption, SumOfZeros
  <1> QED BY <1>2 DEF f

\* A transaction that moves the accounts of a token as its tracked quantity moves.
LEMMA MovedQuantities ==
    ASSUME BooksInv, QuantityBacked, NEW txn \in [Accounts -> Int], CanPost(txn), Post(txn),
           \A t \in Tokens :
               costs'[t].quantity = costs[t].quantity + txn[TokenAvailable(t)]
                                    + Sum(ReservationIds, HeldIn(txn, t))
    PROVE  QuantityBacked'
  <1> SUFFICES ASSUME NEW t \in Tokens
               PROVE  costs'[t].quantity =
                  balances'[TokenAvailable(t)] + Sum(ReservationIds, HeldIn(balances', t))
    BY DEF QuantityBacked, HeldIn
  <1> DEFINE f == HeldIn(balances, t)
             g == HeldIn(txn, t)
             h == HeldIn(balances', t)
  <1>1. balances \in [Accounts -> Int]
    BY DEF BooksInv, BooksType
  <1>2. \A a \in Accounts : balances'[a] = balances[a] + txn[a]
    BY <1>1, PostEffect
  <1>3. /\ TokenAvailable(t) \in Accounts
        /\ \A r \in ReservationIds : TokenReserved(r, t) \in Accounts
    BY AccountMembership
  <1>4. \A r \in ReservationIds : f[r] \in Int /\ g[r] \in Int /\ h[r] = f[r] + g[r]
    BY <1>1, <1>2, <1>3 DEF HeldIn
  <1> HIDE DEF f, g, h
  <1>5. Sum(ReservationIds, h) = Sum(ReservationIds, f) + Sum(ReservationIds, g)
    BY <1>4, FiniteAssumption, SumAdds
  <1>6. Sum(ReservationIds, f) \in Int /\ Sum(ReservationIds, g) \in Int
    BY <1>4, FiniteAssumption, SumIsInteger
  <1>7. costs[t].quantity = balances[TokenAvailable(t)] + Sum(ReservationIds, f)
    BY DEF QuantityBacked, f
  <1>8. costs'[t].quantity = costs[t].quantity + txn[TokenAvailable(t)] + Sum(ReservationIds, g)
    BY DEF g
  <1>9. /\ balances[TokenAvailable(t)] \in Int /\ txn[TokenAvailable(t)] \in Int
        /\ balances'[TokenAvailable(t)] = balances[TokenAvailable(t)] + txn[TokenAvailable(t)]
    BY <1>1, <1>2, <1>3
  <1>10. costs'[t].quantity = balances'[TokenAvailable(t)] + Sum(ReservationIds, h)
    BY <1>5, <1>6, <1>7, <1>8, <1>9
  <1> QED BY <1>10 DEF h

\* Every handler moves the quantity it tracks.
LEMMA HandlerKeepsQuantities ==
    ASSUME BooksInv, QuantityBacked, NEW c \in CommandType, Accepts(c), Handler(c)
    PROVE  QuantityBacked'
  <1>t. /\ reservations \in [ReservationIds -> ReservationType]
        /\ costs \in [Tokens -> [quantity : Int, cost : Int]]
        /\ locks \in [LockIds -> LockType]
    BY DEF BooksInv, BooksType
  <1>a. \A t \in Tokens : TokenAvailable(t) \in Accounts
    BY AccountMembership
  <1>1. CASE c.op = "FundCollateral"
    <2> DEFINE txn == FundPostings(c)
    <2>1. txn \in [Accounts -> Int] /\ NoReservedMove(txn)
      BY <1>1, FundPostingsAt
    <2>2. CanPost(txn) /\ Post(txn) /\ costs' = costs
      BY <1>1 DEF Accepts, Handler, CanFund, FundCollateral
    <2>3. \A t \in Tokens : txn[TokenAvailable(t)] = 0
      BY <1>a, AccountIdentity DEF FundPostings
    <2> HIDE DEF txn
    <2>4. \A t \in Tokens : Sum(ReservationIds, HeldIn(txn, t)) = 0
      BY <2>1, NothingIntoReservations
    <2>5. \A t \in Tokens : costs[t].quantity \in Int
      BY <1>t
    <2> QED BY <2>1, <2>2, <2>3, <2>4, <2>5, MovedQuantities
  <1>2. CASE c.op \in {"ReserveCollateral", "ReserveToken"}
    <2> DEFINE txn == ReservePostings(c)
               asset == ReservedAsset(c)
    <2>1. /\ asset \in Assets /\ txn \in [Accounts -> Int]
          /\ ReservedMove(txn, c.r, asset, c.amount)
      BY <1>2, ReservePostingsAt
    <2>2. CanPost(txn) /\ Post(txn) /\ costs' = costs
      BY <1>2 DEF Accepts, Handler, CanReserve, Reserve
    <2>f. c.amount \in Int /\ c.r \in ReservationIds
      BY <1>2, CommandFields
    <2>3. \A t \in Tokens : txn[TokenAvailable(t)] = IF t = asset THEN -c.amount ELSE 0
      BY <1>a, <2>1, AccountIdentity, TokensAssumption
         DEF ReservePostings, FreeAccount, ReservedAccount, Assets
    <2> HIDE DEF txn, asset
    <2>4. \A t \in Tokens : Sum(ReservationIds, HeldIn(txn, t))
            = IF t = asset THEN c.amount ELSE 0
      BY <2>1, <2>f, MovedIntoReservations
    <2>5. \A t \in Tokens : costs[t].quantity \in Int
      BY <1>t
    <2>6. \A t \in Tokens :
               costs'[t].quantity = costs[t].quantity + txn[TokenAvailable(t)]
                                    + Sum(ReservationIds, HeldIn(txn, t))
      BY <2>2, <2>f, <2>3, <2>4, <2>5
    <2> QED BY <2>1, <2>2, <2>6, MovedQuantities
  <1>3. CASE c.op = "ReleaseReservation"
    <2> DEFINE txn == ReleasePostings(c)
               asset == reservations[c.r].asset
               amount == reservations[c.r].remaining
    <2>1. txn \in [Accounts -> Int] /\ ReservedMove(txn, c.r, asset, -amount)
      BY <1>3, <1>t, ReleasePostingsAt
    <2>2. CanPost(txn) /\ Post(txn) /\ costs' = costs
      BY <1>3 DEF Accepts, Handler, CanRelease, Release
    <2>f. amount \in Int /\ asset \in Assets /\ c.r \in ReservationIds
      BY <1>3, <1>t, CommandFields DEF ReservationType, Assets
    <2>3. \A t \in Tokens : txn[TokenAvailable(t)] = IF t = asset THEN amount ELSE 0
      BY <1>a, <2>f, AccountIdentity, TokensAssumption
         DEF ReleasePostings, FreeAccount, ReservedAccount, Assets
    <2> HIDE DEF txn, asset, amount
    <2>4. \A t \in Tokens : Sum(ReservationIds, HeldIn(txn, t)) = IF t = asset THEN -amount ELSE 0
      BY <2>1, <2>f, MovedIntoReservations
    <2>5. \A t \in Tokens : costs[t].quantity \in Int
      BY <1>t
    <2>6. \A t \in Tokens :
               costs'[t].quantity = costs[t].quantity + txn[TokenAvailable(t)]
                                    + Sum(ReservationIds, HeldIn(txn, t))
      BY <2>2, <2>f, <2>3, <2>4, <2>5
    <2> QED BY <2>1, <2>2, <2>6, MovedQuantities
  <1>4. CASE c.op = "ConfirmBuy"
    <2> DEFINE txn == BuyPostings(c)
               amount == -(c.consideration + c.fee)
    <2>1. txn \in [Accounts -> Int] /\ ReservedMove(txn, c.r, Collateral, amount)
      BY <1>4, BuyPostingsAt
    <2>2. /\ CanPost(txn) /\ Post(txn)
          /\ costs' = AddCost(costs, c.token, c.quantity, c.consideration)
      BY <1>4 DEF Accepts, Handler, CanConfirmBuy, ConfirmBuy
    <2>f. /\ c.r \in ReservationIds /\ c.token \in Tokens /\ c.quantity \in Int
          /\ amount \in Int /\ Collateral \in Assets
      BY <1>4, CommandFields DEF Assets
    <2>3. \A t \in Tokens : txn[TokenAvailable(t)] = IF t = c.token THEN c.quantity ELSE 0
      BY <1>a, <2>f, AccountIdentity DEF BuyPostings
    <2> HIDE DEF txn, amount
    <2>4. \A t \in Tokens : Sum(ReservationIds, HeldIn(txn, t)) = 0
      BY <2>1, <2>f, MovedIntoReservations, TokensAssumption
    <2>5. \A t \in Tokens : /\ costs[t].quantity \in Int
                            /\ costs'[t].quantity =
                                  costs[t].quantity + IF t = c.token THEN c.quantity ELSE 0
      BY <1>t, <2>2, <2>f DEF AddCost
    <2>6. \A t \in Tokens :
               costs'[t].quantity = costs[t].quantity + txn[TokenAvailable(t)]
                                    + Sum(ReservationIds, HeldIn(txn, t))
      BY <2>f, <2>3, <2>4, <2>5
    <2> QED BY <2>1, <2>2, <2>6, MovedQuantities
  <1>5. CASE c.op \in {"ConfirmSell", "ConfirmRedemption"}
    <2> DEFINE txn == IF c.op = "ConfirmSell" THEN SellPostings(c) ELSE RedemptionPostings(c)
               asset == reservations[c.r].asset
               amount == -c.quantity
    <2>1. /\ c.r \in ReservationIds /\ c.quantity \in Int /\ asset \in Tokens
          /\ CanAllocate(asset, c.quantity)
      BY <1>5, CommandFields DEF Accepts, CanConfirmSell, CanConfirmRedemption, Valid
    <2>2. AllocateCost(asset, c.quantity) \in Int
      BY <1>t, <2>1, AllocateCostType
    <2>3. txn \in [Accounts -> Int] /\ ReservedMove(txn, c.r, asset, amount)
      BY <1>5, <2>1, <2>2, SellPostingsAt, RedemptionPostingsAt
    <2>4. /\ CanPost(txn) /\ Post(txn)
          /\ costs' = ReduceCost(costs, asset, c.quantity, AllocateCost(asset, c.quantity))
      BY <1>5 DEF Accepts, Handler, CanConfirmSell, ConfirmSell, CanConfirmRedemption, Valid,
                  ConfirmRedemption
    <2>5. \A t \in Tokens : txn[TokenAvailable(t)] = 0
      BY <1>a, <2>1, AccountIdentity DEF SellPostings, RedemptionPostings
    <2>6. amount \in Int /\ asset \in Assets /\ amount = -c.quantity
      BY <2>1 DEF Assets
    <2> HIDE DEF txn, asset, amount
    <2>7. \A t \in Tokens : Sum(ReservationIds, HeldIn(txn, t)) = IF t = asset THEN amount ELSE 0
      BY <2>1, <2>3, <2>6, MovedIntoReservations
    <2>8. \A t \in Tokens : /\ costs[t].quantity \in Int
                            /\ costs'[t].quantity =
                                  IF t = asset THEN costs[t].quantity - c.quantity
                                  ELSE costs[t].quantity
      BY <1>t, <2>1, <2>4 DEF ReduceCost
    <2>9. \A t \in Tokens :
               costs'[t].quantity = costs[t].quantity + txn[TokenAvailable(t)]
                                    + Sum(ReservationIds, HeldIn(txn, t))
      BY <2>1, <2>5, <2>6, <2>7, <2>8
    <2> QED BY <2>3, <2>4, <2>9, MovedQuantities
  <1>6. CASE c.op = "LockPair"
    <2> DEFINE txn == LockPostings(c)
               upCost == AllocateCost(c.up, c.quantity)
               downCost == AllocateCost(c.down, c.quantity)
    <2>1. /\ c.up \in Tokens /\ c.down \in Tokens /\ c.quantity \in Int /\ c.up # c.down
          /\ CanAllocate(c.up, c.quantity) /\ CanAllocate(c.down, c.quantity)
      BY <1>6, CommandFields DEF Accepts, CanLockPair, ValidPair, Valid
    <2>2. upCost \in Int /\ downCost \in Int
      BY <1>t, <2>1, AllocateCostType
    <2>3. txn \in [Accounts -> Int] /\ NoReservedMove(txn)
      BY <1>6, <2>1, <2>2, LockPostingsAt
    <2>4. /\ CanPost(txn) /\ Post(txn)
          /\ costs' = ReduceCost(ReduceCost(costs, c.up, c.quantity, upCost),
                                 c.down, c.quantity, downCost)
      BY <1>6 DEF Accepts, Handler, CanLockPair, LockPair
    <2>5. \A t \in Tokens :
              txn[TokenAvailable(t)] = IF t \in {c.up, c.down} THEN -c.quantity ELSE 0
      BY <1>a, <2>1, AccountIdentity DEF LockPostings
    <2> HIDE DEF txn, upCost, downCost
    <2>6. \A t \in Tokens : Sum(ReservationIds, HeldIn(txn, t)) = 0
      BY <2>3, NothingIntoReservations
    <2>7. \A t \in Tokens : /\ costs[t].quantity \in Int
                            /\ costs'[t].quantity =
                                  IF t \in {c.up, c.down} THEN costs[t].quantity - c.quantity
                                  ELSE costs[t].quantity
      BY <1>t, <2>1, <2>4 DEF ReduceCost
    <2>8. \A t \in Tokens :
               costs'[t].quantity = costs[t].quantity + txn[TokenAvailable(t)]
                                    + Sum(ReservationIds, HeldIn(txn, t))
      BY <2>1, <2>5, <2>6, <2>7
    <2> QED BY <2>3, <2>4, <2>8, MovedQuantities
  <1>7. CASE c.op = "ConfirmMerge"
    <2> DEFINE txn == MergePostings(c)
    <2>1. txn \in [Accounts -> Int] /\ NoReservedMove(txn)
      BY <1>7, <1>t, MergePostingsAt
    <2>2. CanPost(txn) /\ Post(txn) /\ costs' = costs
      BY <1>7 DEF Accepts, Handler, CanConfirmMerge, ConfirmMerge
    <2>3. \A t \in Tokens : txn[TokenAvailable(t)] = 0
      BY <1>a, AccountIdentity DEF MergePostings
    <2> HIDE DEF txn
    <2>4. \A t \in Tokens : Sum(ReservationIds, HeldIn(txn, t)) = 0
      BY <2>1, NothingIntoReservations
    <2>5. \A t \in Tokens : costs[t].quantity \in Int
      BY <1>t
    <2> QED BY <2>1, <2>2, <2>3, <2>4, <2>5, MovedQuantities
  <1>8. CASE c.op = "ConfirmSplit"
    <2> DEFINE txn == SplitPostings(c)
               amount == -c.quantity
    <2>1. /\ c.r \in ReservationIds /\ c.up \in Tokens /\ c.down \in Tokens
          /\ c.quantity \in Int /\ c.up # c.down /\ amount \in Int /\ Collateral \in Assets
      BY <1>8, CommandFields DEF Accepts, CanConfirmSplit, ValidPair, Assets, Valid
    <2>2. txn \in [Accounts -> Int] /\ ReservedMove(txn, c.r, Collateral, amount)
      BY <1>8, <2>1, SplitPostingsAt
    <2>3. /\ CanPost(txn) /\ Post(txn)
          /\ costs' = AddCost(AddCost(costs, c.up, c.quantity, UpCost(c)),
                              c.down, c.quantity, DownCost(c))
      BY <1>8 DEF Accepts, Handler, CanConfirmSplit, ConfirmSplit
    <2>4. \A t \in Tokens :
              txn[TokenAvailable(t)] = IF t \in {c.up, c.down} THEN c.quantity ELSE 0
      BY <1>a, <2>1, AccountIdentity DEF SplitPostings
    <2> HIDE DEF txn, amount
    <2>5. \A t \in Tokens : Sum(ReservationIds, HeldIn(txn, t)) = 0
      BY <2>1, <2>2, MovedIntoReservations, TokensAssumption
    <2>6. \A t \in Tokens : /\ costs[t].quantity \in Int
                            /\ costs'[t].quantity =
                                  IF t \in {c.up, c.down} THEN costs[t].quantity + c.quantity
                                  ELSE costs[t].quantity
      BY <1>t, <2>1, <2>3 DEF AddCost
    <2>7. \A t \in Tokens :
               costs'[t].quantity = costs[t].quantity + txn[TokenAvailable(t)]
                                    + Sum(ReservationIds, HeldIn(txn, t))
      BY <2>1, <2>4, <2>5, <2>6
    <2> QED BY <2>2, <2>3, <2>7, MovedQuantities
  <1> QED BY <1>1, <1>2, <1>3, <1>4, <1>5, <1>6, <1>7, <1>8 DEF Handler

\* The reservations hold what their accounts hold.
LEMMA QuantitiesAreInventory == BooksInv /\ QuantityBacked => InventoryBacked
  <1> SUFFICES ASSUME BooksInv, QuantityBacked, NEW t \in Tokens
               PROVE  costs[t].quantity = balances[TokenAvailable(t)] +
                         MapThenSumSet(LAMBDA r : reservations[r].remaining,
                            {r \in ReservationIds : /\ reservations[r].asset = t
                                                    /\ ActiveReservation(r)})
    BY DEF InventoryBacked
  <1> DEFINE active == {r \in ReservationIds : reservations[r].asset = t /\ ActiveReservation(r)}
             held == HeldIn(balances, t)
             left == [r \in ReservationIds |-> reservations[r].remaining]
             Fits(g) == g = [s \in SUBSET active |->
                                IF s = {} THEN 0
                                ELSE reservations[Some(s)].remaining + g[Rest(s)]]
             table == CHOOSE g : Fits(g)
  <1>1. IsFiniteSet(ReservationIds) /\ IsFiniteSet(active) /\ active \in SUBSET ReservationIds
    BY FiniteAssumption, FS_Subset
  <1>2. \A r \in ReservationIds : held[r] = IF r \in active THEN left[r] ELSE 0
    BY TokensAssumption DEF HeldIn, BooksInv, ReservationBacked, ReservedAccount
  <1>3. \A r \in ReservationIds : left[r] \in Int
    BY DEF BooksInv, BooksType, ReservationType
  <1>4. \A s \in SUBSET active : s # {} => left[Some(s)] = reservations[Some(s)].remaining
    BY <1>1, RestIsLess
  <1>5. \A g : Fits(g) <=> SumsUp(g, active, left)
    BY <1>4 DEF SumsUp
  <1>6. MapThenSumSet(LAMBDA r : reservations[r].remaining, active) = table[active]
    BY DEF MapThenSumSet, MapThenFoldSet, Some, Rest
  <1> HIDE DEF held, left, Fits, active
  <1>7. PICK g : SumsUp(g, active, left) /\ Sum(active, left) = g[active]
    BY <1>1, SumInTable
  <1>8. Fits(table)
    BY <1>5, <1>7
  <1>9. SumsUp(table, active, left)
    BY <1>5, <1>8
  <1>10. table[active] = g[active]
    BY <1>1, <1>7, <1>9, TablesAgree
  <1>11. Sum(active, held) = Sum(active, left)
    BY <1>1, <1>2, SumOfEquals
  <1>12. Sum(ReservationIds, held) = Sum(active, held)
    BY <1>1, <1>2, <1>3, SumOfPart
  <1>13. MapThenSumSet(LAMBDA r : reservations[r].remaining, active) = Sum(ReservationIds, held)
    BY <1>6, <1>7, <1>10, <1>11, <1>12
  <1>14. costs[t].quantity = balances[TokenAvailable(t)] + Sum(ReservationIds, held)
    BY DEF QuantityBacked, held
  <1> QED BY <1>13, <1>14 DEF active

\* The tracked position of every token is what is free of it plus what its active
\* reservations still hold, whatever was reserved, released, bought, sold, locked, merged,
\* split or redeemed, in part or in full.
THEOREM LedgerInventoryBacked == Spec => []InventoryBacked
  <1>1. Init => QuantityBacked
    <2> SUFFICES ASSUME Init, NEW t \in Tokens
                 PROVE  costs[t].quantity =
                    balances[TokenAvailable(t)] + Sum(ReservationIds, HeldIn(balances, t))
      BY DEF QuantityBacked
    <2>1. \A r \in ReservationIds : HeldIn(balances, t)[r] = 0
      BY AccountMembership DEF Init, ZeroBalances, HeldIn
    <2>2. Sum(ReservationIds, HeldIn(balances, t)) = 0
      BY <2>1, FiniteAssumption, SumOfZeros
    <2>3. costs[t].quantity = 0 /\ balances[TokenAvailable(t)] = 0
      BY AccountMembership DEF Init, ZeroBalances, NoCosts
    <2> QED BY <2>2, <2>3
  <1>2. LedgerInv /\ QuantityBacked /\ [Next]_vars => QuantityBacked'
    <2> SUFFICES ASSUME LedgerInv, QuantityBacked, [Next]_vars PROVE QuantityBacked'
      OBVIOUS
    <2>1. CASE UNCHANGED <<balances, costs>>
      BY <2>1 DEF QuantityBacked, HeldIn
    <2>2. ASSUME NEW c \in Commands, ApplyFresh(c) PROVE QuantityBacked'
      BY <2>2, CommandsAssumption, HandlerKeepsQuantities DEF ApplyFresh, LedgerInv
    <2> QED BY <2>1, <2>2 DEF Next, vars, Apply, Refuse, Duplicate, Conflict, RefuseHalted
  <1>3. LedgerInv /\ QuantityBacked => InventoryBacked
    BY QuantitiesAreInventory DEF LedgerInv
  <1> QED BY <1>1, <1>2, <1>3, InitLedgerInv, NextKeepsLedgerInv, PTL DEF Spec

-----------------------------------------------------------------------------
(***************************************************************************)
(* The durable owner, for every set of commands.  What the live ledger, or *)
(* the one being rebuilt, has processed is the entries it has read, until  *)
(* a conflict halts it; a restart stops before it would halt.              *)
(***************************************************************************)
Entries(n) == {log[i] : i \in 1..n}

DurableInv ==
    /\ log \in Seq(Commands) /\ synced \in 0..Len(log) /\ cursor \in Nat
    /\ halted \in BOOLEAN
    /\ acked \subseteq Entries(synced)
    /\ phase = "running" =>
           /\ processed \subseteq Entries(Len(log)) /\ acked \subseteq processed
           /\ ~halted => processed = Entries(Len(log))
    /\ phase = "appended" =>
           /\ ~halted /\ Len(log) > 0 /\ processed = Entries(Len(log) - 1)
           /\ acked \subseteq processed
    /\ phase = "recovering" =>
           ~halted /\ cursor <= Len(log) /\ processed = Entries(cursor)

\* What is synced was read or will be: the entries of a prefix are those of the journal.
LEMMA EntriesGrow ==
    ASSUME log \in Seq(Commands), NEW m \in Nat, NEW n \in 0..m
    PROVE  Entries(n) \subseteq Entries(m)
  BY DEF Entries

\* One entry more.
LEMMA EntriesNext ==
    ASSUME NEW n \in Nat
    PROVE  Entries(n + 1) = Entries(n) \cup {log[n + 1]}
  <1>1. 1..(n + 1) = (1..n) \cup {n + 1}
    OBVIOUS
  <1> QED BY <1>1 DEF Entries

\* An accepted entry, a repeated one and a conflicting one.
LEMMA AppliedEntry ==
    ASSUME NEW c, ApplyFresh(c) \/ Duplicate(c)
    PROVE  processed' = processed \cup {c} /\ ~halted /\ halted' = halted
  BY DEF ApplyFresh, Duplicate

\* The initial states satisfy the invariant.
LEMMA DurableInvInit == DurableInit => DurableInv
  <1> SUFFICES ASSUME DurableInit PROVE DurableInv
    OBVIOUS
  <1>1. log = <<>> /\ synced = 0 /\ cursor = 0 /\ phase = "running"
    BY DEF DurableInit, JournalInit
  <1>2. processed = {} /\ halted = FALSE /\ acked = {}
    BY DEF DurableInit, Init
  <1>h. halted \in BOOLEAN /\ ~halted
    BY <1>2
  <1>3. log \in Seq(Commands) /\ Len(log) = 0
    BY <1>1, EmptySeq
  <1>4. Entries(0) = {}
    BY DEF Entries
  <1>5. processed = {} /\ acked = {}
    BY <1>2
  <1> QED BY <1>1, <1>h, <1>3, <1>4, <1>5 DEF DurableInv

\* An append leaves the entries before it.
LEMMA AppendedEntries ==
    ASSUME log \in Seq(Commands), NEW c \in Commands, log' = Append(log, c)
    PROVE  /\ log' \in Seq(Commands) /\ Len(log') = Len(log) + 1
           /\ \A n \in 0..Len(log) : Entries(n)' = Entries(n)
  <1>1. /\ log' \in Seq(Commands) /\ Len(log') = Len(log) + 1
        /\ \A i \in 1..Len(log) : log'[i] = log[i]
    BY AppendProperties
  <1>2. Len(log) \in Nat
    BY LenProperties
  <1>3. ASSUME NEW n \in 0..Len(log)
        PROVE  {log'[i] : i \in 1..n} = {log[i] : i \in 1..n}
    <2>1. \A i \in 1..n : log'[i] = log[i]
      BY <1>1, <1>2
    <2> QED BY <2>1
  <1> QED BY <1>1, <1>3 DEF Entries

\* So does a power loss, up to what it leaves.
LEMMA TruncatedEntries ==
    ASSUME log \in Seq(Commands), NEW k \in 0..Len(log), log' = SubSeq(log, 1, k)
    PROVE  /\ log' \in Seq(Commands) /\ Len(log') = k
           /\ \A n \in 0..k : Entries(n)' = Entries(n)
  <1>0. Len(log) \in Nat
    BY LenProperties
  <1>1. /\ log' \in Seq(Commands) /\ Len(log') = k
        /\ \A i \in 1..k : log'[i] = log[i]
    BY <1>0, SubSeqProperties, ElementOfSeq
  <1>2. ASSUME NEW n \in 0..k
        PROVE  {log'[i] : i \in 1..n} = {log[i] : i \in 1..n}
    <2>1. \A i \in 1..n : log'[i] = log[i]
      BY <1>1
    <2> QED BY <2>1
  <1> QED BY <1>1, <1>2 DEF Entries

\* Every step of the owner preserves the invariant.
LEMMA DurableInvNext ==
    ASSUME DurableInv, [DurableNext]_durableVars
    PROVE  DurableInv'
  <1>0. log \in Seq(Commands) /\ Len(log) \in Nat /\ synced \in 0..Len(log)
    BY LenProperties DEF DurableInv
  <1>k. UNCHANGED log => \A n \in Nat : Entries(n)' = Entries(n)
    BY DEF Entries
  <1>1. ASSUME NEW c \in Commands, ApplyRefused(c)
        PROVE  DurableInv'
    BY <1>0, <1>k, <1>1 DEF ApplyRefused, Refuse, RefuseHalted, journalVars, DurableInv
  <1>2. ASSUME NEW c \in Commands, AppendCommand(c)
        PROVE  DurableInv'
    <2>1. /\ log' \in Seq(Commands) /\ Len(log') = Len(log) + 1
          /\ \A n \in 0..Len(log) : Entries(n)' = Entries(n)
      BY <1>0, <1>2, AppendedEntries DEF AppendCommand, AppendEntry
    <2>2. /\ phase = "running" /\ phase' = "appended" /\ ~halted
          /\ UNCHANGED <<synced, cursor, processed, halted, acked>>
      BY <1>2 DEF AppendCommand, AppendEntry, Journaled, vars
    <2> QED BY <1>0, <2>1, <2>2 DEF DurableInv
  <1>3. ASSUME NEW c \in Commands, AppendFails(c)
        PROVE  DurableInv'
    <2>1. /\ phase' = "poisoned" /\ UNCHANGED <<synced, cursor, processed, halted, acked>>
          /\ log' = log \/ log' = Append(log, c)
      BY <1>3 DEF AppendFails, FailAppend, vars
    <2>2. /\ log' \in Seq(Commands) /\ Len(log') >= Len(log) /\ Len(log') \in Nat
          /\ \A n \in 0..Len(log) : Entries(n)' = Entries(n)
      <3>1. CASE log' = log
        BY <1>0, <1>k, <3>1
      <3>2. CASE log' = Append(log, c)
        BY <1>0, <3>2, AppendedEntries
      <3> QED BY <2>1, <3>1, <3>2
    <2> QED BY <1>0, <2>1, <2>2 DEF DurableInv
  <1>4. CASE SyncAndInstall
    <2> DEFINE n == Len(log)
               c == Last(log)
    <2>1. /\ phase = "appended" /\ phase' = "running" /\ synced' = n
          /\ UNCHANGED <<log, cursor>>
      BY <1>4 DEF SyncAndInstall, SyncEntry
    <2>2. /\ ~halted /\ n > 0 /\ processed = Entries(n - 1)
          /\ acked \subseteq Entries(synced) /\ acked \subseteq processed
      BY <2>1 DEF DurableInv
    <2>3. Entries(n) = Entries(n - 1) \cup {c} /\ Entries(n)' = Entries(n)
      <3>1. n - 1 \in Nat /\ n - 1 + 1 = n
        BY <1>0, <2>2
      <3>2. c = log[n]
        BY DEF Last
      <3> QED BY <1>0, <1>k, <2>1, <3>1, <3>2, EntriesNext
    <2>4. Entries(synced) \subseteq Entries(n)
      BY <1>0, EntriesGrow
    <2>5. acked' = acked \cup (IF halted' THEN {} ELSE {c})
      BY <1>4 DEF SyncAndInstall
    <2> HIDE DEF n, c
    <2>6. CASE ApplyFresh(c) \/ Duplicate(c)
      <3>1. processed' = processed \cup {c}
        BY <2>6, AppliedEntry
      <3>2. halted' \in BOOLEAN /\ ~halted'
        BY <2>2, <2>6, AppliedEntry DEF DurableInv
      <3>3. acked' = acked \cup {c}
        BY <2>5, <3>2
      <3>4. processed' = Entries(n)' /\ acked' \subseteq processed' /\ acked' \subseteq Entries(n)'
        BY <2>2, <2>3, <3>1, <3>3
      <3>5. Len(log)' = n
        BY <2>1 DEF n
      <3> QED BY <1>0, <2>1, <3>2, <3>4, <3>5 DEF DurableInv, n
    <2>7. CASE Conflict(c)
      <3>1. processed' = processed
        BY <2>7 DEF Conflict
      <3>2. halted' \in BOOLEAN /\ halted'
        BY <2>7 DEF Conflict
      <3>3. acked' = acked
        BY <2>5, <3>2
      <3>4. /\ processed' \subseteq Entries(n)' /\ acked' \subseteq processed'
            /\ acked' \subseteq Entries(n)'
        BY <2>2, <2>3, <3>1, <3>3
      <3>5. Len(log)' = n
        BY <2>1 DEF n
      <3> QED BY <1>0, <2>1, <3>2, <3>4, <3>5 DEF DurableInv, n
    <2> QED BY <1>4, <2>6, <2>7 DEF SyncAndInstall, c
  <1>5. CASE SyncFails \/ WriteCheckpoint \/ CheckpointMissing
    BY <1>0, <1>5, <1>k DEF SyncFails, FailSync, WriteCheckpoint, CheckpointMissing,
               MissCheckpoint,
         vars, journalVars, DurableInv
  <1>6. CASE Crash
    <2>1. phase' = "crashed" /\ UNCHANGED <<cursor, processed, halted, acked>>
      BY <1>6 DEF Crash, ProcessCrash, PowerLoss, vars
    <2>2. CASE ProcessCrash
      BY <1>0, <1>k, <2>1, <2>2 DEF ProcessCrash, DurableInv
    <2>3. CASE PowerLoss
      <3>1. PICK k \in synced..Len(log) : log' = SubSeq(log, 1, k) /\ synced' = k
        BY <2>3 DEF PowerLoss
      <3>2. k \in 0..Len(log) /\ synced \in 0..k
        BY <1>0, <3>1
      <3>3. /\ log' \in Seq(Commands) /\ Len(log') = k
            /\ \A n \in 0..k : Entries(n)' = Entries(n)
        BY <1>0, <3>1, <3>2, TruncatedEntries
      <3>4. Entries(synced) \subseteq Entries(k)
        BY <1>0, <3>2, EntriesGrow
      <3>5. acked' \subseteq Entries(k)'
        BY <2>1, <3>2, <3>3, <3>4 DEF DurableInv
      <3> QED BY <2>1, <3>1, <3>2, <3>3, <3>5 DEF DurableInv
    <2> QED BY <1>6, <2>2, <2>3 DEF Crash
  <1>7. CASE StartRecovery
    <2>1. Entries(0)' = {}
      BY DEF Entries
    <2>2. /\ phase' = "recovering" /\ cursor' = 0 /\ processed' = {}
          /\ UNCHANGED <<log, synced, acked>>
      BY <1>7 DEF StartRecovery, BeginReplay
    <2>3. halted' \in BOOLEAN /\ ~halted'
      BY <1>7 DEF StartRecovery
    <2> QED BY <1>0, <1>k, <2>1, <2>2, <2>3 DEF DurableInv
  <1>8. CASE Replay
    <2>1. /\ phase = "recovering" /\ phase' = "recovering" /\ cursor < Len(log)
          /\ cursor' = cursor + 1 /\ UNCHANGED <<log, synced, acked>>
      BY <1>8 DEF Replay, ReplayEntry
    <2>2. processed' = processed \cup {log[cursor + 1]}
      BY <1>8, AppliedEntry DEF Replay
    <2>4. halted' \in BOOLEAN /\ ~halted'
      BY <1>8, AppliedEntry DEF Replay, DurableInv
    <2>3. Entries(cursor + 1) = Entries(cursor) \cup {log[cursor + 1]}
      BY EntriesNext DEF DurableInv
    <2> QED BY <1>0, <1>k, <2>1, <2>2, <2>3, <2>4 DEF DurableInv
  <1>9. CASE ReplayFails
    <2>1. phase' = "unrecoverable" /\ UNCHANGED <<log, synced, cursor, acked>>
      BY <1>9 DEF ReplayFails, RefuseEntry
    <2>2. halted' \in BOOLEAN
      BY <1>9 DEF ReplayFails, ApplyFresh, Duplicate, vars, DurableInv
    <2> QED BY <1>0, <1>k, <2>1, <2>2 DEF DurableInv
  <1>10. CASE FinishRecovery
    <2>1. /\ phase = "recovering" /\ cursor = Len(log) /\ phase' = "running"
          /\ UNCHANGED <<log, synced, cursor, processed, halted, acked>>
      BY <1>10 DEF FinishRecovery, EndReplay, vars
    <2>2. Entries(synced) \subseteq Entries(Len(log))
      BY <1>0, EntriesGrow
    <2> QED BY <1>0, <1>k, <2>1, <2>2 DEF DurableInv
  <1>11. CASE UNCHANGED durableVars
    BY <1>0, <1>k, <1>11 DEF durableVars, vars, journalVars, DurableInv
  <1> QED BY <1>1, <1>2, <1>3, <1>4, <1>5, <1>6, <1>7, <1>8, <1>9, <1>10, <1>11 DEF DurableNext

\* For every set of commands, whatever writes fail and whatever crashes come: a command whose
\* caller was told Ok is in the synced journal and in the books of every later incarnation.
THEOREM AcknowledgedCommandsSurvive == DurableSpec => []AcknowledgedSurvive
  <1>1. DurableInv => AcknowledgedSurvive
    BY DEF DurableInv, AcknowledgedSurvive, Entries
  <1>2. DurableInv /\ [DurableNext]_durableVars => DurableInv'
    BY DurableInvNext
  <1> QED BY <1>1, <1>2, DurableInvInit, PTL DEF DurableSpec

-----------------------------------------------------------------------------
(***************************************************************************)
(* The owner implements a ledger that never crashes.  What apply makes of  *)
(* an entry is a function of the digest it finds, so the journal has a     *)
(* course: the digests a ledger passes through that applies the entries    *)
(* one by one.  The live ledger, the one being rebuilt and the one of the  *)
(* last completed call are on that course, and the last is never more than *)
(* one entry behind the journal.  A restart therefore ends where the last  *)
(* call did, or one step of apply later, or, when a power loss took        *)
(* entries, at an earlier place.                                           *)
(***************************************************************************)

\* The handlers' texts, read in any books.
At(bs, rs, ks, ls) == INSTANCE AccountingLedger WITH
    balances <- bs, reservations <- rs, costs <- ks, locks <- ls,
    processed <- {}, halted <- FALSE, outcome <- "None"

\* What each handler makes of the books, as a function of them.
Moved(bs, txn) == [a \in Accounts |-> bs[a] + txn[a]]
Consumed(rs, r, amount) == [rs EXCEPT ![r] = Spent(rs[r], amount)]

FundAt(bs, rs, ks, ls, c) ==
    <<Moved(bs, FundPostings(c)), rs, ks, ls>>
ReserveAt(bs, rs, ks, ls, c) ==
    <<Moved(bs, ReservePostings(c)),
      [rs EXCEPT ![c.r] = [asset |-> ReservedAsset(c), original |-> c.amount,
                           remaining |-> c.amount, status |-> "Active"]],
      ks, ls>>
ReleaseAt(bs, rs, ks, ls, c) ==
    <<Moved(bs, At(bs, rs, ks, ls)!ReleasePostings(c)),
      [rs EXCEPT ![c.r] = [asset |-> rs[c.r].asset, original |-> rs[c.r].original,
                           remaining |-> 0, status |-> "Released"]],
      ks, ls>>
BuyAt(bs, rs, ks, ls, c) ==
    <<Moved(bs, BuyPostings(c)), Consumed(rs, c.r, c.consideration + c.fee),
      AddCost(ks, c.token, c.quantity, c.consideration), ls>>
Disposed(bs, rs, ks, ls, t, quantity) ==
    ReduceCost(ks, t, quantity, At(bs, rs, ks, ls)!AllocateCost(t, quantity))
SellAt(bs, rs, ks, ls, c) ==
    <<Moved(bs, At(bs, rs, ks, ls)!SellPostings(c)), Consumed(rs, c.r, c.quantity),
      Disposed(bs, rs, ks, ls, rs[c.r].asset, c.quantity), ls>>
RedemptionAt(bs, rs, ks, ls, c) ==
    <<Moved(bs, At(bs, rs, ks, ls)!RedemptionPostings(c)), Consumed(rs, c.r, c.quantity),
      Disposed(bs, rs, ks, ls, rs[c.r].asset, c.quantity), ls>>
LockAt(bs, rs, ks, ls, c) ==
    LET upCost == At(bs, rs, ks, ls)!AllocateCost(c.up, c.quantity)
        downCost == At(bs, rs, ks, ls)!AllocateCost(c.down, c.quantity)
    IN  <<Moved(bs, At(bs, rs, ks, ls)!LockPostings(c)), rs,
          ReduceCost(ReduceCost(ks, c.up, c.quantity, upCost), c.down, c.quantity, downCost),
          [ls EXCEPT ![c.l] = [up |-> c.up, down |-> c.down, quantity |-> c.quantity,
                               cost |-> upCost + downCost, payout |-> c.quantity,
                               status |-> "Active"]]>>
MergeAt(bs, rs, ks, ls, c) ==
    <<Moved(bs, At(bs, rs, ks, ls)!MergePostings(c)), rs, ks,
      [ls EXCEPT ![c.l].status = "Merged"]>>
SplitAt(bs, rs, ks, ls, c) ==
    <<Moved(bs, SplitPostings(c)), Consumed(rs, c.r, c.quantity),
      AddCost(AddCost(ks, c.up, c.quantity, UpCost(c)), c.down, c.quantity, DownCost(c)), ls>>

HandledAt(bs, rs, ks, ls, c) ==
    CASE c.op = "FundCollateral" -> FundAt(bs, rs, ks, ls, c)
      [] c.op \in {"ReserveCollateral", "ReserveToken"} -> ReserveAt(bs, rs, ks, ls, c)
      [] c.op = "ReleaseReservation" -> ReleaseAt(bs, rs, ks, ls, c)
      [] c.op = "ConfirmBuy" -> BuyAt(bs, rs, ks, ls, c)
      [] c.op = "ConfirmSell" -> SellAt(bs, rs, ks, ls, c)
      [] c.op = "LockPair" -> LockAt(bs, rs, ks, ls, c)
      [] c.op = "ConfirmMerge" -> MergeAt(bs, rs, ks, ls, c)
      [] c.op = "ConfirmSplit" -> SplitAt(bs, rs, ks, ls, c)
      [] OTHER -> RedemptionAt(bs, rs, ks, ls, c)

\* In the live books they are the handlers.
LEMMA SameText ==
    ASSUME NEW c, NEW t, NEW q
    PROVE  /\ At(balances, reservations, costs, locks)!ReleasePostings(c) = ReleasePostings(c)
           /\ At(balances, reservations, costs, locks)!AllocateCost(t, q) = AllocateCost(t, q)
           /\ At(balances, reservations, costs, locks)!SellPostings(c) = SellPostings(c)
           /\ At(balances, reservations, costs, locks)!RedemptionPostings(c)
                = RedemptionPostings(c)
           /\ At(balances, reservations, costs, locks)!LockPostings(c) = LockPostings(c)
           /\ At(balances, reservations, costs, locks)!MergePostings(c) = MergePostings(c)
  <1> USE DEF At!ReleasePostings, ReleasePostings, At!ReservedAccount, ReservedAccount,
        At!FreeAccount, FreeAccount, At!Accounts, Accounts, At!AllocateCost, AllocateCost,
        At!SellPostings, SellPostings, At!RedemptionPostings, RedemptionPostings,
        At!LockPostings, LockPostings, At!MergePostings, MergePostings,
        At!CashAvailable, CashAvailable, At!CashReserved, CashReserved,
        At!TokenAvailable, TokenAvailable, At!TokenReserved, TokenReserved,
        At!InventoryCost, InventoryCost, At!LockedToken, LockedToken, At!LockedCost, LockedCost,
        At!FeeExpense, FeeExpense, At!TradingRevenue, TradingRevenue,
        At!CostOfGoodsSold, CostOfGoodsSold, At!CapitalContributed, CapitalContributed,
        At!External, External, At!Collateral, At!NoId
  <1>1. At(balances, reservations, costs, locks)!ReleasePostings(c) = ReleasePostings(c)
    OBVIOUS
  <1>2. At(balances, reservations, costs, locks)!AllocateCost(t, q) = AllocateCost(t, q)
    OBVIOUS
  <1>3. At(balances, reservations, costs, locks)!SellPostings(c) = SellPostings(c)
    OBVIOUS
  <1>4. At(balances, reservations, costs, locks)!RedemptionPostings(c) = RedemptionPostings(c)
    OBVIOUS
  <1>5. At(balances, reservations, costs, locks)!LockPostings(c) = LockPostings(c)
    OBVIOUS
  <1>6. At(balances, reservations, costs, locks)!MergePostings(c) = MergePostings(c)
    OBVIOUS
  <1> QED BY <1>1, <1>2, <1>3, <1>4, <1>5, <1>6

\* A handler makes of the live books what that function says.
LEMMA HandledBooks ==
    ASSUME NEW c, Handler(c)
    PROVE  <<balances', reservations', costs', locks'>>
               = HandledAt(balances, reservations, costs, locks, c)
  <1> DEFINE next == <<balances', reservations', costs', locks'>>
  <1>1. CASE c.op = "FundCollateral" /\ FundCollateral(c)
    <2>1. next = FundAt(balances, reservations, costs, locks, c)
      BY <1>1 DEF FundCollateral, Post, FundAt, Moved
    <2> QED BY <1>1, <2>1 DEF HandledAt
  <1>2. CASE c.op \in {"ReserveCollateral", "ReserveToken"} /\ Reserve(c)
    <2>1. next = ReserveAt(balances, reservations, costs, locks, c)
      BY <1>2 DEF Reserve, Post, ReserveAt, Moved
    <2> QED BY <1>2, <2>1 DEF HandledAt
  <1>3. CASE c.op = "ReleaseReservation" /\ Release(c)
    <2>1. next = ReleaseAt(balances, reservations, costs, locks, c)
      BY <1>3, SameText DEF Release, Post, ReleaseAt, Moved
    <2> QED BY <1>3, <2>1 DEF HandledAt
  <1>4. CASE c.op = "ConfirmBuy" /\ ConfirmBuy(c)
    <2>1. next = BuyAt(balances, reservations, costs, locks, c)
      BY <1>4 DEF ConfirmBuy, Post, BuyAt, Moved, ConsumeReservation, Consumed
    <2> QED BY <1>4, <2>1 DEF HandledAt
  <1>5. CASE c.op = "ConfirmSell" /\ ConfirmSell(c)
    <2>1. next = SellAt(balances, reservations, costs, locks, c)
      BY <1>5, SameText
         DEF ConfirmSell, Post, SellAt, Moved, ConsumeReservation, Consumed, Disposed
    <2> QED BY <1>5, <2>1 DEF HandledAt
  <1>6. CASE c.op = "LockPair" /\ LockPair(c)
    <2>1. next = LockAt(balances, reservations, costs, locks, c)
      BY <1>6, SameText DEF LockPair, Post, LockAt, Moved
    <2> QED BY <1>6, <2>1 DEF HandledAt
  <1>7. CASE c.op = "ConfirmMerge" /\ ConfirmMerge(c)
    <2>1. next = MergeAt(balances, reservations, costs, locks, c)
      BY <1>7, SameText DEF ConfirmMerge, Post, MergeAt, Moved
    <2> QED BY <1>7, <2>1 DEF HandledAt
  <1>8. CASE c.op = "ConfirmSplit" /\ ConfirmSplit(c)
    <2>1. next = SplitAt(balances, reservations, costs, locks, c)
      BY <1>8 DEF ConfirmSplit, Post, SplitAt, Moved, ConsumeReservation, Consumed
    <2> QED BY <1>8, <2>1 DEF HandledAt
  <1>9. CASE c.op = "ConfirmRedemption" /\ ConfirmRedemption(c)
    <2>1. next = RedemptionAt(balances, reservations, costs, locks, c)
      BY <1>9, SameText
         DEF ConfirmRedemption, Post, RedemptionAt, Moved, ConsumeReservation, Consumed, Disposed
    <2> QED BY <1>9, <2>1 DEF HandledAt
  <1> HIDE DEF next
  <1> QED BY <1>1, <1>2, <1>3, <1>4, <1>5, <1>6, <1>7, <1>8, <1>9 DEF Handler, next

\* The instance `Committed' reads the same texts in what is installed: those that do not
\* look at the books,
LEMMA CommittedText ==
    ASSUME NEW c
    PROVE  /\ Committed!FundPostings(c) = FundPostings(c)
           /\ Committed!ReservePostings(c) = ReservePostings(c)
           /\ Committed!BuyPostings(c) = BuyPostings(c)
           /\ Committed!SplitPostings(c) = SplitPostings(c)
           /\ Committed!ReservedAsset(c) = ReservedAsset(c)
           /\ Committed!UpCost(c) = UpCost(c) /\ Committed!DownCost(c) = DownCost(c)
           /\ Committed!Accounts = Accounts
           /\ \A res, n : Committed!Spent(res, n) = Spent(res, n)
           /\ \A f, t, q, n : Committed!AddCost(f, t, q, n) = AddCost(f, t, q, n)
           /\ \A f, t, q, n : Committed!ReduceCost(f, t, q, n) = ReduceCost(f, t, q, n)
  <1> USE DEF Committed!FundPostings, FundPostings, Committed!ReservePostings, ReservePostings,
        Committed!BuyPostings, BuyPostings, Committed!SplitPostings, SplitPostings,
        Committed!ReservedAsset, ReservedAsset, Committed!UpCost, UpCost,
        Committed!DownCost, DownCost, Committed!Accounts, Accounts,
        Committed!ReservedAccount, ReservedAccount, Committed!FreeAccount, FreeAccount,
        Committed!CashAvailable, CashAvailable, Committed!CashReserved, CashReserved,
        Committed!TokenAvailable, TokenAvailable, Committed!TokenReserved, TokenReserved,
        Committed!InventoryCost, InventoryCost, Committed!LockedToken, LockedToken,
        Committed!LockedCost, LockedCost, Committed!FeeExpense, FeeExpense,
        Committed!TradingRevenue, TradingRevenue, Committed!CostOfGoodsSold, CostOfGoodsSold,
        Committed!CapitalContributed, CapitalContributed, Committed!External, External,
        Committed!Collateral, Committed!NoId
  <1>1. Committed!FundPostings(c) = FundPostings(c)
    OBVIOUS
  <1>2. Committed!ReservePostings(c) = ReservePostings(c)
    OBVIOUS
  <1>3. Committed!BuyPostings(c) = BuyPostings(c)
    OBVIOUS
  <1>4. Committed!SplitPostings(c) = SplitPostings(c)
    OBVIOUS
  <1>5. /\ Committed!ReservedAsset(c) = ReservedAsset(c)
        /\ Committed!UpCost(c) = UpCost(c) /\ Committed!DownCost(c) = DownCost(c)
    OBVIOUS
  <1>6. Committed!Accounts = Accounts
    OBVIOUS
  <1>7. \A res, n : Committed!Spent(res, n) = Spent(res, n)
    BY DEF Committed!Spent, Spent
  <1>8. \A f, t, q, n : Committed!AddCost(f, t, q, n) = AddCost(f, t, q, n)
    BY DEF Committed!AddCost, AddCost
  <1>9. \A f, t, q, n : Committed!ReduceCost(f, t, q, n) = ReduceCost(f, t, q, n)
    BY DEF Committed!ReduceCost, ReduceCost
  <1> QED BY ONLY <1>1, <1>2, <1>3, <1>4, <1>5, <1>6, <1>7, <1>8, <1>9

\* and those that do.
LEMMA CommittedSameText ==
    ASSUME NEW c, NEW t, NEW q
    PROVE  /\ At(installed.balances, installed.reservations, installed.costs, installed.locks)
                   !ReleasePostings(c) = Committed!ReleasePostings(c)
           /\ At(installed.balances, installed.reservations, installed.costs, installed.locks)
                   !AllocateCost(t, q) = Committed!AllocateCost(t, q)
           /\ At(installed.balances, installed.reservations, installed.costs, installed.locks)
                   !SellPostings(c) = Committed!SellPostings(c)
           /\ At(installed.balances, installed.reservations, installed.costs, installed.locks)
                   !RedemptionPostings(c) = Committed!RedemptionPostings(c)
           /\ At(installed.balances, installed.reservations, installed.costs, installed.locks)
                   !LockPostings(c) = Committed!LockPostings(c)
           /\ At(installed.balances, installed.reservations, installed.costs, installed.locks)
                   !MergePostings(c) = Committed!MergePostings(c)
  <1> USE DEF At!ReleasePostings, Committed!ReleasePostings, At!ReservedAccount,
        Committed!ReservedAccount, At!FreeAccount, Committed!FreeAccount,
        At!Accounts, Committed!Accounts, At!AllocateCost, Committed!AllocateCost,
        At!SellPostings, Committed!SellPostings,
        At!RedemptionPostings, Committed!RedemptionPostings,
        At!LockPostings, Committed!LockPostings, At!MergePostings, Committed!MergePostings,
        At!CashAvailable, Committed!CashAvailable, At!CashReserved, Committed!CashReserved,
        At!TokenAvailable, Committed!TokenAvailable, At!TokenReserved, Committed!TokenReserved,
        At!InventoryCost, Committed!InventoryCost, At!LockedToken, Committed!LockedToken,
        At!LockedCost, Committed!LockedCost, At!FeeExpense, Committed!FeeExpense,
        At!TradingRevenue, Committed!TradingRevenue,
        At!CostOfGoodsSold, Committed!CostOfGoodsSold,
        At!CapitalContributed, Committed!CapitalContributed, At!External, Committed!External,
        At!Collateral, At!NoId, Committed!Collateral, Committed!NoId
  <1>1. At(installed.balances, installed.reservations, installed.costs, installed.locks)
            !ReleasePostings(c) = Committed!ReleasePostings(c)
    OBVIOUS
  <1>2. At(installed.balances, installed.reservations, installed.costs, installed.locks)
            !AllocateCost(t, q) = Committed!AllocateCost(t, q)
    OBVIOUS
  <1>3. At(installed.balances, installed.reservations, installed.costs, installed.locks)
            !SellPostings(c) = Committed!SellPostings(c)
    OBVIOUS
  <1>4. At(installed.balances, installed.reservations, installed.costs, installed.locks)
            !RedemptionPostings(c) = Committed!RedemptionPostings(c)
    OBVIOUS
  <1>5. At(installed.balances, installed.reservations, installed.costs, installed.locks)
            !LockPostings(c) = Committed!LockPostings(c)
    OBVIOUS
  <1>6. At(installed.balances, installed.reservations, installed.costs, installed.locks)
            !MergePostings(c) = Committed!MergePostings(c)
    OBVIOUS
  <1> QED BY ONLY <1>1, <1>2, <1>3, <1>4, <1>5, <1>6

\* post accepts a transaction by the balances alone.
LEMMA LiveCanPost ==
    ASSUME NEW txn
    PROVE  At(balances, reservations, costs, locks)!CanPost(txn) <=> CanPost(txn)
  <1>1. At(balances, reservations, costs, locks)!Accounts = Accounts
    BY DEF At!Accounts, Accounts, At!CashAvailable, CashAvailable, At!CashReserved, CashReserved,
           At!TokenAvailable, TokenAvailable, At!TokenReserved, TokenReserved, At!InventoryCost,
           InventoryCost, At!LockedToken, LockedToken, At!LockedCost, LockedCost, At!FeeExpense,
           FeeExpense, At!TradingRevenue, TradingRevenue, At!CostOfGoodsSold, CostOfGoodsSold,
           At!CapitalContributed, CapitalContributed, At!External, External,
       At!NoId, At!Collateral, NoId, Collateral
  <1>2. \A a : At(balances, reservations, costs, locks)!RequiresNonnegative(a)
          <=> RequiresNonnegative(a)
    BY DEF At!RequiresNonnegative, RequiresNonnegative
  <1>3. \A asset : At(balances, reservations, costs, locks)!Total(txn, asset) = Total(txn, asset)
    BY DEF At!Total, Total, At!MapThenSumSet, MapThenSumSet, At!MapThenFoldSet, MapThenFoldSet
  <1>4. \A S : At(balances, reservations, costs, locks)!Cardinality(S) = Cardinality(S)
    BY DEF At!Cardinality, Cardinality
  <1>5. At(balances, reservations, costs, locks)!Collateral = Collateral
    BY DEF At!Collateral
  <1> QED BY <1>1, <1>2, <1>3, <1>4, <1>5 DEF At!CanPost, CanPost

\* The same of the committed ledger.
LEMMA CommittedCanPost ==
    ASSUME NEW txn
    PROVE  At(installed.balances, installed.reservations, installed.costs,
             installed.locks)!CanPost(txn) <=> Committed!CanPost(txn)
  <1>1. At(installed.balances, installed.reservations, installed.costs, installed.locks)!Accounts
          = Committed!Accounts
    BY DEF At!Accounts, Committed!Accounts, At!CashAvailable, Committed!CashAvailable,
           At!CashReserved, Committed!CashReserved, At!TokenAvailable, Committed!TokenAvailable,
           At!TokenReserved, Committed!TokenReserved, At!InventoryCost, Committed!InventoryCost,
           At!LockedToken, Committed!LockedToken, At!LockedCost, Committed!LockedCost,
           At!FeeExpense, Committed!FeeExpense, At!TradingRevenue, Committed!TradingRevenue,
           At!CostOfGoodsSold, Committed!CostOfGoodsSold, At!CapitalContributed,
           Committed!CapitalContributed, At!External, Committed!External,
       At!NoId, At!Collateral, Committed!NoId, Committed!Collateral
  <1>2. \A a : At(installed.balances, installed.reservations, installed.costs,
          installed.locks)!RequiresNonnegative(a) <=> Committed!RequiresNonnegative(a)
    BY DEF At!RequiresNonnegative, Committed!RequiresNonnegative
  <1>3. \A asset : At(installed.balances, installed.reservations, installed.costs,
          installed.locks)!Total(txn, asset) = Committed!Total(txn, asset)
    BY DEF At!Total, Committed!Total, At!MapThenSumSet, Committed!MapThenSumSet,
           At!MapThenFoldSet, Committed!MapThenFoldSet
  <1>4. \A S : At(installed.balances, installed.reservations, installed.costs,
          installed.locks)!Cardinality(S) = Committed!Cardinality(S)
    BY DEF At!Cardinality, Committed!Cardinality
  <1>5. At(installed.balances, installed.reservations, installed.costs,
          installed.locks)!Collateral = Committed!Collateral
    BY DEF At!Collateral, Committed!Collateral
  <1> QED BY <1>1, <1>2, <1>3, <1>4, <1>5 DEF At!CanPost, Committed!CanPost

\* A handler accepts a command by the books alone.
LEMMA LiveAccepts ==
    ASSUME NEW c
    PROVE  At(balances, reservations, costs, locks)!Accepts(c) <=> Accepts(c)
  <1> USE LiveCanPost
  <1>q. /\ At(balances, reservations, costs, locks)!FundPostings(c) = FundPostings(c)
        /\ At(balances, reservations, costs, locks)!ReservePostings(c) = ReservePostings(c)
        /\ At(balances, reservations, costs, locks)!BuyPostings(c) = BuyPostings(c)
        /\ At(balances, reservations, costs, locks)!SplitPostings(c) = SplitPostings(c)
    BY DEF At!FundPostings, FundPostings, At!ReservePostings, ReservePostings, At!BuyPostings,
           BuyPostings,
           At!SplitPostings, SplitPostings, At!ReservedAsset, ReservedAsset, At!UpCost, UpCost,
           At!DownCost, DownCost, At!ReservedAccount, ReservedAccount, At!FreeAccount,
           FreeAccount,
           At!Accounts, Accounts, At!CashAvailable, CashAvailable, At!CashReserved, CashReserved,
           At!TokenAvailable, TokenAvailable, At!TokenReserved, TokenReserved, At!InventoryCost,
           InventoryCost,
           At!LockedToken, LockedToken, At!LockedCost, LockedCost, At!FeeExpense, FeeExpense,
           At!TradingRevenue, TradingRevenue, At!CostOfGoodsSold, CostOfGoodsSold,
           At!CapitalContributed, CapitalContributed,
           At!External, External, At!Collateral, At!NoId
  <1>s. /\ At(balances, reservations, costs, locks)!ReleasePostings(c) = ReleasePostings(c)
        /\ At(balances, reservations, costs, locks)!SellPostings(c) = SellPostings(c)
        /\ At(balances, reservations, costs, locks)!RedemptionPostings(c) = RedemptionPostings(c)
        /\ At(balances, reservations, costs, locks)!LockPostings(c) = LockPostings(c)
        /\ At(balances, reservations, costs, locks)!MergePostings(c) = MergePostings(c)
    BY SameText
  <1>r. \A r : At(balances, reservations, costs, locks)!ActiveReservation(r)
          <=> ActiveReservation(r)
    BY DEF At!ActiveReservation, ActiveReservation
  <1>a. \A t, q : At(balances, reservations, costs, locks)!CanAllocate(t, q) <=> CanAllocate(t, q)
    BY DEF At!CanAllocate, CanAllocate
  <1>v. \A s, t : At(balances, reservations, costs, locks)!ValidPair(s, t) <=> ValidPair(s, t)
    BY DEF At!ValidPair, ValidPair
  <1>w. At(balances, reservations, costs, locks)!Valid(c) <=> Valid(c)
    BY <1>v DEF At!Valid, Valid
  <1>1. At(balances, reservations, costs, locks)!CanFund(c) <=> CanFund(c)
    BY <1>q, <1>w DEF At!CanFund, CanFund
  <1>2. At(balances, reservations, costs, locks)!CanReserve(c) <=> CanReserve(c)
    BY <1>q, <1>w DEF At!CanReserve, CanReserve, At!Absent
  <1>3. At(balances, reservations, costs, locks)!CanRelease(c) <=> CanRelease(c)
    BY <1>s, <1>r DEF At!CanRelease, CanRelease
  <1>4. At(balances, reservations, costs, locks)!CanConfirmBuy(c) <=> CanConfirmBuy(c)
    BY <1>q, <1>r, <1>w DEF At!CanConfirmBuy, CanConfirmBuy, At!Collateral
  <1>5. At(balances, reservations, costs, locks)!CanConfirmSell(c) <=> CanConfirmSell(c)
    BY <1>s, <1>r, <1>a, <1>w DEF At!CanConfirmSell, CanConfirmSell
  <1>6. At(balances, reservations, costs, locks)!CanLockPair(c) <=> CanLockPair(c)
    BY <1>s, <1>a, <1>v, <1>w DEF At!CanLockPair, CanLockPair, At!Absent
  <1>7. At(balances, reservations, costs, locks)!CanConfirmMerge(c) <=> CanConfirmMerge(c)
    BY <1>s DEF At!CanConfirmMerge, CanConfirmMerge
  <1>8. At(balances, reservations, costs, locks)!CanConfirmSplit(c) <=> CanConfirmSplit(c)
    BY <1>q, <1>r, <1>v, <1>w DEF At!CanConfirmSplit, CanConfirmSplit, At!Collateral
  <1>9. At(balances, reservations, costs, locks)!CanConfirmRedemption(c)
          <=> CanConfirmRedemption(c)
    BY <1>s, <1>r, <1>a, <1>w DEF At!CanConfirmRedemption, CanConfirmRedemption
  <1> QED BY ONLY <1>1, <1>2, <1>3, <1>4, <1>5, <1>6, <1>7, <1>8, <1>9
          DEF At!Accepts, Accepts

\* The same of the committed ledger.
LEMMA CommittedAccepts ==
    ASSUME NEW c
    PROVE  At(installed.balances, installed.reservations, installed.costs,
             installed.locks)!Accepts(c) <=> Committed!Accepts(c)
  <1> USE CommittedCanPost
  <1>q. /\ At(installed.balances, installed.reservations, installed.costs,
          installed.locks)!FundPostings(c) = Committed!FundPostings(c)
        /\ At(installed.balances, installed.reservations, installed.costs,
             installed.locks)!ReservePostings(c) = Committed!ReservePostings(c)
        /\ At(installed.balances, installed.reservations, installed.costs,
             installed.locks)!BuyPostings(c) = Committed!BuyPostings(c)
        /\ At(installed.balances, installed.reservations, installed.costs,
             installed.locks)!SplitPostings(c) = Committed!SplitPostings(c)
    BY DEF At!FundPostings, Committed!FundPostings, At!ReservePostings,
           Committed!ReservePostings, At!BuyPostings, Committed!BuyPostings,
           At!SplitPostings, Committed!SplitPostings, At!ReservedAsset, Committed!ReservedAsset,
           At!UpCost, Committed!UpCost,
           At!DownCost, Committed!DownCost, At!ReservedAccount, Committed!ReservedAccount,
           At!FreeAccount, Committed!FreeAccount,
           At!Accounts, Committed!Accounts, At!CashAvailable, Committed!CashAvailable,
           At!CashReserved, Committed!CashReserved,
           At!TokenAvailable, Committed!TokenAvailable, At!TokenReserved,
           Committed!TokenReserved, At!InventoryCost, Committed!InventoryCost,
           At!LockedToken, Committed!LockedToken, At!LockedCost, Committed!LockedCost,
           At!FeeExpense, Committed!FeeExpense,
           At!TradingRevenue, Committed!TradingRevenue, At!CostOfGoodsSold,
           Committed!CostOfGoodsSold, At!CapitalContributed, Committed!CapitalContributed,
           At!External, Committed!External, At!Collateral, At!NoId, Committed!Collateral,
           Committed!NoId
  <1>s. /\ At(installed.balances, installed.reservations, installed.costs,
          installed.locks)!ReleasePostings(c) = Committed!ReleasePostings(c)
        /\ At(installed.balances, installed.reservations, installed.costs,
             installed.locks)!SellPostings(c) = Committed!SellPostings(c)
        /\ At(installed.balances, installed.reservations, installed.costs,
             installed.locks)!RedemptionPostings(c) = Committed!RedemptionPostings(c)
        /\ At(installed.balances, installed.reservations, installed.costs,
             installed.locks)!LockPostings(c) = Committed!LockPostings(c)
        /\ At(installed.balances, installed.reservations, installed.costs,
             installed.locks)!MergePostings(c) = Committed!MergePostings(c)
    BY CommittedSameText
  <1>r. \A r : At(installed.balances, installed.reservations, installed.costs,
          installed.locks)!ActiveReservation(r) <=> Committed!ActiveReservation(r)
    BY DEF At!ActiveReservation, Committed!ActiveReservation
  <1>a. \A t, q : At(installed.balances, installed.reservations, installed.costs,
          installed.locks)!CanAllocate(t, q) <=> Committed!CanAllocate(t, q)
    BY DEF At!CanAllocate, Committed!CanAllocate
  <1>v. \A s, t : At(installed.balances, installed.reservations, installed.costs,
          installed.locks)!ValidPair(s, t) <=> Committed!ValidPair(s, t)
    BY DEF At!ValidPair, Committed!ValidPair
  <1>w. At(installed.balances, installed.reservations, installed.costs,
          installed.locks)!Valid(c) <=> Committed!Valid(c)
    BY <1>v DEF At!Valid, Committed!Valid
  <1>1. At(installed.balances, installed.reservations, installed.costs,
          installed.locks)!CanFund(c) <=> Committed!CanFund(c)
    BY <1>q, <1>w DEF At!CanFund, Committed!CanFund
  <1>2. At(installed.balances, installed.reservations, installed.costs,
          installed.locks)!CanReserve(c) <=> Committed!CanReserve(c)
    BY <1>q, <1>w DEF At!CanReserve, Committed!CanReserve, At!Absent, Committed!Absent
  <1>3. At(installed.balances, installed.reservations, installed.costs,
          installed.locks)!CanRelease(c) <=> Committed!CanRelease(c)
    BY <1>s, <1>r DEF At!CanRelease, Committed!CanRelease
  <1>4. At(installed.balances, installed.reservations, installed.costs,
          installed.locks)!CanConfirmBuy(c) <=> Committed!CanConfirmBuy(c)
    BY <1>q, <1>r, <1>w DEF At!CanConfirmBuy, Committed!CanConfirmBuy, At!Collateral,
               Committed!Collateral
  <1>5. At(installed.balances, installed.reservations, installed.costs,
          installed.locks)!CanConfirmSell(c) <=> Committed!CanConfirmSell(c)
    BY <1>s, <1>r, <1>a, <1>w DEF At!CanConfirmSell, Committed!CanConfirmSell
  <1>6. At(installed.balances, installed.reservations, installed.costs,
          installed.locks)!CanLockPair(c) <=> Committed!CanLockPair(c)
    BY <1>s, <1>a, <1>v, <1>w DEF At!CanLockPair, Committed!CanLockPair, At!Absent, Committed!Absent
  <1>7. At(installed.balances, installed.reservations, installed.costs,
          installed.locks)!CanConfirmMerge(c) <=> Committed!CanConfirmMerge(c)
    BY <1>s DEF At!CanConfirmMerge, Committed!CanConfirmMerge
  <1>8. At(installed.balances, installed.reservations, installed.costs,
          installed.locks)!CanConfirmSplit(c) <=> Committed!CanConfirmSplit(c)
    BY <1>q, <1>r, <1>v, <1>w DEF At!CanConfirmSplit, Committed!CanConfirmSplit, At!Collateral,
               Committed!Collateral
  <1>9. At(installed.balances, installed.reservations, installed.costs,
          installed.locks)!CanConfirmRedemption(c) <=> Committed!CanConfirmRedemption(c)
    BY <1>s, <1>r, <1>a, <1>w DEF At!CanConfirmRedemption, Committed!CanConfirmRedemption
  <1> QED BY ONLY <1>1, <1>2, <1>3, <1>4, <1>5, <1>6, <1>7, <1>8, <1>9
          DEF At!Accepts, Committed!Accepts
CommittedBooks == <<installed.balances, installed.reservations, installed.costs, installed.locks>>
CommittedAt(c) ==
    HandledAt(installed.balances, installed.reservations, installed.costs, installed.locks, c)

\* Books that are what a handler makes of the committed ones are those after its action.
LEMMA CommittedHandles ==
    ASSUME NEW c \in Commands, CommittedBooks' = CommittedAt(c)
    PROVE  Committed!Handler(c)
  <1> USE DEF CommittedBooks, CommittedAt
  <1> DEFINE bs == installed.balances
             rs == installed.reservations
             ks == installed.costs
             ls == installed.locks
  <1>t. /\ Committed!FundPostings(c) = FundPostings(c)
        /\ Committed!ReservePostings(c) = ReservePostings(c)
        /\ Committed!BuyPostings(c) = BuyPostings(c)
        /\ Committed!SplitPostings(c) = SplitPostings(c)
        /\ Committed!Accounts = Accounts
        /\ Committed!ReservedAsset(c) = ReservedAsset(c)
        /\ Committed!UpCost(c) = UpCost(c) /\ Committed!DownCost(c) = DownCost(c)
        /\ \A res, n : Committed!Spent(res, n) = Spent(res, n)
    BY CommittedText
  <1>f. /\ \A f, t, q, n : Committed!AddCost(f, t, q, n) = AddCost(f, t, q, n)
        /\ \A f, t, q, n : Committed!ReduceCost(f, t, q, n) = ReduceCost(f, t, q, n)
    BY CommittedText
  <1>1. CASE c.op = "FundCollateral"
    <2>1. CommittedBooks' = FundAt(bs, rs, ks, ls, c)
      BY <1>1 DEF HandledAt
    <2> QED BY <1>1, <1>t, <2>1
            DEF FundAt, Moved, Committed!Handler, Committed!FundCollateral, Committed!Post
  <1>2. CASE c.op \in {"ReserveCollateral", "ReserveToken"}
    <2>1. CommittedBooks' = ReserveAt(bs, rs, ks, ls, c)
      BY <1>2 DEF HandledAt
    <2>2. Committed!Reserve(c)
      BY <1>t, <2>1 DEF ReserveAt, Moved, Committed!Reserve, Committed!Post
    <2> QED BY ONLY <1>2, <2>2 DEF Committed!Handler
  <1>3. CASE c.op = "ReleaseReservation"
    <2>1. CommittedBooks' = ReleaseAt(bs, rs, ks, ls, c)
      BY <1>3 DEF HandledAt
    <2>2. Committed!Release(c)
      BY <1>t, <2>1, CommittedSameText DEF ReleaseAt, Moved, Committed!Release, Committed!Post
    <2> QED BY ONLY <1>3, <2>2 DEF Committed!Handler
  <1>4. CASE c.op = "ConfirmBuy"
    <2>1. CommittedBooks' = BuyAt(bs, rs, ks, ls, c)
      BY <1>4 DEF HandledAt
    <2>2. Committed!ConfirmBuy(c)
      BY <1>t, <1>f, <2>1 DEF BuyAt, Moved, Consumed, Committed!ConfirmBuy, Committed!Post,
                              Committed!ConsumeReservation
    <2> QED BY ONLY <1>4, <2>2 DEF Committed!Handler
  <1>5. CASE c.op = "ConfirmSell"
    <2>1. CommittedBooks' = SellAt(bs, rs, ks, ls, c)
      BY <1>5 DEF HandledAt
    <2>2. Committed!ConfirmSell(c)
      BY <1>t, <1>f, <2>1, CommittedSameText
         DEF SellAt, Moved, Consumed, Disposed, Committed!ConfirmSell, Committed!Post,
             Committed!ConsumeReservation
    <2> QED BY ONLY <1>5, <2>2 DEF Committed!Handler
  <1>6. CASE c.op = "LockPair"
    <2>1. CommittedBooks' = LockAt(bs, rs, ks, ls, c)
      BY <1>6 DEF HandledAt
    <2>2. Committed!LockPair(c)
      BY <1>t, <1>f, <2>1, CommittedSameText
         DEF LockAt, Moved, Committed!LockPair, Committed!Post
    <2> QED BY ONLY <1>6, <2>2 DEF Committed!Handler
  <1>7. CASE c.op = "ConfirmMerge"
    <2>1. CommittedBooks' = MergeAt(bs, rs, ks, ls, c)
      BY <1>7 DEF HandledAt
    <2>2. Committed!ConfirmMerge(c)
      BY <1>t, <2>1, CommittedSameText DEF MergeAt, Moved, Committed!ConfirmMerge, Committed!Post
    <2> QED BY ONLY <1>7, <2>2 DEF Committed!Handler
  <1>8. CASE c.op = "ConfirmSplit"
    <2>1. CommittedBooks' = SplitAt(bs, rs, ks, ls, c)
      BY <1>8 DEF HandledAt
    <2>2. Committed!ConfirmSplit(c)
      BY <1>t, <1>f, <2>1 DEF SplitAt, Moved, Consumed, Committed!ConfirmSplit, Committed!Post,
                              Committed!ConsumeReservation
    <2> QED BY ONLY <1>8, <2>2 DEF Committed!Handler
  <1>9. CASE c.op = "ConfirmRedemption"
    <2>1. CommittedBooks' = RedemptionAt(bs, rs, ks, ls, c)
      BY <1>9 DEF HandledAt
    <2>2. Committed!ConfirmRedemption(c)
      BY <1>t, <1>f, <2>1, CommittedSameText
         DEF RedemptionAt, Moved, Consumed, Disposed, Committed!ConfirmRedemption, Committed!Post,
             Committed!ConsumeReservation
    <2> QED BY ONLY <1>9, <2>2 DEF Committed!Handler
  <1>10. c.op \in {"FundCollateral", "ReserveCollateral", "ReserveToken", "ReleaseReservation",
                   "ConfirmBuy", "ConfirmSell", "LockPair", "ConfirmMerge", "ConfirmSplit",
                   "ConfirmRedemption"}
    BY CommandsAssumption DEF CommandType
  <1> QED BY ONLY <1>1, <1>2, <1>3, <1>4, <1>5, <1>6, <1>7, <1>8, <1>9, <1>10
\* AccountingLedger::default().
InitialDigest == <<ZeroBalances, NoReservations, NoCosts, NoLocks, {}, FALSE>>

KnownAt(d, c) == \E p \in d[5] : p.id = c.id

\* The digest an entry of the journal leads to.
EntryAt(d, c) ==
    IF c \in d[5] THEN d
    ELSE IF KnownAt(d, c) THEN <<d[1], d[2], d[3], d[4], d[5], TRUE>>
    ELSE LET books_ == HandledAt(d[1], d[2], d[3], d[4], c)
         IN  <<books_[1], books_[2], books_[3], books_[4], d[5] \cup {c}, d[6]>>

\* And what apply answers on it.
Answers(d, c, answer) ==
    /\ ~d[6]
    /\ \/ ~KnownAt(d, c) /\ At(d[1], d[2], d[3], d[4])!Accepts(c) /\ answer = "Applied"
       \/ c \in d[5] /\ answer = "Duplicate"
       \/ /\ Valid(c) /\ KnownAt(d, c) /\ c \notin d[5]
          /\ answer = "IdempotencyConflict"

\* apply, on an entry, as the functions say.
LEMMA EntryStep ==
    ASSUME NEW c, ApplyFresh(c) \/ Duplicate(c) \/ Conflict(c)
    PROVE  Digest' = EntryAt(Digest, c) /\ Answers(Digest, c, outcome')
  <1>0. /\ Digest[1] = balances /\ Digest[2] = reservations /\ Digest[3] = costs
        /\ Digest[4] = locks /\ Digest[5] = processed /\ Digest[6] = halted
    BY DEF Digest
  <1>1. CASE ApplyFresh(c)
    <2>1. ~halted /\ ~Known(c) /\ Accepts(c) /\ Handler(c) /\ outcome' = "Applied"
          /\ processed' = processed \cup {c} /\ halted' = halted
      BY <1>1 DEF ApplyFresh
    <2>2. c \notin processed /\ ~KnownAt(Digest, c)
      BY <1>0, <2>1 DEF Known, KnownAt
    <2>3. <<balances', reservations', costs', locks'>>
              = HandledAt(balances, reservations, costs, locks, c)
      BY <2>1, HandledBooks
    <2>4. Digest' = EntryAt(Digest, c)
      BY <1>0, <2>1, <2>2, <2>3 DEF EntryAt, Digest
    <2>5. At(balances, reservations, costs, locks)!Accepts(c)
      BY <2>1, LiveAccepts
    <2> QED BY <1>0, <2>1, <2>2, <2>4, <2>5 DEF Answers
  <1>2. CASE Duplicate(c)
    BY <1>0, <1>2 DEF Duplicate, EntryAt, Answers, Digest
  <1>3. CASE Conflict(c)
    <2>1. /\ ~halted /\ Valid(c) /\ Known(c) /\ c \notin processed /\ halted' = TRUE
          /\ outcome' = "IdempotencyConflict"
          /\ UNCHANGED <<balances, reservations, costs, locks, processed>>
      BY <1>3 DEF Conflict
    <2>2. KnownAt(Digest, c)
      BY <1>0, <2>1 DEF Known, KnownAt
    <2>3. Digest' = <<balances, reservations, costs, locks, processed, TRUE>>
      BY <2>1 DEF Digest
    <2> QED BY <1>0, <2>1, <2>2, <2>3 DEF EntryAt, Answers
  <1> QED BY <1>1, <1>2, <1>3

\* A committed ledger that becomes what they say has made a step.
LEMMA CommittedStep ==
    ASSUME NEW c \in Commands, Answers(InstalledDigest, c, installed'.outcome),
           InstalledDigest' = EntryAt(InstalledDigest, c)
    PROVE  Committed!Next
  <1>0. /\ InstalledDigest[1] = installed.balances
        /\ InstalledDigest[2] = installed.reservations
        /\ InstalledDigest[3] = installed.costs /\ InstalledDigest[4] = installed.locks
        /\ InstalledDigest[5] = installed.processed /\ InstalledDigest[6] = installed.halted
    BY DEF InstalledDigest
  <1>n. /\ InstalledDigest'[1] = installed'.balances
        /\ InstalledDigest'[2] = installed'.reservations
        /\ InstalledDigest'[3] = installed'.costs /\ InstalledDigest'[4] = installed'.locks
        /\ InstalledDigest'[5] = installed'.processed /\ InstalledDigest'[6] = installed'.halted
    BY DEF InstalledDigest
  <1>k. KnownAt(InstalledDigest, c) <=> Committed!Known(c)
    BY <1>0 DEF KnownAt, Committed!Known
  <1>1. CASE /\ ~KnownAt(InstalledDigest, c)
             /\ At(InstalledDigest[1], InstalledDigest[2], InstalledDigest[3],
                   InstalledDigest[4])!Accepts(c)
             /\ installed'.outcome = "Applied"
    <2>1. Committed!Accepts(c)
      BY <1>0, <1>1, CommittedAccepts
    <2>2. c \notin InstalledDigest[5]
      BY <1>1 DEF KnownAt
    <2> DEFINE n == CommittedAt(c)
    <2>3. InstalledDigest' = <<n[1], n[2], n[3], n[4], installed.processed \cup {c},
                               installed.halted>>
      BY <1>0, <1>1, <2>2 DEF EntryAt, CommittedAt
    <2>4. n = <<n[1], n[2], n[3], n[4]>>
      BY DEF CommittedAt, HandledAt, FundAt, ReserveAt, ReleaseAt, BuyAt, SellAt, RedemptionAt,
             LockAt, MergeAt, SplitAt
    <2> HIDE DEF n
    <2>5. CommittedBooks' = n
      BY <1>n, <2>3, <2>4 DEF CommittedBooks
    <2>6. Committed!Handler(c)
      BY <2>5, CommittedHandles DEF n
    <2>7. installed'.processed
            = installed.processed \cup {c} /\ installed'.halted = installed.halted
      BY <1>n, <2>3
    <2>8. ~installed.halted
      BY <1>0 DEF Answers
    <2>9. Committed!ApplyFresh(c)
      BY <1>1, <1>k, <2>1, <2>6, <2>7, <2>8 DEF Committed!ApplyFresh
    <2> QED BY ONLY <2>9, c \in Commands DEF Committed!Next, Committed!Apply
  <1>2. CASE c \in InstalledDigest[5] /\ installed'.outcome = "Duplicate"
    <2>1. InstalledDigest' = InstalledDigest
      BY <1>2 DEF EntryAt
    <2>2. Committed!Duplicate(c)
      BY <1>0, <1>n, <1>2, <2>1 DEF Committed!Duplicate, Answers
    <2> QED BY ONLY <2>2, c \in Commands DEF Committed!Next, Committed!Apply
  <1>3. CASE /\ Valid(c) /\ KnownAt(InstalledDigest, c) /\ c \notin InstalledDigest[5]
             /\ installed'.outcome = "IdempotencyConflict"
    <2>1. InstalledDigest' = <<InstalledDigest[1], InstalledDigest[2], InstalledDigest[3],
                               InstalledDigest[4], InstalledDigest[5], TRUE>>
      BY <1>3 DEF EntryAt
    <2>2. /\ installed'.balances = installed.balances /\ installed'.costs = installed.costs
          /\ installed'.reservations
               = installed.reservations /\ installed'.locks = installed.locks
          /\ installed'.processed = installed.processed /\ installed'.halted = TRUE
      BY ONLY <1>0, <1>n, <2>1
    <2>3. ~installed.halted /\ Committed!Known(c) /\ c \notin installed.processed
      BY <1>0, <1>k, <1>3 DEF Answers
    <2>5. Committed!Valid(c)
      BY ONLY <1>3 DEF Valid, ValidPair, Committed!Valid, Committed!ValidPair
    <2>4. Committed!Conflict(c)
      BY ONLY <1>3, <2>2, <2>3, <2>5 DEF Committed!Conflict
    <2> QED BY ONLY <2>4, c \in Commands DEF Committed!Next, Committed!Apply
  <1> QED BY <1>1, <1>2, <1>3 DEF Answers

\* The course of a journal.
CourseOf(course, entries) ==
    /\ course[0] = InitialDigest
    /\ \A i \in 0..Len(entries) - 1 : course[i + 1] = EntryAt(course[i], entries[i + 1])

\* Who is where on it; a rebuilt ledger that is one entry further than the last call has
\* applied that entry, with the answer apply gives.
OnCourse(course) ==
    /\ CourseOf(course, log)
    /\ phase = "running" => Digest = course[Len(log)]
    /\ phase = "appended" => Digest = course[Len(log) - 1]
    /\ phase = "recovering" => Digest = course[cursor]
    /\ installed.entries <= Len(log) => InstalledDigest = course[installed.entries]
    /\ phase = "recovering" /\ cursor = installed.entries + 1 =>
           Answers(course[installed.entries], log[cursor], outcome)

InstalledFields == {"entries", "balances", "reservations", "costs", "locks", "processed",
                    "halted", "outcome"}

\* The invariant.
CommittedInv ==
    /\ DOMAIN installed = InstalledFields /\ installed = [f \in InstalledFields |-> installed[f]]
    /\ installed.entries \in Nat /\ Len(log) <= installed.entries + 1
    /\ phase = "running" => installed.entries = Len(log)
    /\ phase = "appended" => installed.entries = Len(log) - 1
    /\ \E course : OnCourse(course)

\* A course goes on by one entry, and what was on it stays there.
LEMMA CourseExtends ==
    ASSUME log \in Seq(Commands), NEW course, CourseOf(course, log), NEW c \in Commands
    PROVE  /\ Len(Append(log, c)) = Len(log) + 1
           /\ \E next : /\ CourseOf(next, Append(log, c))
                        /\ \A i \in 0..Len(log) : next[i] = course[i]
  <1> DEFINE n == Len(log)
             longer == Append(log, c)
             next == [i \in Nat |-> IF i <= n THEN course[i] ELSE EntryAt(course[n], c)]
  <1>1. /\ longer \in Seq(Commands) /\ Len(longer) = n + 1 /\ n \in Nat
        /\ \A i \in 1..n : longer[i] = log[i]
        /\ longer[n + 1] = c
    BY AppendProperties, LenProperties
  <1>2. \A i \in 0..n : next[i] = course[i]
    BY <1>1
  <1>3. next[n + 1] = EntryAt(course[n], c)
    BY <1>1
  <1> HIDE DEF next, longer, n
  <1>4. ASSUME NEW i \in 0..n
        PROVE  next[i + 1] = EntryAt(next[i], longer[i + 1])
    <2>1. CASE i = n
      BY <1>1, <1>2, <1>3, <2>1
    <2>2. CASE i < n
      <3>1. i + 1 \in 1..n /\ i \in 0..n - 1 /\ i + 1 \in 0..n
        BY <1>1, <2>2
      <3>2. course[i + 1] = EntryAt(course[i], log[i + 1])
        BY <3>1 DEF CourseOf, n
      <3> QED BY <1>1, <1>2, <3>1, <3>2
    <2> QED BY <1>1, <2>1, <2>2
  <1>5. next[0] = InitialDigest
    BY <1>1, <1>2 DEF CourseOf
  <1>6. \A i \in 0..Len(longer) - 1 : i \in 0..n
    BY <1>1
  <1>7. CourseOf(next, longer)
    BY <1>4, <1>5, <1>6 DEF CourseOf
  <1> QED BY <1>1, <1>2, <1>7 DEF n, longer

\* A course of a journal is one of its prefixes.
LEMMA CourseShortens ==
    ASSUME log \in Seq(Commands), NEW course, CourseOf(course, log), NEW n \in 0..Len(log)
    PROVE  Len(SubSeq(log, 1, n)) = n /\ CourseOf(course, SubSeq(log, 1, n))
  <1> DEFINE shorter == SubSeq(log, 1, n)
  <1>1. Len(log) \in Nat /\ n \in Nat /\ n <= Len(log)
    BY LenProperties
  <1>2. /\ shorter \in Seq(Commands) /\ Len(shorter) = n
        /\ \A i \in 1..n : shorter[i] = log[i]
    BY <1>1, SubSeqProperties
  <1> HIDE DEF shorter
  <1>3. ASSUME NEW i \in 0..n - 1
        PROVE  course[i + 1] = EntryAt(course[i], shorter[i + 1])
    <2>1. i + 1 \in 1..n /\ i \in 0..Len(log) - 1
      BY <1>1
    <2> QED BY <1>2, <2>1 DEF CourseOf
  <1> QED BY <1>2, <1>3 DEF CourseOf, shorter

\* The initial states satisfy the invariant and are those of the ledger.
LEMMA CommittedInvInit == DurableInit => CommittedInv /\ Committed!Init
  <1> SUFFICES ASSUME DurableInit PROVE CommittedInv /\ Committed!Init
    OBVIOUS
  <1> DEFINE course == [i \in {0} |-> InitialDigest]
  <1>1. log = <<>> /\ phase = "running" /\ Len(log) = 0 /\ Init
    BY DEF DurableInit, JournalInit
  <1>2. installed = Installed(0)
    BY DEF DurableInit
  <1>3. Digest = InitialDigest
    BY <1>1 DEF Init, Digest, InitialDigest
  <1>4. /\ DOMAIN installed = InstalledFields
        /\ installed = [f \in InstalledFields |-> installed[f]]
    BY <1>2 DEF Installed, InstalledFields
  <1>5. /\ installed.entries = 0 /\ installed.balances = balances
        /\ installed.reservations = reservations /\ installed.costs = costs
        /\ installed.locks = locks /\ installed.processed = processed
        /\ installed.halted = halted /\ installed.outcome = outcome
    BY <1>2 DEF Installed
  <1>6. InstalledDigest = InitialDigest
    BY <1>3, <1>5 DEF InstalledDigest, Digest
  <1>7. OnCourse(course)
    <2>1. CourseOf(course, log) /\ course[0] = InitialDigest
      BY <1>1 DEF CourseOf
    <2> HIDE DEF course
    <2> QED BY <1>1, <1>3, <1>5, <1>6, <2>1 DEF OnCourse
  <1> HIDE DEF course
  <1>8. CommittedInv
    BY <1>1, <1>4, <1>5, <1>7 DEF CommittedInv
  <1>9. /\ Committed!ZeroBalances = ZeroBalances /\ Committed!NoReservations = NoReservations
        /\ Committed!NoCosts = NoCosts /\ Committed!NoLocks = NoLocks
    BY CommittedText DEF Committed!ZeroBalances, ZeroBalances, Committed!NoReservations,
       NoReservations, Committed!NoCosts, NoCosts, Committed!NoLocks, NoLocks,
       Committed!SomeToken, SomeToken, Committed!Absent, Committed!Collateral
  <1>10. Committed!Init
    BY <1>1, <1>5, <1>9 DEF Init, Committed!Init
  <1> QED BY <1>8, <1>10

\* A step of the owner is a step of the committed ledger, a set-back or none.
Implements == Committed!Next \/ SetBack \/ UNCHANGED installed

\* Every step of the owner keeps the invariant and is such a step.
LEMMA OwnerImplements ==
    ASSUME DurableInv, CommittedInv, [DurableNext]_durableVars
    PROVE  CommittedInv' /\ Implements
  <1>0. /\ log \in Seq(Commands) /\ Len(log) \in Nat /\ synced \in 0..Len(log) /\ cursor \in Nat
        /\ installed.entries \in Nat /\ Len(log) <= installed.entries + 1
        /\ DOMAIN installed = InstalledFields
        /\ installed = [f \in InstalledFields |-> installed[f]]
    BY LenProperties DEF DurableInv, CommittedInv
  <1>p. PICK course : OnCourse(course)
    BY DEF CommittedInv
  <1>c. CourseOf(course, log)
    BY <1>p DEF OnCourse
  <1>d. installed' = installed => InstalledDigest' = InstalledDigest
    BY DEF InstalledDigest
  <1>e. vars' = vars => Digest' = Digest /\ outcome' = outcome
    BY DEF vars, Digest
  <1>1. ASSUME NEW c \in Commands, ApplyRefused(c)
        PROVE  CommittedInv' /\ Implements
    <2>1. /\ phase = "running" /\ phase' = phase /\ log' = log
          /\ installed' = [installed EXCEPT !.outcome = outcome']
          /\ Refuse(c) \/ RefuseHalted(c)
      BY <1>1 DEF ApplyRefused, journalVars
    <2>2. /\ balances' = balances /\ reservations' = reservations /\ costs' = costs
          /\ locks' = locks /\ processed' = processed /\ halted' = halted
      BY <2>1 DEF Refuse, RefuseHalted
    <2>3. Digest' = Digest
      BY <2>2 DEF Digest
    <2>4. /\ DOMAIN installed' = InstalledFields
          /\ installed' = [f \in InstalledFields |-> installed'[f]]
          /\ installed'.entries = installed.entries /\ installed'.outcome = outcome'
          /\ installed'.balances = installed.balances
          /\ installed'.reservations = installed.reservations
          /\ installed'.costs = installed.costs /\ installed'.locks = installed.locks
          /\ installed'.processed = installed.processed /\ installed'.halted = installed.halted
      BY <1>0, <2>1 DEF InstalledFields
    <2>5. InstalledDigest' = InstalledDigest
      BY <2>4 DEF InstalledDigest
    <2>6. OnCourse(course)'
      BY <1>p, <2>1, <2>3, <2>4, <2>5 DEF OnCourse
    <2>7. CommittedInv'
      BY <1>0, <2>1, <2>4, <2>6 DEF CommittedInv
    <2>8. InstalledDigest = Digest
      BY <1>0, <1>p, <2>1 DEF OnCourse, CommittedInv
    <2>9. /\ installed.balances = balances /\ installed.reservations = reservations
          /\ installed.costs = costs /\ installed.locks = locks
          /\ installed.processed = processed /\ installed.halted = halted
      BY <2>8 DEF InstalledDigest, Digest
    <2>10. Committed!Accepts(c) <=> Accepts(c)
      BY <2>9, LiveAccepts, CommittedAccepts
    <2>v. Committed!Valid(c) <=> Valid(c)
      BY DEF Valid, ValidPair, Committed!Valid, Committed!ValidPair
    <2>11. Committed!Refuse(c) \/ Committed!RefuseHalted(c)
      BY <2>1, <2>4, <2>9, <2>10, <2>v DEF Refuse, RefuseHalted, Known, Committed!Refuse,
         Committed!RefuseHalted, Committed!Known
    <2>12. Committed!Next
      BY ONLY <2>11, c \in Commands DEF Committed!Next, Committed!Apply
    <2> QED BY <2>7, <2>12 DEF Implements
  <1>2. ASSUME NEW c \in Commands, AppendCommand(c) \/ AppendFails(c)
        PROVE  CommittedInv' /\ Implements
    <2>1. /\ phase = "running" /\ vars' = vars /\ installed' = installed
          /\ \/ phase' = "appended" /\ log' = Append(log, c)
             \/ phase' = "poisoned" /\ log' \in {log, Append(log, c)}
      BY <1>2 DEF AppendCommand, AppendEntry, AppendFails, FailAppend
    <2>2. installed.entries = Len(log) /\ Digest = course[Len(log)]
          /\ InstalledDigest = course[installed.entries]
      BY <1>0, <1>p, <2>1 DEF CommittedInv, OnCourse
    <2>3. PICK next : /\ CourseOf(next, Append(log, c))
                      /\ \A i \in 0..Len(log) : next[i] = course[i]
      BY <1>0, <1>c, CourseExtends
    <2>4. Len(Append(log, c)) = Len(log) + 1
      BY <1>0, <1>c, CourseExtends
    <2>5. CASE log' = log
      <3>1. phase' = "poisoned"
        BY <1>0, <2>1, <2>4, <2>5
      <3>2. OnCourse(course)'
        BY <1>c, <1>d, <2>1, <2>2, <2>5, <3>1 DEF OnCourse
      <3> QED BY <1>0, <2>1, <2>5, <3>1, <3>2 DEF CommittedInv, Implements
    <2>6. CASE log' = Append(log, c)
      <3>1. phase' \in {"appended", "poisoned"} /\ Len(log') = Len(log) + 1
        BY <2>1, <2>4, <2>6
      <3>2. next[Len(log)] = course[Len(log)]
        BY <1>0, <2>3
      <3>3. OnCourse(next)'
        BY <1>0, <1>d, <1>e, <2>1, <2>2, <2>3, <2>6, <3>1, <3>2 DEF OnCourse
      <3> QED BY <1>0, <2>1, <2>2, <2>6, <3>1, <3>3 DEF CommittedInv, Implements
    <2> QED BY <2>1, <2>5, <2>6
  <1>3. CASE SyncAndInstall
    <2> DEFINE c == Last(log)
               n == Len(log)
    <2>1. /\ phase = "appended" /\ phase' = "running" /\ log' = log
          /\ installed' = Installed(Len(log))'
          /\ ApplyFresh(c) \/ Duplicate(c) \/ Conflict(c)
      BY <1>3 DEF SyncAndInstall, SyncEntry
    <2>2. /\ n > 0 /\ installed.entries = n - 1 /\ Digest = course[n - 1]
          /\ InstalledDigest = course[n - 1]
      BY <1>0, <1>p, <2>1 DEF CommittedInv, OnCourse, DurableInv
    <2>3. c = log[n] /\ c \in Commands
      BY <1>0, <2>2, ElementOfSeq DEF Last
    <2>4. Digest' = EntryAt(Digest, c) /\ Answers(Digest, c, outcome')
      BY <2>1, EntryStep
    <2>5. /\ installed'.entries = n /\ installed'.balances = balances'
          /\ installed'.reservations = reservations' /\ installed'.costs = costs'
          /\ installed'.locks = locks' /\ installed'.processed = processed'
          /\ installed'.halted = halted' /\ installed'.outcome = outcome'
          /\ DOMAIN installed' = InstalledFields
          /\ installed' = [f \in InstalledFields |-> installed'[f]]
      BY <2>1 DEF Installed, InstalledFields
    <2>6. InstalledDigest' = Digest'
      BY <2>5 DEF InstalledDigest, Digest
    <2>7. course[n] = EntryAt(course[n - 1], log[n])
      <3>1. n - 1 \in 0..Len(log) - 1 /\ n - 1 + 1 = n
        BY <1>0, <2>2
      <3> QED BY <1>c, <3>1 DEF CourseOf
    <2> HIDE DEF c
    <2>8. Digest' = course[n]
      BY <2>2, <2>3, <2>4, <2>7
    <2>9. OnCourse(course)'
      BY <1>0, <1>c, <2>1, <2>5, <2>6, <2>8 DEF OnCourse
    <2>10. CommittedInv'
      BY <1>0, <2>1, <2>5, <2>9 DEF CommittedInv
    <2>11. Committed!Next
      <3>1. InstalledDigest = Digest
        BY <2>2
      <3>2. Answers(InstalledDigest, c, installed'.outcome)
        BY <2>4, <2>5, <3>1
      <3>3. InstalledDigest' = EntryAt(InstalledDigest, c)
        BY <2>4, <2>6, <3>1
      <3> QED BY <2>3, <3>2, <3>3, CommittedStep
    <2> QED BY <2>10, <2>11 DEF Implements
  <1>4. CASE SyncFails \/ CheckpointMissing \/ (Crash /\ ProcessCrash)
    <2>1. /\ phase' \in {"poisoned", "unrecoverable", "crashed"} /\ log' = log
          /\ installed' = installed
      BY <1>4 DEF SyncFails, FailSync, CheckpointMissing, MissCheckpoint, Crash, ProcessCrash
    <2>2. OnCourse(course)'
      BY <1>c, <1>d, <1>p, <2>1 DEF OnCourse
    <2> QED BY <1>0, <2>1, <2>2 DEF CommittedInv, Implements
  <1>5. CASE Crash /\ PowerLoss
    <2>1. PICK n \in synced..Len(log) : log' = SubSeq(log, 1, n)
      BY <1>5 DEF PowerLoss
    <2>2. phase' = "crashed" /\ installed' = installed
      BY <1>5 DEF Crash, PowerLoss
    <2>3. n \in 0..Len(log) /\ n <= Len(log)
      BY <1>0, <2>1
    <2>4. Len(log') = n /\ CourseOf(course, log')
      BY <1>0, <1>c, <2>1, <2>3, CourseShortens
    <2>5. OnCourse(course)'
      BY <1>0, <1>d, <1>p, <2>2, <2>3, <2>4 DEF OnCourse
    <2> QED BY <1>0, <2>2, <2>3, <2>4, <2>5 DEF CommittedInv, Implements
  <1>6. CASE StartRecovery
    <2>1. /\ phase' = "recovering" /\ cursor' = 0 /\ log' = log /\ installed' = installed
          /\ Digest' = InitialDigest
      BY <1>6 DEF StartRecovery, BeginReplay, Digest, InitialDigest
    <2>2. course[0] = InitialDigest
      BY <1>c DEF CourseOf
    <2>3. OnCourse(course)'
      BY <1>0, <1>c, <1>d, <1>p, <2>1, <2>2 DEF OnCourse
    <2> QED BY <1>0, <2>1, <2>3 DEF CommittedInv, Implements
  <1>7. CASE Replay
    <2>1. /\ phase = "recovering" /\ phase' = phase /\ cursor < Len(log) /\ cursor' = cursor + 1
          /\ log' = log /\ installed' = installed
          /\ ApplyFresh(log[cursor + 1]) \/ Duplicate(log[cursor + 1])
      BY <1>7 DEF Replay, ReplayEntry
    <2>2. /\ Digest' = EntryAt(Digest, log[cursor + 1])
          /\ Answers(Digest, log[cursor + 1], outcome')
      BY <2>1, EntryStep
    <2>3. Digest = course[cursor] /\ course[cursor + 1] = EntryAt(course[cursor], log[cursor + 1])
      BY <1>0, <1>c, <1>p, <2>1 DEF OnCourse, CourseOf
    <2>4. Digest' = course[cursor + 1] /\ Answers(course[cursor], log[cursor + 1], outcome')
      BY <2>2, <2>3
    <2>5. cursor' = installed.entries + 1 => cursor = installed.entries
      BY <1>0, <2>1
    <2>6. OnCourse(course)'
      BY <1>0, <1>c, <1>d, <1>p, <2>1, <2>4, <2>5 DEF OnCourse
    <2> QED BY <1>0, <2>1, <2>6 DEF CommittedInv, Implements
  <1>8. CASE ReplayFails
    <2>1. phase' = "unrecoverable" /\ log' = log /\ installed' = installed
      BY <1>8 DEF ReplayFails, RefuseEntry
    <2>2. OnCourse(course)'
      BY <1>c, <1>d, <1>p, <2>1 DEF OnCourse
    <2> QED BY <1>0, <2>1, <2>2 DEF CommittedInv, Implements
  <1>9. CASE FinishRecovery
    <2>1. /\ phase = "recovering" /\ phase' = "running" /\ cursor = Len(log) /\ log' = log
          /\ vars' = vars
          /\ installed' = IF cursor = installed.entries THEN installed ELSE Installed(cursor)
      BY <1>9 DEF FinishRecovery, EndReplay
    <2>2. Digest' = Digest /\ Digest = course[Len(log)] /\ outcome' = outcome
      BY <1>e, <1>p, <2>1 DEF OnCourse
    <2>3. CASE cursor = installed.entries
      <3>1. installed' = installed
        BY <2>1, <2>3
      <3>2. OnCourse(course)'
        BY <1>c, <1>d, <1>p, <2>1, <2>2, <2>3, <3>1 DEF OnCourse
      <3> QED BY <1>0, <2>1, <2>3, <3>1, <3>2 DEF CommittedInv, Implements
    <2>4. CASE cursor # installed.entries
      <3>1. /\ installed'.entries = cursor /\ installed'.balances = balances
            /\ installed'.reservations = reservations /\ installed'.costs = costs
            /\ installed'.locks = locks /\ installed'.processed = processed
            /\ installed'.halted = halted /\ installed'.outcome = outcome
            /\ DOMAIN installed' = InstalledFields
            /\ installed' = [f \in InstalledFields |-> installed'[f]]
        BY <2>1, <2>4 DEF Installed, InstalledFields
      <3>2. InstalledDigest' = Digest
        BY <3>1 DEF InstalledDigest, Digest
      <3>3. OnCourse(course)'
        BY <1>0, <1>c, <2>1, <2>2, <3>1, <3>2 DEF OnCourse
      <3>4. CommittedInv'
        BY <1>0, <2>1, <3>1, <3>3 DEF CommittedInv
      <3>5. CASE cursor < installed.entries
        BY <2>1, <3>4, <3>5 DEF SetBack, Implements
      <3>6. CASE cursor = installed.entries + 1
        <4> DEFINE n == Len(log)
                   c == log[n]
        <4>1. n - 1 \in 0..Len(log) - 1 /\ n - 1 + 1
                = n /\ installed.entries = n - 1 /\ n \in 1..n
          BY <1>0, <2>1, <3>6
        <4>2. c \in Commands
          BY <1>0, <4>1, ElementOfSeq
        <4>3. course[n] = EntryAt(course[n - 1], c)
          BY <1>c, <4>1 DEF CourseOf
        <4>4. InstalledDigest = course[n - 1] /\ Answers(course[n - 1], c, outcome)
          BY <1>0, <1>p, <2>1, <3>6, <4>1 DEF OnCourse
        <4>5. /\ InstalledDigest' = EntryAt(InstalledDigest, c)
              /\ Answers(InstalledDigest, c, installed'.outcome)
          BY <2>2, <3>1, <3>2, <4>3, <4>4
        <4> HIDE DEF c
        <4> QED BY <3>4, <4>2, <4>5, CommittedStep DEF Implements
      <3> QED BY <1>0, <2>1, <2>4, <3>5, <3>6
    <2> QED BY <2>3, <2>4
  <1>10. CASE WriteCheckpoint \/ UNCHANGED durableVars
    <2>1. /\ log' = log /\ phase' = phase /\ cursor' = cursor /\ vars' = vars
          /\ installed' = installed
      BY <1>10 DEF WriteCheckpoint, durableVars, journalVars
    <2>2. OnCourse(course)'
      BY <1>d, <1>e, <1>p, <2>1 DEF OnCourse
    <2>3. CommittedInv'
      BY <1>0, <2>1, <2>2 DEF CommittedInv
    <2> QED BY <2>1, <2>3 DEF Implements
  <1>11. CASE Crash
    BY <1>4, <1>5, <1>11 DEF Crash
  <1>12. DurableNext \/ UNCHANGED durableVars
    OBVIOUS
  <1> QED BY ONLY <1>1, <1>2, <1>3, <1>4, <1>6, <1>7, <1>8, <1>9, <1>10, <1>11, <1>12
          DEF DurableNext

\* A live owner shows the books its journal gives: those of its last completed call or
\* restart, which hold the commands of the journal and no others, and which any replay that
\* has come as far has rebuilt.
THEOREM BooksAreTheJournal == DurableSpec => []BooksMatchJournal
  <1>1. DurableInv /\ CommittedInv => BooksMatchJournal
    <2> SUFFICES ASSUME DurableInv, CommittedInv PROVE BooksMatchJournal
      OBVIOUS
    <2>1. ToSet(log) = Entries(Len(log))
      BY LenProperties DEF DurableInv, ToSet, Entries
    <2>2. PICK course : OnCourse(course)
      BY DEF CommittedInv
    <2>3. phase = "running" => Digest = InstalledDigest /\ installed.entries = Len(log)
      BY <2>2 DEF OnCourse, CommittedInv
    <2>4. phase = "recovering" /\ cursor = installed.entries => Digest = InstalledDigest
      BY <2>2 DEF OnCourse, DurableInv
    <2> QED BY <2>1, <2>3, <2>4 DEF DurableInv, BooksMatchJournal
  <1>2. DurableInit => DurableInv /\ CommittedInv
    BY DurableInvInit, CommittedInvInit
  <1>3. DurableInv /\ CommittedInv /\ [DurableNext]_durableVars => (DurableInv /\ CommittedInv)'
    BY DurableInvNext, OwnerImplements
  <1> QED BY <1>1, <1>2, <1>3, PTL DEF DurableSpec

\* ImplementsLedger: for every set of commands, whatever writes fail and whatever processes and
\* machines crash, each completed call and each restart of the owner is one apply of a ledger
\* that never crashes, but for a restart after a power loss took unsynced entries.
THEOREM OwnerImplementsLedger == DurableSpec => ImplementsLedger
  <1>1. DurableInit => DurableInv /\ CommittedInv /\ Committed!Init
    BY DurableInvInit, CommittedInvInit
  <1>2. DurableInv /\ CommittedInv /\ [DurableNext]_durableVars => (DurableInv /\ CommittedInv)'
    BY DurableInvNext, OwnerImplements
  <1>3. DurableInv /\ CommittedInv /\ [DurableNext]_durableVars
            => [Committed!Next \/ SetBack]_installed
    BY OwnerImplements DEF Implements
  <1> QED BY <1>1, <1>2, <1>3, PTL DEF DurableSpec, ImplementsLedger
=============================================================================
