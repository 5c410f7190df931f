-------------------------- MODULE AccountingLedger --------------------------
(***************************************************************************)
(* The single-writer double-entry ledger of crates/accounting-ledger.      *)
(*                                                                         *)
(* The state is the struct AccountingLedger: the balance of every account  *)
(* in every asset, the reservations, the cost position of every token,     *)
(* the pair locks, the commands already processed (the code keeps a digest *)
(* of the command, the model the command itself), and the halt flag.       *)
(* `outcome' is what the last call of apply returned.                      *)
(*                                                                         *)
(* The code recomputes verify_invariants on every candidate before it      *)
(* installs it, and reduce_cost refuses an orphan cost.  The model         *)
(* installs the candidate without these last-resort checks; the invariants *)
(* at the end of the module are these checks, so that they hold says that  *)
(* the code's checks never refuse what its handlers accepted.  Amounts are *)
(* unbounded integers: the i128 bound of the code is out of reach of any   *)
(* amount of money.                                                        *)
(***************************************************************************)
EXTENDS Integers, FiniteSets, FiniteSetsExt

CONSTANTS
    CommandIds,      \* idempotency keys of commands
    ReservationIds,
    LockIds,
    Tokens,          \* outcome tokens (TokenKey)
    Condition,       \* Condition[t]: the condition_id a token belongs to
    Commands         \* the command records the callers may submit

Collateral == "collateral"
NoId == "none"

(***************************************************************************)
(* A balance is kept per account and asset: <<account kind, id, asset>>.   *)
(***************************************************************************)
CashAvailable      == <<"CashAvailable", NoId, Collateral>>
CashReserved(r)    == <<"CashReserved", r, Collateral>>
TokenAvailable(t)  == <<"TokenAvailable", NoId, t>>
TokenReserved(r, t) == <<"TokenReserved", r, t>>
InventoryCost(t)   == <<"InventoryCost", t, Collateral>>
LockedToken(l, t)  == <<"LockedToken", l, t>>
LockedCost(l)      == <<"LockedCost", l, Collateral>>
FeeExpense         == <<"FeeExpense", NoId, Collateral>>
TradingRevenue     == <<"TradingRevenue", NoId, Collateral>>
CostOfGoodsSold    == <<"CostOfGoodsSold", NoId, Collateral>>
CapitalContributed == <<"CapitalContributed", NoId, Collateral>>
External(t)        == <<"External", NoId, t>>

Accounts ==
    {CashAvailable, FeeExpense, TradingRevenue, CostOfGoodsSold, CapitalContributed}
        \cup {CashReserved(r) : r \in ReservationIds}
        \cup {TokenAvailable(t) : t \in Tokens}
        \cup {TokenReserved(r, t) : r \in ReservationIds, t \in Tokens}
        \cup {InventoryCost(t) : t \in Tokens}
        \cup {LockedToken(l, t) : l \in LockIds, t \in Tokens}
        \cup {LockedCost(l) : l \in LockIds}
        \cup {External(t) : t \in Tokens}

RequiresNonnegative(a) ==
    a[1] \notin {"TradingRevenue", "CapitalContributed", "External"}

(***************************************************************************)
(* The commands.  Amounts are any integers: validation is part of apply.   *)
(***************************************************************************)
CommandType ==
    [op : {"FundCollateral"}, id : CommandIds, amount : Int]
    \cup [op : {"ReserveCollateral"}, id : CommandIds, r : ReservationIds, amount : Int]
    \cup [op : {"ReserveToken"}, id : CommandIds, r : ReservationIds, token : Tokens,
          amount : Int]
    \cup [op : {"ReleaseReservation"}, id : CommandIds, r : ReservationIds]
    \cup [op : {"ConfirmBuy"}, id : CommandIds, r : ReservationIds, token : Tokens,
          quantity : Int, consideration : Int, fee : Int]
    \cup [op : {"ConfirmSell"}, id : CommandIds, r : ReservationIds,
          quantity : Int, gross : Int, fee : Int]
    \cup [op : {"LockPair"}, id : CommandIds, l : LockIds, up : Tokens, down : Tokens,
          quantity : Int]
    \cup [op : {"ConfirmMerge"}, id : CommandIds, l : LockIds]
    \cup [op : {"ConfirmSplit"}, id : CommandIds, r : ReservationIds, up : Tokens,
          down : Tokens, quantity : Int]
    \cup [op : {"ConfirmRedemption"}, id : CommandIds, r : ReservationIds,
          quantity : Int, payout : Int]

ASSUME CommandsAssumption == Commands \subseteq CommandType
ASSUME TokensAssumption == Collateral \notin Tokens /\ Tokens # {}
ASSUME FiniteAssumption ==
    IsFiniteSet(Tokens) /\ IsFiniteSet(ReservationIds) /\ IsFiniteSet(LockIds)

VARIABLES
    balances,      \* [Accounts -> Int]
    reservations,  \* [ReservationIds -> ...], status "Absent" until reserved
    costs,         \* [Tokens -> quantity and cost of the inventory held]
    locks,         \* [LockIds -> ...], status "Absent" until locked
    processed,     \* the commands accepted so far
    halted,        \* TRUE after an idempotency conflict
    outcome        \* the result of the last apply

books == <<balances, reservations, costs, locks>>
vars == <<balances, reservations, costs, locks, processed, halted, outcome>>

Absent == "Absent"
SomeToken == CHOOSE t \in Tokens : TRUE    \* the tokens of an absent lock
ReservationType ==
    [asset : Tokens \cup {Collateral}, original : Int, remaining : Int,
     status : {Absent, "Active", "Released", "Consumed"}]
LockType ==
    [up : Tokens, down : Tokens, quantity : Int, cost : Int, payout : Int,
     status : {Absent, "Active", "Merged"}]

\* AccountingLedger::default()
ZeroBalances == [a \in Accounts |-> 0]
NoReservations ==
    [r \in ReservationIds |->
        [asset |-> Collateral, original |-> 0, remaining |-> 0, status |-> Absent]]
NoCosts == [t \in Tokens |-> [quantity |-> 0, cost |-> 0]]
NoLocks ==
    [l \in LockIds |->
        [up |-> SomeToken, down |-> SomeToken, quantity |-> 0,
         cost |-> 0, payout |-> 0, status |-> Absent]]

Init ==
    /\ balances = ZeroBalances
    /\ reservations = NoReservations
    /\ costs = NoCosts
    /\ locks = NoLocks
    /\ processed = {}
    /\ halted = FALSE
    /\ outcome = "None"

-----------------------------------------------------------------------------
(***************************************************************************)
(* Posting.  A transaction gives every account its delta; an account the   *)
(* transaction does not name has delta 0.                                  *)
(***************************************************************************)
Total(f, asset) ==
    MapThenSumSet(LAMBDA a : f[a], {a \in DOMAIN f : a[3] = asset})

\* Wrong variants, for mutation only: no overdraft check; negative-normal
\* accounts not written.
CanPostUnchecked(txn) ==
    /\ Cardinality({a \in Accounts : txn[a] # 0}) >= 2
    /\ \A asset \in Tokens \cup {Collateral} : Total(txn, asset) = 0
PostAssetsOnly(txn) ==
    balances' = [a \in Accounts |->
        IF RequiresNonnegative(a) THEN balances[a] + txn[a] ELSE balances[a]]

CanPost(txn) ==
    /\ Cardinality({a \in Accounts : txn[a] # 0}) >= 2
    /\ \A a \in Accounts :
           txn[a] # 0 /\ RequiresNonnegative(a) => balances[a] + txn[a] >= 0
    /\ \A asset \in Tokens \cup {Collateral} : Total(txn, asset) = 0

Post(txn) == balances' = [a \in Accounts |-> balances[a] + txn[a]]

(***************************************************************************)
(* The cost a disposal of `quantity' takes with it: rounded up, and the    *)
(* exact remaining cost when the whole position goes.                      *)
(***************************************************************************)
CanAllocate(t, quantity) ==
    /\ quantity > 0
    /\ costs[t].quantity >= quantity
    /\ costs[t].cost >= 0

\* Wrong variant, for mutation only: a truncated unit cost.
AllocateUnitCost(t, quantity) == (costs[t].cost \div costs[t].quantity) * quantity

AllocateCost(t, quantity) ==
    IF quantity = costs[t].quantity
    THEN costs[t].cost
    ELSE (costs[t].cost * quantity + costs[t].quantity - 1) \div costs[t].quantity

ActiveReservation(r) == reservations[r].status = "Active"

Spent(res, amount) ==
    [asset |-> res.asset, original |-> res.original, remaining |-> res.remaining - amount,
     status |-> IF res.remaining = amount THEN "Consumed" ELSE res.status]

ConsumeReservation(r, amount) ==
    reservations' = [reservations EXCEPT ![r] = Spent(reservations[r], amount)]

\* add_cost and reduce_cost, on the cost positions f.
AddCost(f, t, quantity, cost) ==
    [f EXCEPT ![t] = [quantity |-> f[t].quantity + quantity, cost |-> f[t].cost + cost]]
\* Wrong variant, for mutation only: the cost leaves, the quantity stays.
ReduceCostOnly(f, t, quantity, cost) ==
    [f EXCEPT ![t] = [quantity |-> f[t].quantity, cost |-> f[t].cost - cost]]
ReduceCost(f, t, quantity, cost) ==
    [f EXCEPT ![t] = [quantity |-> f[t].quantity - quantity, cost |-> f[t].cost - cost]]

ValidPair(up, down) == up # down /\ Condition[up] = Condition[down]

(***************************************************************************)
(* validate_command: encode_command refuses a command on its own fields,   *)
(* before anything is looked up.                                           *)
(***************************************************************************)
Valid(c) ==
    CASE c.op \in {"FundCollateral", "ReserveCollateral", "ReserveToken"} -> c.amount > 0
      [] c.op = "ConfirmBuy" -> c.quantity > 0 /\ c.consideration > 0 /\ c.fee >= 0
      [] c.op = "ConfirmSell" ->
             c.quantity > 0 /\ c.gross > 0 /\ c.fee >= 0 /\ c.fee <= c.gross
      [] c.op \in {"LockPair", "ConfirmSplit"} -> c.quantity > 0 /\ ValidPair(c.up, c.down)
      [] c.op = "ConfirmRedemption" ->
             c.quantity > 0 /\ c.payout >= 0 /\ c.payout <= c.quantity
      [] OTHER -> TRUE

-----------------------------------------------------------------------------
(***************************************************************************)
(* FundCollateral                                                          *)
(***************************************************************************)
FundPostings(c) ==
    [a \in Accounts |-> CASE a = CashAvailable -> c.amount
                          [] a = CapitalContributed -> -c.amount
                          [] OTHER -> 0]
CanFund(c) == Valid(c) /\ CanPost(FundPostings(c))
FundCollateral(c) == Post(FundPostings(c)) /\ UNCHANGED <<reservations, costs, locks>>

(***************************************************************************)
(* ReserveCollateral, ReserveToken                                         *)
(***************************************************************************)
ReservedAsset(c) == IF c.op = "ReserveToken" THEN c.token ELSE Collateral
FreeAccount(asset) == IF asset = Collateral THEN CashAvailable ELSE TokenAvailable(asset)
ReservedAccount(r, asset) ==
    IF asset = Collateral THEN CashReserved(r) ELSE TokenReserved(r, asset)

ReservePostings(c) ==
    [a \in Accounts |-> CASE a = FreeAccount(ReservedAsset(c)) -> -c.amount
                          [] a = ReservedAccount(c.r, ReservedAsset(c)) -> c.amount
                          [] OTHER -> 0]
CanReserve(c) ==
    /\ Valid(c)
    /\ reservations[c.r].status = Absent
    /\ CanPost(ReservePostings(c))
Reserve(c) ==
    /\ Post(ReservePostings(c))
    /\ reservations' = [reservations EXCEPT ![c.r] =
            [asset |-> ReservedAsset(c), original |-> c.amount,
             remaining |-> c.amount, status |-> "Active"]]
    /\ UNCHANGED <<costs, locks>>

(***************************************************************************)
(* ReleaseReservation                                                      *)
(***************************************************************************)
ReleasePostings(c) ==
    LET res == reservations[c.r]
    IN  [a \in Accounts |-> CASE a = ReservedAccount(c.r, res.asset) -> -res.remaining
                              [] a = FreeAccount(res.asset) -> res.remaining
                              [] OTHER -> 0]
CanRelease(c) == ActiveReservation(c.r) /\ CanPost(ReleasePostings(c))
\* Wrong variant, for mutation only: the record is not closed.
ReleaseKeepsRecord(c) == Post(ReleasePostings(c)) /\ UNCHANGED <<reservations, costs, locks>>
Release(c) ==
    /\ Post(ReleasePostings(c))
    /\ reservations' = [reservations EXCEPT ![c.r] =
            [asset |-> reservations[c.r].asset, original |-> reservations[c.r].original,
             remaining |-> 0, status |-> "Released"]]
    /\ UNCHANGED <<costs, locks>>

(***************************************************************************)
(* ConfirmBuy: spend reserved cash, receive tokens at cost.                *)
(***************************************************************************)
BuyPostings(c) ==
    [a \in Accounts |-> CASE a = CashReserved(c.r) -> -(c.consideration + c.fee)
                          [] a = InventoryCost(c.token) -> c.consideration
                          [] a = FeeExpense -> c.fee
                          [] a = TokenAvailable(c.token) -> c.quantity
                          [] a = External(c.token) -> -c.quantity
                          [] OTHER -> 0]
CanConfirmBuy(c) ==
    /\ Valid(c)
    /\ ActiveReservation(c.r)
    /\ reservations[c.r].asset = Collateral
    /\ reservations[c.r].remaining >= c.consideration + c.fee
    /\ CanPost(BuyPostings(c))
ConfirmBuy(c) ==
    /\ Post(BuyPostings(c))
    /\ ConsumeReservation(c.r, c.consideration + c.fee)
    /\ costs' = AddCost(costs, c.token, c.quantity, c.consideration)
    /\ UNCHANGED locks

(***************************************************************************)
(* ConfirmSell and ConfirmRedemption: reserved tokens leave with their     *)
(* allocated cost; cash comes in.                                          *)
(***************************************************************************)
SellPostings(c) ==
    LET t == reservations[c.r].asset
        cost == AllocateCost(t, c.quantity)
    IN  [a \in Accounts |-> CASE a = TokenReserved(c.r, t) -> -c.quantity
                              [] a = External(t) -> c.quantity
                              [] a = CashAvailable -> c.gross - c.fee
                              [] a = FeeExpense -> c.fee
                              [] a = TradingRevenue -> -c.gross
                              [] a = InventoryCost(t) -> -cost
                              [] a = CostOfGoodsSold -> cost
                              [] OTHER -> 0]
CanConfirmSell(c) ==
    /\ Valid(c)
    /\ ActiveReservation(c.r)
    /\ reservations[c.r].asset \in Tokens
    /\ reservations[c.r].remaining >= c.quantity
    /\ CanAllocate(reservations[c.r].asset, c.quantity)
    /\ CanPost(SellPostings(c))
ConfirmSell(c) ==
    LET t == reservations[c.r].asset
        cost == AllocateCost(t, c.quantity)
    IN  /\ Post(SellPostings(c))
        /\ ConsumeReservation(c.r, c.quantity)
        /\ costs' = ReduceCost(costs, t, c.quantity, cost)
        /\ UNCHANGED locks

RedemptionPostings(c) ==
    LET t == reservations[c.r].asset
        cost == AllocateCost(t, c.quantity)
    IN  [a \in Accounts |-> CASE a = TokenReserved(c.r, t) -> -c.quantity
                              [] a = External(t) -> c.quantity
                              [] a = CashAvailable -> c.payout
                              [] a = TradingRevenue -> -c.payout
                              [] a = InventoryCost(t) -> -cost
                              [] a = CostOfGoodsSold -> cost
                              [] OTHER -> 0]
CanConfirmRedemption(c) ==
    /\ Valid(c)
    /\ ActiveReservation(c.r)
    /\ reservations[c.r].asset \in Tokens
    /\ reservations[c.r].remaining >= c.quantity
    /\ CanAllocate(reservations[c.r].asset, c.quantity)
    /\ CanPost(RedemptionPostings(c))
ConfirmRedemption(c) ==
    LET t == reservations[c.r].asset
        cost == AllocateCost(t, c.quantity)
    IN  /\ Post(RedemptionPostings(c))
        /\ ConsumeReservation(c.r, c.quantity)
        /\ costs' = ReduceCost(costs, t, c.quantity, cost)
        /\ UNCHANGED locks

(***************************************************************************)
(* LockPair: equal quantities of both outcomes of one condition are moved  *)
(* from the free inventory, with their cost, under a lock.                 *)
(***************************************************************************)
LockPostings(c) ==
    LET upCost == AllocateCost(c.up, c.quantity)
        downCost == AllocateCost(c.down, c.quantity)
    IN  [a \in Accounts |-> CASE a = TokenAvailable(c.up) -> -c.quantity
                              [] a = LockedToken(c.l, c.up) -> c.quantity
                              [] a = TokenAvailable(c.down) -> -c.quantity
                              [] a = LockedToken(c.l, c.down) -> c.quantity
                              [] a = InventoryCost(c.up) -> -upCost
                              [] a = InventoryCost(c.down) -> -downCost
                              [] a = LockedCost(c.l) -> upCost + downCost
                              [] OTHER -> 0]
CanLockPair(c) ==
    /\ Valid(c)
    /\ locks[c.l].status = Absent
    /\ CanAllocate(c.up, c.quantity)
    /\ CanAllocate(c.down, c.quantity)
    /\ CanPost(LockPostings(c))
LockPair(c) ==
    LET upCost == AllocateCost(c.up, c.quantity)
        downCost == AllocateCost(c.down, c.quantity)
    IN  /\ Post(LockPostings(c))
        /\ costs' = ReduceCost(ReduceCost(costs, c.up, c.quantity, upCost),
                               c.down, c.quantity, downCost)
        /\ locks' = [locks EXCEPT ![c.l] =
                [up |-> c.up, down |-> c.down, quantity |-> c.quantity,
                 cost |-> upCost + downCost, payout |-> c.quantity, status |-> "Active"]]
        /\ UNCHANGED reservations

(***************************************************************************)
(* ConfirmMerge: the locked pair is burned for its payout.                 *)
(***************************************************************************)
MergePostings(c) ==
    LET lock == locks[c.l]
    IN  [a \in Accounts |-> CASE a = LockedToken(c.l, lock.up) -> -lock.quantity
                              [] a = External(lock.up) -> lock.quantity
                              [] a = LockedToken(c.l, lock.down) -> -lock.quantity
                              [] a = External(lock.down) -> lock.quantity
                              [] a = CashAvailable -> lock.payout
                              [] a = TradingRevenue -> -lock.payout
                              [] a = LockedCost(c.l) -> -lock.cost
                              [] a = CostOfGoodsSold -> lock.cost
                              [] OTHER -> 0]
CanConfirmMerge(c) == locks[c.l].status = "Active" /\ CanPost(MergePostings(c))
\* Wrong variant, for mutation only: the lock stays active.
MergeKeepsLock(c) == Post(MergePostings(c)) /\ UNCHANGED <<reservations, costs, locks>>
ConfirmMerge(c) ==
    /\ Post(MergePostings(c))
    /\ locks' = [locks EXCEPT ![c.l].status = "Merged"]
    /\ UNCHANGED <<reservations, costs>>

(***************************************************************************)
(* ConfirmSplit: reserved cash becomes one pair; its cost is divided       *)
(* between the two outcomes, the odd unit going to `down'.                 *)
(***************************************************************************)
UpCost(c) == c.quantity \div 2
DownCost(c) == c.quantity - UpCost(c)
SplitPostings(c) ==
    [a \in Accounts |-> CASE a = CashReserved(c.r) -> -c.quantity
                          [] a = InventoryCost(c.up) -> UpCost(c)
                          [] a = InventoryCost(c.down) -> DownCost(c)
                          [] a = TokenAvailable(c.up) -> c.quantity
                          [] a = External(c.up) -> -c.quantity
                          [] a = TokenAvailable(c.down) -> c.quantity
                          [] a = External(c.down) -> -c.quantity
                          [] OTHER -> 0]
CanConfirmSplit(c) ==
    /\ Valid(c)
    /\ ActiveReservation(c.r)
    /\ reservations[c.r].asset = Collateral
    /\ reservations[c.r].remaining >= c.quantity
    /\ CanPost(SplitPostings(c))
ConfirmSplit(c) ==
    /\ Post(SplitPostings(c))
    /\ ConsumeReservation(c.r, c.quantity)
    /\ costs' = AddCost(AddCost(costs, c.up, c.quantity, UpCost(c)),
                        c.down, c.quantity, DownCost(c))
    /\ UNCHANGED locks

-----------------------------------------------------------------------------
(***************************************************************************)
(* apply: the order of the checks is halted, validation, idempotency, the  *)
(* handler.                                                                *)
(***************************************************************************)
Accepts(c) ==
    CASE c.op = "FundCollateral" -> CanFund(c)
      [] c.op \in {"ReserveCollateral", "ReserveToken"} -> CanReserve(c)
      [] c.op = "ReleaseReservation" -> CanRelease(c)
      [] c.op = "ConfirmBuy" -> CanConfirmBuy(c)
      [] c.op = "ConfirmSell" -> CanConfirmSell(c)
      [] c.op = "LockPair" -> CanLockPair(c)
      [] c.op = "ConfirmMerge" -> CanConfirmMerge(c)
      [] c.op = "ConfirmSplit" -> CanConfirmSplit(c)
      [] OTHER -> CanConfirmRedemption(c)

Handler(c) ==
    \/ c.op = "FundCollateral" /\ FundCollateral(c)
    \/ c.op \in {"ReserveCollateral", "ReserveToken"} /\ Reserve(c)
    \/ c.op = "ReleaseReservation" /\ Release(c)
    \/ c.op = "ConfirmBuy" /\ ConfirmBuy(c)
    \/ c.op = "ConfirmSell" /\ ConfirmSell(c)
    \/ c.op = "LockPair" /\ LockPair(c)
    \/ c.op = "ConfirmMerge" /\ ConfirmMerge(c)
    \/ c.op = "ConfirmSplit" /\ ConfirmSplit(c)
    \/ c.op = "ConfirmRedemption" /\ ConfirmRedemption(c)

Known(c) == \E p \in processed : p.id = c.id

\* Wrong variant, for mutation only: the id of the command is not kept.
ApplyUnrecorded(c) ==
    /\ ~halted /\ ~Known(c) /\ Accepts(c)
    /\ Handler(c)
    /\ outcome' = "Applied"
    /\ UNCHANGED <<processed, halted>>

\* A new command its handler accepts.
ApplyFresh(c) ==
    /\ ~halted /\ ~Known(c) /\ Accepts(c)
    /\ Handler(c)
    /\ processed' = processed \cup {c}
    /\ outcome' = "Applied"
    /\ UNCHANGED halted

\* A command that is refused, for its fields or, when its id is new, by its handler:
\* nothing changes and a new id stays free.
Refuse(c) ==
    /\ ~halted
    /\ ~Valid(c) \/ (~Known(c) /\ ~Accepts(c))
    /\ outcome' = "Refused"
    /\ UNCHANGED <<balances, reservations, costs, locks, processed, halted>>

\* The exact command again.
Duplicate(c) ==
    /\ ~halted /\ c \in processed
    /\ outcome' = "Duplicate"
    /\ UNCHANGED <<balances, reservations, costs, locks, processed, halted>>

\* The id of an accepted command with other, valid content: an absorbing halt.
Conflict(c) ==
    /\ ~halted /\ Valid(c) /\ Known(c) /\ c \notin processed
    /\ halted' = TRUE
    /\ outcome' = "IdempotencyConflict"
    /\ UNCHANGED <<balances, reservations, costs, locks, processed>>

RefuseHalted(c) ==
    /\ halted
    /\ outcome' = "Halted"
    /\ UNCHANGED <<balances, reservations, costs, locks, processed, halted>>

Apply(c) == ApplyFresh(c) \/ Refuse(c) \/ Duplicate(c) \/ Conflict(c) \/ RefuseHalted(c)

Next == \E c \in Commands : Apply(c)

Spec == Init /\ [][Next]_vars

-----------------------------------------------------------------------------
(***************************************************************************)
(* Properties                                                              *)
(***************************************************************************)

\* Every variable has the type of the field of AccountingLedger it models.
TypeOK ==
    /\ balances \in [Accounts -> Int]
    /\ reservations \in [ReservationIds -> ReservationType]
    /\ costs \in [Tokens -> [quantity : Int, cost : Int]]
    /\ locks \in [LockIds -> LockType]
    /\ processed \subseteq CommandType
    /\ halted \in BOOLEAN
    /\ outcome \in {"None", "Applied", "Refused", "Duplicate", "IdempotencyConflict", "Halted"}

\* verify_invariants, conservation: in every asset the accounts sum to zero,
\* whatever commands were applied in whatever order.
Conservation ==
    \A asset \in Tokens \cup {Collateral} : Total(balances, asset) = 0

\* verify_invariants, reservations: the accounts of a reservation hold exactly
\* its remainder, in its own asset and only while it is active; the remainder
\* stays within what was reserved.
ReservationBacked ==
    \A r \in ReservationIds :
        /\ \A asset \in Tokens \cup {Collateral} :
               balances[ReservedAccount(r, asset)] =
                   IF ActiveReservation(r) /\ reservations[r].asset = asset
                   THEN reservations[r].remaining ELSE 0
        /\ reservations[r].status # Absent =>
               /\ reservations[r].original > 0
               /\ 0 <= reservations[r].remaining
               /\ reservations[r].remaining <= reservations[r].original

\* verify_invariants, locks: the accounts of a lock hold exactly its two
\* outcomes and its cost while it is active, and nothing before or after.
LockBacked ==
    \A l \in LockIds :
        /\ \A t \in Tokens :
               balances[LockedToken(l, t)] =
                   IF locks[l].status = "Active" /\ t \in {locks[l].up, locks[l].down}
                   THEN locks[l].quantity ELSE 0
        /\ balances[LockedCost(l)] = IF locks[l].status = "Active" THEN locks[l].cost ELSE 0

\* verify_invariants, inventory quantity: the tracked position of a token is
\* what is free plus what every active reservation of it still holds.
InventoryBacked ==
    \A t \in Tokens :
        costs[t].quantity =
            balances[TokenAvailable(t)]
            + MapThenSumSet(LAMBDA r : reservations[r].remaining,
                            {r \in ReservationIds : /\ reservations[r].asset = t
                                                    /\ ActiveReservation(r)})

\* verify_invariants and reduce_cost, inventory cost: the inventory account is
\* the tracked cost, nothing is negative, and disposing of the last unit takes
\* the last micro of cost with it however the earlier disposals were rounded.
CostBacked ==
    \A t \in Tokens :
        /\ balances[InventoryCost(t)] = costs[t].cost
        /\ costs[t].quantity >= 0 /\ costs[t].cost >= 0
        /\ costs[t].quantity = 0 => costs[t].cost = 0

\* post: no account that must not be overdrawn is ever negative.
NoOverdraft == \A a \in Accounts : RequiresNonnegative(a) => balances[a] >= 0

\* Idempotency: one command per id is ever accepted, whatever is redelivered.
OneCommandPerId == \A p, q \in processed : p.id = q.id => p = q

\* What an accepted command brought and took: capital, fees, revenue, the cash spent on
\* tokens and the tokens of an outcome that came from outside.
Capital(c) == IF c.op = "FundCollateral" THEN c.amount ELSE 0
Fee(c) == IF c.op \in {"ConfirmBuy", "ConfirmSell"} THEN c.fee ELSE 0
Revenue(c) ==
    CASE c.op = "ConfirmSell" -> c.gross
      [] c.op = "ConfirmMerge" -> locks[c.l].quantity
      [] c.op = "ConfirmRedemption" -> c.payout
      [] OTHER -> 0
Spending(c) ==
    CASE c.op = "ConfirmBuy" -> c.consideration
      [] c.op = "ConfirmSplit" -> c.quantity
      [] OTHER -> 0
Inflow(c, t) ==
    CASE c.op = "ConfirmBuy" /\ c.token = t -> c.quantity
      [] c.op = "ConfirmSplit" /\ t \in {c.up, c.down} -> c.quantity
      [] c.op \in {"ConfirmSell", "ConfirmRedemption"} /\ reservations[c.r].asset = t ->
             -c.quantity
      [] c.op = "ConfirmMerge" /\ t \in {locks[c.l].up, locks[c.l].down} ->
             -locks[c.l].quantity
      [] OTHER -> 0

\* Idempotency, seen in the books: whatever is redelivered, refused or in conflict, their
\* totals are the sums over the accepted commands, one per id and each counted once:
\* capital, fees, revenue, the cash wherever it is held, the tokens of every outcome.
CommandsCountOnce ==
    LET Sum(F(_)) == MapThenSumSet(F, processed)
        cash == {a \in Accounts : a[1] \in {"CashAvailable", "CashReserved"}}
    IN  /\ OneCommandPerId
        /\ balances[CapitalContributed] = -Sum(Capital)
        /\ balances[FeeExpense] = Sum(Fee)
        /\ balances[TradingRevenue] = -Sum(Revenue)
        /\ MapThenSumSet(LAMBDA a : balances[a], cash)
               = Sum(Capital) + Sum(Revenue) - Sum(Spending) - Sum(Fee)
        /\ \A t \in Tokens : balances[External(t)] = -Sum(LAMBDA c : Inflow(c, t))
=============================================================================
