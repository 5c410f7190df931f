---------------------------- MODULE PortfolioRisk ----------------------------
(***************************************************************************)
(* crates/portfolio-risk: the scenario authority.  A request is answered   *)
(* from the worst of finitely many scenarios: each order filled not at     *)
(* all, partly or in full, each market resolved up or down, each shock.    *)
(*                                                                         *)
(* Amounts are small integers in the scale Unit (MICROS_PER_UNIT) and      *)
(* Basis (BPS_DENOMINATOR); the 128-bit arithmetic has no overflow there.  *)
(***************************************************************************)
EXTENDS EngineOwner, FiniteSets, FiniteSetsExt

CONSTANTS
    Commands, Unit, Basis,
    HardMax     \* HARD_MAX_ORDERS, _CANDIDATES, _MARKETS, _SHOCKS and _SCENARIOS

\* The commands and what they carry, by the fields that the engine reads.
IsMarket(v) == DOMAIN v = {"condition", "group", "up", "down"}

IsOrder(v) == DOMAIN v = {"id", "token", "side", "price", "quantity", "fee", "partial"}

IsLimits(v) ==
    DOMAIN v = {"orders", "scenarios", "condition", "group", "gross", "floor", "operational",
                "settlement", "available", "reserved", "locked", "reservedCash", "age"}

\* A shock profile is a function from groups to multipliers.  The ledger is its snapshot,
\* the gate the reconciler's readiness.
IsRequest(v) ==
    /\ DOMAIN v = {"ledger", "gate", "markets", "open", "candidates", "shocks", "limits"}
    /\ \A m \in v.markets : IsMarket(m)
    /\ \A o \in v.open \cup v.candidates : IsOrder(o)
    /\ IsLimits(v.limits)

IsCommand(c) == Variant(c, {"Evaluate"}, {"request", "recorded"}) /\ IsRequest(c.request)

Initial == [reconciled |-> -1, digest |-> "none", last |-> {}]

-----------------------------------------------------------------------------
(***************************************************************************)
(* Fixed-point arithmetic: costs and fees round up, proceeds and haircuts  *)
(* round down.                                                             *)
(***************************************************************************)
DivCeil(value, divisor) == (value + divisor - 1) \div divisor
BuyCost(price, quantity) == DivCeil(price * quantity, Unit)
SaleProceeds(price, quantity) == (price * quantity) \div Unit
PartialFee(o, fill) == DivCeil(o.fee * fill, o.quantity)
FullBuyCost(o) == BuyCost(o.price, o.quantity) + o.fee
Haircut(value, bps) == (value * bps) \div Basis

\* Wrong variant, for mutation only: orders are taken for filled.
OptionsFull(o) == {o.quantity}

\* options: the fills of an order that are enumerated.
Options(o) == {0, o.quantity} \cup ({o.partial} \ {0})

Tokens(r) == UNION {{m.up, m.down} : m \in r.markets}
Groups(r) == {m.group : m \in r.markets}
Sum(S, f(_)) == MapThenSumSet(f, S)

-----------------------------------------------------------------------------
(***************************************************************************)
(* prepare: the frame is checked before anything is enumerated             *)
(***************************************************************************)
ValidLimits(l) ==
    /\ \A f \in DOMAIN l : l[f] >= 0
    /\ l.orders <= HardMax.orders /\ l.scenarios \in 1..HardMax.scenarios
    /\ {l.reservedCash, l.available, l.reserved, l.locked} \subseteq 0..Basis

\* market_index: no token and no condition appears twice.
MarketsDisjoint(r) ==
    /\ \A m \in r.markets : m.up # m.down
    /\ Cardinality(Tokens(r)) = 2 * Cardinality(r.markets)
    /\ Cardinality({m.condition : m \in r.markets}) = Cardinality(r.markets)

ValidShocks(r) ==
    \A s \in r.shocks : DOMAIN s \subseteq Groups(r) /\ \A g \in DOMAIN s : s[g] <= Basis

ValidOrder(o, r) ==
    /\ o.token \in Tokens(r) /\ o.quantity > 0 /\ o.partial >= 0 /\ o.partial < o.quantity
    /\ o.price \in 0..Unit /\ o.fee >= 0

\* A sale's fee never exceeds its proceeds, at any enumerated fill.
OrderFillSafe(o) ==
    o.side = "Sell" =>
        \A f \in Options(o) \ {0} : PartialFee(o, f) <= SaleProceeds(o.price, f)

Balances(b, r) == DOMAIN b \subseteq Tokens(r) /\ \A t \in DOMAIN b : b[t] > 0
Balance(b, t) == IF t \in DOMAIN b THEN b[t] ELSE 0

FrameValid(r) ==
    /\ r.markets # {} /\ Cardinality(r.markets) <= HardMax.markets
    /\ Cardinality(r.open) <= r.limits.orders
    /\ Cardinality(r.candidates) <= HardMax.candidates
    /\ Cardinality(r.open \cup r.candidates) <= HardMax.orders
    /\ r.shocks # {} /\ Cardinality(r.shocks) <= HardMax.shocks
    /\ MarketsDisjoint(r) /\ ValidShocks(r)
    /\ Balances(r.ledger.available, r) /\ Balances(r.ledger.reserved, r) /\ Balances(r.ledger.locked, r)
    /\ r.ledger.cash >= 0 /\ r.ledger.cashReserved >= 0
    /\ \A o \in r.open : ValidOrder(o, r) /\ OrderFillSafe(o)
    /\ \A o \in r.candidates : ValidOrder(o, r)
    /\ Cardinality({o.id : o \in r.open \cup r.candidates}) = Cardinality(r.open) + Cardinality(r.candidates)

SellQuantity(orders, t) == Sum({o \in orders : o.side = "Sell" /\ o.token = t}, LAMBDA o : o.quantity)
BuysCost(orders) == Sum({o \in orders : o.side = "Buy"}, FullBuyCost)

\* What the ledger has reserved is exactly what the open orders can consume.
ReservationsAgree(r) ==
    /\ BuysCost(r.open) = r.ledger.cashReserved
    /\ \A t \in Tokens(r) : SellQuantity(r.open, t) = Balance(r.ledger.reserved, t)

CandidatesHaveCapacity(r) ==
    /\ \A o \in r.candidates : OrderFillSafe(o)
    /\ BuysCost(r.candidates) <= r.ledger.cash
    /\ \A t \in Tokens(r) : SellQuantity(r.candidates, t) <= Balance(r.ledger.available, t)

Orders(r) == r.open \cup r.candidates
\* decode_fills: every choice of one fill per order.
FillsOf(r, options) ==
    {f \in [Orders(r) -> UNION {options[o] : o \in Orders(r)}] :
        \A o \in Orders(r) : f[o] \in options[o]}
Resolutions(r) == [r.markets -> {"up", "down"}]

ScenarioCount(r) ==
    LET fills == FillsOf(r, [o \in Orders(r) |-> Options(o)])
    IN  Cardinality(fills) * 2 ^ Cardinality(r.markets) * Cardinality(r.shocks)

-----------------------------------------------------------------------------
(***************************************************************************)
(* One scenario: apply_fill for every order, terminal_wealth, exposure     *)
(***************************************************************************)
Bought(fills, orders, t) == Sum({o \in orders : o.side = "Buy" /\ o.token = t}, LAMBDA o : fills[o])
Sold(fills, orders, t) == Sum({o \in orders : o.side = "Sell" /\ o.token = t}, LAMBDA o : fills[o])
Paid(fills, orders) ==
    Sum({o \in orders : o.side = "Buy"}, LAMBDA o : BuyCost(o.price, fills[o]) + PartialFee(o, fills[o]))
Earned(fills, orders) ==
    Sum({o \in orders : o.side = "Sell"},
        LAMBDA o : SaleProceeds(o.price, fills[o]) - PartialFee(o, fills[o]))

\* Open orders draw on what is reserved, candidates on what is available.
Holdings(r, fills) ==
    LET all == r.open \cup r.candidates
    IN  [cash |-> r.ledger.cash - Paid(fills, r.candidates) + Earned(fills, all),
         cashReserved |-> r.ledger.cashReserved - Paid(fills, r.open),
         available |-> [t \in Tokens(r) |-> Balance(r.ledger.available, t) + Bought(fills, all, t)
                                              - Sold(fills, r.candidates, t)],
         reserved |-> [t \in Tokens(r) |-> Balance(r.ledger.reserved, t) - Sold(fills, r.open, t)],
         locked |-> [t \in Tokens(r) |-> Balance(r.ledger.locked, t)]]

ShockMultiplier(s, g) == IF g \in DOMAIN s THEN s[g] ELSE Basis

TerminalWealth(r, h, resolution, shock) ==
    LET worth(m) ==
            LET t == IF resolution[m] = "up" THEN m.up ELSE m.down
                x == ShockMultiplier(shock, m.group)
            IN  Haircut(Haircut(h.available[t], r.limits.available), x)
                + Haircut(Haircut(h.reserved[t], r.limits.reserved), x)
                + Haircut(Haircut(h.locked[t], r.limits.locked), x)
    IN  h.cash + Haircut(h.cashReserved, r.limits.reservedCash) + Sum(r.markets, worth)
        - r.limits.operational - r.limits.settlement

TotalToken(h, t) == h.available[t] + h.reserved[t] + h.locked[t]
Directional(h, m) ==
    LET d == TotalToken(h, m.up) - TotalToken(h, m.down) IN IF d < 0 THEN -d ELSE d

Gross(r, h) == Sum(r.markets, LAMBDA m : TotalToken(h, m.up) + TotalToken(h, m.down))
Condition(r, h) == Max({Directional(h, m) : m \in r.markets})
Group(r, h) ==
    Max({Sum({m \in r.markets : m.group = g}, LAMBDA m : Directional(h, m)) : g \in Groups(r)})

WorstWealth(r, fills) ==
    Min({TerminalWealth(r, Holdings(r, f), o, s) : f \in fills, o \in Resolutions(r), s \in r.shocks})

-----------------------------------------------------------------------------
(***************************************************************************)
(* evaluate and enumerate: the reason of the decision                      *)
(***************************************************************************)
Enumerate(r) ==
    LET fills == FillsOf(r, [o \in Orders(r) |-> Options(o)])
    IN  CASE WorstWealth(r, fills) < r.limits.floor -> "CapitalFloor"
          [] \E f \in fills : Gross(r, Holdings(r, f)) > r.limits.gross -> "GrossExposure"
          [] \E f \in fills : Condition(r, Holdings(r, f)) > r.limits.condition -> "ConditionExposure"
          [] \E f \in fills : Group(r, Holdings(r, f)) > r.limits.group -> "GroupExposure"
          [] OTHER -> "AllLimitsSatisfied"

Prepare(r) ==
    IF ~FrameValid(r) THEN "InvalidFrame"
    ELSE IF ~ReservationsAgree(r) THEN "ReservationMismatch"
    ELSE IF ~CandidatesHaveCapacity(r) THEN "CandidateCapacity"
    ELSE IF ScenarioCount(r) > Min({r.limits.scenarios, HardMax.scenarios}) THEN "ScenarioBudget"
    ELSE Enumerate(r)

Evaluate(r, at) ==
    IF ~ValidLimits(r.limits) THEN "InvalidFrame"
    ELSE IF ~r.gate.ready THEN "ReconciliationNotReady"
    ELSE IF at < r.gate.at THEN "InvalidFrame"
    ELSE IF at - r.gate.at > r.limits.age THEN "ReconciliationStale"
    ELSE IF r.gate.ledger # r.ledger.digest THEN "ProvenanceMismatch"
    ELSE IF r.ledger.halted THEN "LedgerHalted"
    ELSE Prepare(r)

\* A reconciliation older than the last one, or another one of the same time, halts.
Possible(c) ==
    /\ c.request.gate.at >= state.reconciled
    /\ c.request.gate.at = state.reconciled => c.request.gate.digest = state.digest

\* validate_command.
WellFormed(c) == c.at >= 0 /\ c.recorded >= c.at

Handler(c) ==
    /\ Possible(c)
    /\ LET reason == Evaluate(c.request, c.at)
       IN  /\ state' = [reconciled |-> c.request.gate.at, digest |-> c.request.gate.digest,
                        last |-> {[id |-> c.id, reason |-> reason]}]
           /\ Decide(c, reason)

Apply(c) == ApplyIdFirst(c, Possible(c), Handler(c))

-----------------------------------------------------------------------------
Init == OwnerInit(Initial)

Journal(c) == JournalCommand(c, WellFormed(c), Possible(c))
Install == InstallCommand(Apply(Last(log)))
Recovery == RecoverWith(Apply(log[cursor + 1]), Initial)
WriteCheckpoint == SaveCheckpoint

Next ==
    \/ \E c \in Commands : Journal(c)
    \/ Install \/ SyncFails \/ Crash \/ Recovery \/ WriteCheckpoint

-----------------------------------------------------------------------------
\* The request just approved; every approval is once the last one.
Approved ==
    {p.command.request : p \in {q \in processed : /\ q.status = "AllLimitsSatisfied"
                                                  /\ outcome = q.status
                                                  /\ \E d \in state.last : d.id = q.command.id}}

\* What a venue may really do: fill any quantity up to the order's.
AnyFill(o) == 0..o.quantity

\* The divisions of a scenario that need not come out even: cost and fee of each order;
\* the haircut of the reserved cash, and two for each kind of holding of a market.
Uneven(value, divisor) == IF value % divisor = 0 THEN 0 ELSE 1
FillRoundings(r) ==
    Sum(Orders(r), LAMBDA o : Uneven(o.price, Unit) + Uneven(o.fee, o.quantity))
Roundings(r, shock) ==
    FillRoundings(r) + Uneven(r.limits.reservedCash, Basis)
    + Sum(r.markets, LAMBDA m :
              Uneven(r.limits.available, Basis) + Uneven(r.limits.reserved, Basis)
              + Uneven(r.limits.locked, Basis) + 3 * Uneven(ShockMultiplier(shock, m.group), Basis))

\* Below the bound by less than the roundings, each of which is less than one micro; and
\* not at all where every division is even.
Within(amount, bound, roundings) == amount + Max({1, roundings}) > bound

\* An approval holds for every fill the venue can make, and not only for the ones
\* that were enumerated: no partial fill takes wealth below the capital floor by as much
\* as the roundings it meets, and none breaks an exposure limit.
ApprovalCoversEveryFill ==
    \A r \in Approved : \A f \in FillsOf(r, [o \in Orders(r) |-> AnyFill(o)]) :
        LET h == Holdings(r, f)
        IN  /\ \A resolution \in Resolutions(r), s \in r.shocks :
                   Within(TerminalWealth(r, h, resolution, s), r.limits.floor, Roundings(r, s))
            /\ Gross(r, h) <= r.limits.gross
            /\ Condition(r, h) <= r.limits.condition
            /\ Group(r, h) <= r.limits.group

\* An approved candidate can be paid for out of what is free: nothing that backs an
\* open order, and no token twice, is promised again, whatever fills come; the cash may
\* fall short only by less than the roundings.
ApprovalIsFunded ==
    \A r \in Approved : \A f \in FillsOf(r, [o \in Orders(r) |-> AnyFill(o)]) :
        LET h == Holdings(r, f)
        IN  /\ Within(h.cashReserved, 0, FillRoundings(r)) /\ Within(h.cash, 0, FillRoundings(r))
            /\ \A t \in Tokens(r) : h.available[t] >= 0 /\ h.reserved[t] >= 0
=============================================================================
