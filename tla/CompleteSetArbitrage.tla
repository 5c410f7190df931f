------------------------ MODULE CompleteSetArbitrage ------------------------
(***************************************************************************)
(* crates/complete-set-arbitrage: buying both tokens of a market for less  *)
(* than the unit a pair redeems for, or selling both for more.  The plan   *)
(* is priced in fixed point with everything rounded against the profit.    *)
(* Contexts are as in StrategyProposal.                                    *)
(***************************************************************************)
EXTENDS EngineOwner, FiniteSetsExt

CONSTANTS Commands, Unit, Basis,
    Ceiling     \* MAX_QUANTITY, MAX_COST, MAX_FEE and MAX_ROI

\* The commands and what they carry, by the fields that the engine reads.
IsConstraints(v) ==
    DOMAIN v = {"min", "max", "partial", "upFee", "downFee", "conversion", "profit", "roi"}

\* The context is the one strategy-proposal captured.
IsRequest(v) ==
    /\ DOMAIN v = {"evaluation", "direction", "context", "constraints", "evaluated", "expires"}
    /\ IsConstraints(v.constraints)

IsCommand(c) == Variant(c, {"Evaluate"}, {"request"}) /\ IsRequest(c.request)

Initial == [used |-> {}, contexts |-> {}, opportunities |-> 0, none |-> 0]

ValidConstraints(k) ==
    /\ k.min > 0 /\ k.max >= k.min /\ k.max <= Ceiling.quantity
    /\ k.partial > 0 /\ k.partial < k.min
    /\ k.upFee \in 0..Ceiling.fee /\ k.downFee \in 0..Ceiling.fee
    /\ k.conversion \in 0..Ceiling.cost /\ k.profit \in 1..Ceiling.cost
    /\ k.roi <= Ceiling.roi

BooksReady(context) ==
    /\ DOMAIN context.books = {"up", "down"}
    /\ \A t \in DOMAIN context.books :
           LET b == context.books[t] IN b.authoritative /\ b.bid # {} /\ b.ask # {}

ContextFollows(s, context) ==
    /\ context.authentic
    /\ \A p \in s.contexts : /\ context.captured >= p.captured
                             /\ context.captured = p.captured => context = p

\* selected_levels: bought at the ask, sold at the bid.
Level(r, token) ==
    CHOOSE l \in IF r.direction = "BuyPair" THEN r.context.books[token].ask
                 ELSE r.context.books[token].bid : TRUE

\* Wrong variant, for mutation only: what is bought is rounded down as well.
LegValueDown(r, token, quantity) == (Level(r, token).price * quantity) \div Unit

\* leg_value: what is paid is rounded up, what is earned is rounded down.
LegValue(r, token, quantity) ==
    IF r.direction = "BuyPair" THEN (Level(r, token).price * quantity + Unit - 1) \div Unit
    ELSE (Level(r, token).price * quantity) \div Unit

Quantity(r) == Min({r.constraints.max, Level(r, "up").quantity, Level(r, "down").quantity})

\* proposal_intent of one leg.
Intent(r, token, quantity) ==
    [proposal |-> <<r.evaluation, r.context, token, r.direction, r.constraints>>, token |-> token,
     side |-> IF r.direction = "BuyPair" THEN "Buy" ELSE "Sell", quantity |-> quantity,
     partial |-> r.constraints.partial, price |-> Level(r, token).price,
     fee |-> IF token = "up" THEN r.constraints.upFee ELSE r.constraints.downFee,
     evaluated |-> r.evaluated, expires |-> Min({r.expires, r.context.until})]

Plan(r) ==
    LET quantity == Quantity(r)
        legs == LegValue(r, "up", quantity) + LegValue(r, "down", quantity)
        fees == r.constraints.upFee + r.constraints.downFee
        deployed == IF r.direction = "BuyPair" THEN legs + fees + r.constraints.conversion
                    ELSE quantity + r.constraints.conversion
    IN  [quantity |-> quantity, deployed |-> deployed,
         profit |-> IF r.direction = "BuyPair" THEN quantity - deployed ELSE legs - fees - deployed,
         intents |-> <<Intent(r, "up", quantity), Intent(r, "down", quantity)>>]

\* calculate_plan: the reason a plan is rejected, or that it is executable.
PlanReason(r) ==
    LET p == Plan(r)
    IN  IF p.quantity < r.constraints.min \/ r.constraints.partial > p.quantity
        THEN "InsufficientLiquidity"
        ELSE IF p.profit <= 0 THEN "NonPositiveProfit"
        ELSE IF p.profit < r.constraints.profit THEN "ProfitBelowMinimum"
        ELSE IF p.deployed <= 0 THEN "UndefinedRoi"
        ELSE IF (p.profit * Basis) \div p.deployed < r.constraints.roi THEN "RoiBelowMinimum"
        ELSE "ExecutableProfit"

\* evaluate: the first check that fails is the reason.
Reason(s, r) ==
    IF r.evaluation \in s.used THEN "EvaluationAlreadyUsed"
    ELSE IF ~r.context.current \/ ~r.context.ready \/ ~BooksReady(r.context) THEN "SourceNotReady"
    ELSE IF r.evaluated > r.context.until THEN "ContextExpired"
    ELSE IF r.evaluated > r.expires THEN "RequestExpired"
    ELSE IF ~ValidConstraints(r.constraints) THEN "InvalidConstraints"
    ELSE PlanReason(r)

After(s, r) ==
    LET found == Reason(s, r) = "ExecutableProfit"
    IN  [used |-> s.used \cup {r.evaluation}, contexts |-> {r.context},
         opportunities |-> s.opportunities + IF found THEN 1 ELSE 0,
         none |-> s.none + IF found THEN 0 ELSE 1]

-----------------------------------------------------------------------------
\* validate_command.
WellFormed(c) ==
    c.at >= 0 /\ c.request.evaluated = c.at /\ c.request.context.captured <= c.at

Possible(c) == ContextFollows(state, c.request.context)

Handler(c) ==
    /\ Possible(c)
    /\ state' = After(state, c.request)
    /\ Decide(c, Reason(state, c.request))

Apply(c) == ApplyIdFirst(c, Possible(c), Handler(c))

Init == OwnerInit(Initial)
Journal(c) == JournalCommand(c, WellFormed(c), Possible(c))
Install == InstallCommand(Apply(Last(log)))
Recovery == RecoverWith(Apply(log[cursor + 1]), Initial)
WriteCheckpoint == SaveCheckpoint

Next ==
    \/ \E c \in Commands : Journal(c)
    \/ Install \/ SyncFails \/ Crash \/ Recovery \/ WriteCheckpoint

-----------------------------------------------------------------------------
Found == {p.command.request : p \in {q \in processed : q.status = "ExecutableProfit"}}

\* An opportunity is one: in exact arithmetic, without a rounding in its favour, the pair
\* earns what the plan says, of levels that were on the book, and no intent of it
\* outlives the context it was read from.
OpportunitiesEarn ==
    \A r \in Found :
        LET p == Plan(r)
            prices == Level(r, "up").price + Level(r, "down").price
            fees == r.constraints.upFee + r.constraints.downFee + r.constraints.conversion
            exact == IF r.direction = "BuyPair" THEN (Unit - prices) * p.quantity
                     ELSE (prices - Unit) * p.quantity
        IN  /\ Unit * r.constraints.profit <= exact - Unit * fees
            /\ p.quantity <= Level(r, "up").quantity /\ p.quantity <= Level(r, "down").quantity
            /\ \A i \in {1, 2} : p.intents[i].expires <= r.context.until
=============================================================================
