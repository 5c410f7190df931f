-------------------------- MODULE PairedOpportunity --------------------------
(***************************************************************************)
(* crates/paired-opportunity-runtime: one command takes a complete-set     *)
(* opportunity through the detector, its two intents through the proposal  *)
(* boundary and both candidates together through portfolio risk.  The      *)
(* three engines are owned: state.arbitrage, state.proposal, state.risk.   *)
(***************************************************************************)
EXTENDS EngineOwner, FiniteSets

CONSTANTS Commands, Unit, Basis, Ceiling, HardMax

Arbitrage == INSTANCE CompleteSetArbitrage
Proposal == INSTANCE StrategyProposal WITH
    MaxOf <- [validity |-> 1, quantity |-> Ceiling.quantity, fee |-> Ceiling.fee]
Risk == INSTANCE PortfolioRisk

\* The commands and what they carry, by the fields that the engine reads.
\* The frame has the fields of a risk request whose candidates the runtime fills in.
IsRiskFrame(v) == Risk!IsRequest(v) /\ v.candidates = {}

IsCommand(c) ==
    /\ Variant(c, {"Evaluate"}, {"request", "detector", "frame"})
    /\ Arbitrage!IsRequest(c.request) /\ IsRiskFrame(c.frame)

Initial == [arbitrage |-> Arbitrage!Initial, proposal |-> Proposal!Initial, risk |-> Risk!Initial,
            consumed |-> {}, eligible |-> 0, none |-> 0]

Found(c) == Arbitrage!Reason(state.arbitrage, c.request) = "ExecutableProfit"
Intents(c) == Arbitrage!Plan(c.request).intents

\* The legs go through the proposal engine one after the other.
AfterFirst(c) == Proposal!After(state.proposal, c.request.context, Intents(c)[1])
AfterBoth(c) == Proposal!After(AfterFirst(c), c.request.context, Intents(c)[2])

LegsAccepted(c) ==
    /\ Proposal!Reason(state.proposal, c.request.context, Intents(c)[1]) = "ContextAccepted"
    /\ Proposal!Reason(AfterFirst(c), c.request.context, Intents(c)[2]) = "ContextAccepted"

Candidates(c) == {Proposal!Candidate(c.request.context, Intents(c)[i]) : i \in {1, 2}}

\* One risk request has both candidates.
RiskRequest(c) == [c.frame EXCEPT !.candidates = Candidates(c)]

\* A gate older than one the risk engine has seen, or another one of its time.
GateFollows(c) ==
    /\ c.frame.gate.at >= state.risk.reconciled
    /\ c.frame.gate.at = state.risk.reconciled => c.frame.gate.digest = state.risk.digest

\* A decision of the detector is consumed once; its digest binds the detector's command.
Possible(c) ==
    /\ Arbitrage!ContextFollows(state.arbitrage, c.request.context)
    /\ c.detector \notin state.consumed
    /\ Found(c) => /\ Proposal!ContextFollows(state.proposal, c.request.context)
                   /\ LegsAccepted(c) /\ GateFollows(c)

NoOpportunity(c) ==
    /\ Possible(c) /\ ~Found(c)
    /\ state' = [state EXCEPT !.arbitrage = Arbitrage!After(@, c.request),
                              !.consumed = @ \cup {c.detector}, !.none = @ + 1]
    /\ Decide(c, "DetectorNoOpportunity")

Assessed(c) ==
    /\ Possible(c) /\ Found(c)
    /\ LET reason == Risk!Evaluate(RiskRequest(c), c.at)
           approved == reason = "AllLimitsSatisfied"
       IN  /\ state' = [arbitrage |-> Arbitrage!After(state.arbitrage, c.request),
                        proposal |-> AfterBoth(c),
                        risk |-> [reconciled |-> c.frame.gate.at, digest |-> c.frame.gate.digest,
                                  last |-> {[id |-> c.id, reason |-> reason]}],
                        consumed |-> state.consumed \cup {c.detector},
                        eligible |-> state.eligible + IF approved THEN 1 ELSE 0,
                        none |-> state.none + IF approved THEN 0 ELSE 1]
           /\ Decide(c, IF approved THEN "CombinedRiskApproved" ELSE "CombinedRiskNoTrade")

\* validate_command: the frame, the detector's request and the command have one time.
WellFormed(c) == c.at >= 0 /\ c.request.evaluated = c.at /\ c.request.context.captured <= c.at

Handler(c) == NoOpportunity(c) \/ Assessed(c)

Apply(c) == ApplyIdFirst(c, Possible(c), Handler(c))

Init == OwnerInit(Initial)
Journal(c) == JournalCommand(c, WellFormed(c), Possible(c))
Install == InstallCommand(Apply(Last(log)))
Recovery == RecoverWith(Apply(log[cursor + 1]), Initial)
WriteCheckpoint == SaveCheckpoint

Next ==
    \/ \E c \in Commands : Journal(c)
    \/ Install \/ SyncFails \/ Crash \/ Recovery \/ WriteCheckpoint

-----------------------------------------------------------------------------
EligiblePairs == {p.command : p \in {q \in processed : q.status = "CombinedRiskApproved"}}

\* specs/021: a pair is eligible as a whole.  Both legs were proposed, for one quantity
\* of the two tokens of one market, each proposal once, and together with nothing that
\* is already spent they can be paid for.
EligiblePairsAreWhole ==
    /\ state.eligible = Cardinality(EligiblePairs)
    /\ state.proposal.candidates >= 2 * state.eligible
    /\ state.proposal.candidates + state.proposal.rejects = Cardinality(state.proposal.used)
    /\ \A c \in EligiblePairs :
           LET cs == Candidates(c)
           IN  /\ {o.token : o \in cs} = {"up", "down"} /\ Cardinality({o.quantity : o \in cs}) = 1
               /\ \A i \in {1, 2} : Intents(c)[i].proposal \in state.proposal.used
               /\ Risk!BuysCost(cs) <= c.frame.ledger.cash
=============================================================================
