--------------------------- MODULE TradingEngines ---------------------------
(***************************************************************************)
(* The engines an order passes: order-intent-policy permits it,            *)
(* paper-execution places, fills and ends it, settlement-reconciliation    *)
(* follows its trades to their finality, and paper-trading-runtime has all *)
(* of them and the ledger under one writer.  Each runs alone under its     *)
(* journal-first owner, on any commands of its crate; a behaviour is that  *)
(* of one of them.                                                         *)
(***************************************************************************)
EXTENDS EngineOwner

CONSTANTS
    PolicyCommands, ExecutionCommands, SettlementCommands,  \* what callers may submit
    PipelineCommands,
    Quantities,                 \* of the orders of the runtime
    OrderIds, Unit,             \* the orders, and the micro units of one unit
    Trades, Grace, MaxIntents,  \* the trades, and the reconciler's configuration
    Bounds                      \* bound: of each engine, the strays, the length of the journal,
                                \* and where in it the checkpoint and the faults are

ASSUME UnitAssumption == Unit \in Nat \ {0}

\* portfolio-risk approves no order for nothing.
ASSUME QuantitiesAssumption == \A o \in DOMAIN Quantities : Quantities[o] \in Nat \ {0}

VARIABLE engine   \* the engine of this behaviour

OIP == INSTANCE OrderIntentPolicy WITH
    Commands <- PolicyCommands, Strays <- Bounds["order-intent-policy"].strays,
    CheckpointAt <- Bounds["order-intent-policy"].checkpointAt,
    FaultsAt <- Bounds["order-intent-policy"].faultsAt, MaxLog <- Bounds["order-intent-policy"].maxLog
PEX == INSTANCE PaperExecution WITH
    Commands <- ExecutionCommands, Strays <- Bounds["paper-execution"].strays,
    CheckpointAt <- Bounds["paper-execution"].checkpointAt,
    FaultsAt <- Bounds["paper-execution"].faultsAt, MaxLog <- Bounds["paper-execution"].maxLog
SR == INSTANCE SettlementReconciliation WITH
    Commands <- SettlementCommands, Strays <- Bounds["settlement-reconciliation"].strays,
    CheckpointAt <- Bounds["settlement-reconciliation"].checkpointAt,
    FaultsAt <- Bounds["settlement-reconciliation"].faultsAt, MaxLog <- Bounds["settlement-reconciliation"].maxLog
PTR == INSTANCE PaperTradingRuntime WITH
    Commands <- PipelineCommands, Strays <- Bounds["paper-trading-runtime"].strays,
    CheckpointAt <- Bounds["paper-trading-runtime"].checkpointAt,
    FaultsAt <- Bounds["paper-trading-runtime"].faultsAt, MaxLog <- Bounds["paper-trading-runtime"].maxLog

(***************************************************************************)
(* The commands have the types their crates decode: times, sequences and   *)
(* amounts are integers, orders and trades are among those of the run.     *)
(* The rest of a command is anything.                                      *)
(***************************************************************************)
Timed == {"AuthorizeCancel", "MarkDelayed", "MarkLive", "MarkTerminal"}

PolicyCommandsTyped ==
    \A c \in PolicyCommands :
        /\ c.at \in Int
        /\ c.op = "AuthorizePlacement" =>
               c.request.order.id \in OrderIds /\ c.request.expires \in Int
        /\ c.op \in Timed => c.order \in OrderIds
        /\ c.op = "MarkDelayed" => c.release \in Int /\ c.uncancellableUntil \in Int

EventKinds == {"Delayed", "Acknowledged", "Live", "Unknown", "Match", "CancelAccepted",
               "CancelRejected", "Rejected"}

ExecutionCommandsTyped ==
    \A c \in ExecutionCommands :
        /\ c.at \in Int
        /\ c.op = "Submit" =>
               /\ c.placement.order \in OrderIds /\ c.placement.quantity \in Int
               /\ c.placement.price \in Int /\ c.placement.maxFee \in Int
        /\ c.op = "RequestCancel" => c.request.order \in OrderIds
        /\ c.op = "Observe" =>
               c.order \in OrderIds /\ c.sequence \in Int /\ c.event.kind \in EventKinds
        /\ c.op = "Observe" /\ c.event.kind = "Match" =>
               /\ c.event.fill.quantity \in Int /\ c.event.fill.consideration \in Int
               /\ c.event.fill.fee \in Int

\* portfolio-risk approves orders for more than nothing only, at a fee that is none or
\* more, and only what it approved has a placement permit that is authentic.
PlacementsApproved ==
    \A c \in ExecutionCommands :
        c.op = "Submit" /\ c.permit.authentic /\ c.permit.grants = "Place" =>
            c.permit.subject.quantity > 0 /\ c.permit.subject.maxFee >= 0

SettlementCommandsTyped ==
    \A c \in SettlementCommands :
        /\ c.op = "RegisterIntent" => c.intent.trade \in Trades
        /\ c.op = "ObserveTrade" => c.observation.trade \in Trades

FaultPoints == {"BeforeRisk", "BeforeExecution", "BeforeHandoff", "IntegrityHalt"}

PipelineCommandsTyped ==
    \A c \in PipelineCommands :
        /\ c.order \in DOMAIN Quantities
        /\ c.op \in {"Observe", "Mark"} => c.quantity \in Int
        /\ c.op = "InjectFault" => c.fault \in FaultPoints

-----------------------------------------------------------------------------
TradingInit ==
    \/ engine = "order-intent-policy" /\ OIP!Init
    \/ engine = "paper-execution" /\ PEX!Init
    \/ engine = "settlement-reconciliation" /\ SR!Init
    \/ engine = "paper-trading-runtime" /\ PTR!Init

TradingNext ==
    /\ UNCHANGED engine
    /\ \/ engine = "order-intent-policy" /\ OIP!Next
       \/ engine = "paper-execution" /\ PEX!Next
       \/ engine = "settlement-reconciliation" /\ SR!Next
       \/ engine = "paper-trading-runtime" /\ PTR!Next

TradingSpec == TradingInit /\ [][TradingNext]_<<ownerVars, engine>>

-----------------------------------------------------------------------------
\* order-intent-policy: an approval authorizes one order and an order is authorized once,
\* over the whole decision history and across restarts.
ApprovalsSpentOnce == engine = "order-intent-policy" => OIP!ApprovalsSpentOnce

\* order-intent-policy: no order goes live before its release or after its permit expired,
\* and none is canceled twice, after its end or in its uncancellable interval.
OrdersFollowTheirPermits == engine = "order-intent-policy" => OIP!OrdersFollowTheirPermits

\* paper-execution: fills add up to what the order holds and never to more than it asked.
FillsExact == engine = "paper-execution" => PEX!FillsExact

\* paper-execution: an order ends only by a report that says so, and its handoffs are the
\* fills the reports told of, once each, in the order of the source.
OrdersAreAsReported ==
    engine = "paper-execution" => PEX!EndsAreReported /\ PEX!FillsHandedOff

\* settlement-reconciliation: no posting precedes the finality of its trade, and
\* readiness rests on an agreement of ledger, venue and chain that nothing disturbed since.
ReadinessIsAgreed == engine = "settlement-reconciliation" => SR!ReadinessIsAgreed

\* settlement-reconciliation: a final trade stays what it is and became final the legal
\* way, whatever venue updates came late, twice or contradicted each other.
TradesAreFinalOnce == engine = "settlement-reconciliation" => SR!TradesAreFinalOnce

\* paper-trading-runtime, specs/018: every order at the exchange is backed by an active
\* reservation of what the ledger has not confirmed of it yet.
OpenOrdersAreBacked == engine = "paper-trading-runtime" => PTR!OpenOrdersAreBacked

\* paper-trading-runtime, specs/018: the ledger confirms fills the execution made only,
\* each of them once, and of an order no more than was asked for.
ConfirmationsAreFills == engine = "paper-trading-runtime" => PTR!ConfirmationsAreFills

\* paper-trading-runtime, specs/018: what ended at the exchange ended for the policy.
PolicyFollowsExecution == engine = "paper-trading-runtime" => PTR!PolicyFollowsExecution

\* paper-trading-runtime, README: an unposted fill keeps its reservation.  The code does
\* not keep it so.
UnpostedFillsStayReserved == engine = "paper-trading-runtime" => PTR!UnpostedFillsStayReserved

\* settlement-reconciliation, the test durable_integrity_halt_is_recoverable_and_rejects_
\* later_events: an integrity halt survives a restart.  The code does not keep it so.
IntegrityHaltIsRecoverable == engine = "settlement-reconciliation" => SR!IntegrityHaltIsRecoverable
=============================================================================
