---------------------- MODULE SettlementReconciliation ----------------------
(***************************************************************************)
(* The single-writer reconciler of crates/settlement-reconciliation: it    *)
(* compares what was intended, what the venue reports of every trade, and  *)
(* frames that set the ledger beside a finalized chain snapshot.           *)
(*                                                                         *)
(* `state' is the struct SettlementReconciler.  A well-formed command      *)
(* that the state refuses is an integrity failure: it is recorded as       *)
(* processed and halts the reconciler for good.                            *)
(*                                                                         *)
(* Amounts, sides, tokens and orders of a trade are one value, its facts;  *)
(* collateral and token balances are one value, the holdings.  The time at *)
(* which a command is recorded only has to be late enough and is left out: *)
(* every command is of the same time.                                      *)
(***************************************************************************)
EXTENDS EngineOwner, FiniteSets

CONSTANTS
    Commands,     \* the commands the callers may submit
    Trades,       \* venue trade ids
    Grace,        \* confirmation_grace_ns
    MaxIntents    \* max_intents

\* The commands and what they carry, by the fields that the engine reads.
IsIntent(v) == DOMAIN v = {"id", "trade", "command", "facts"}

\* TradeObservation; `facts' are what it has in common with the intent.
IsObservation(v) == DOMAIN v = {"trade", "facts", "status", "hash", "matched", "updated"}

IsChainSnapshot(v) ==
    DOMAIN v = {"ours", "block", "hash", "observed", "finalized", "holdings"}

\* The frame brings a copy of the ledger and a finalized view of the chain.
IsFrame(v) ==
    /\ DOMAIN v = {"ledger", "chain", "evaluated"}
    /\ DOMAIN v.ledger = {"digest", "halted", "accepted", "present", "holdings"}
    /\ IsChainSnapshot(v.chain)

IsCommand(c) ==
    \/ Variant(c, {"RegisterIntent"}, {"intent"}) /\ IsIntent(c.intent)
    \/ Variant(c, {"ObserveTrade"}, {"observation"}) /\ IsObservation(c.observation)
    \/ Variant(c, {"Reconcile"}, {"frame"}) /\ IsFrame(c.frame)

NoHash == "none"
Terminal == {"Confirmed", "Failed"}

\* `trades' has the latest observation of every trade, `lastFrame' the latest frame, if
\* there is one.
Initial == [intents |-> {}, trades |-> [t \in Trades |-> {}], lastFrame |-> {},
            mode |-> "AwaitingSources"]

-----------------------------------------------------------------------------
(***************************************************************************)
(* encode_command: a malformed command is refused and leaves no trace.     *)
(***************************************************************************)
WellFormed(c) ==
    CASE c.op = "ObserveTrade" ->
            /\ 0 <= c.observation.matched /\ c.observation.matched <= c.observation.updated
            /\ c.observation.status \in {"Mined", "Confirmed"} => c.observation.hash # NoHash
      [] c.op = "Reconcile" -> c.frame.evaluated >= 0
      [] OTHER -> TRUE

(***************************************************************************)
(* RegisterIntent                                                          *)
(***************************************************************************)

CanRegister(i) ==
    /\ Cardinality(state.intents) < MaxIntents
    /\ \A j \in state.intents : j.id # i.id /\ j.trade # i.trade /\ j.command # i.command

\* Wrong variant, for mutation only: readiness is not withdrawn.
RegisterStillReady(i) == state' = [state EXCEPT !.intents = @ \cup {i}]

Register(i) == state' = [state EXCEPT !.intents = @ \cup {i}, !.mode = "Pending"]

(***************************************************************************)
(* ObserveTrade                                                            *)
(***************************************************************************)
NextStatuses(s) ==
    CASE s = "Matched" -> {"Matched", "Mined", "Retrying"}
      [] s = "Mined" -> {"Mined", "Confirmed", "Retrying"}
      [] s = "Retrying" -> {"Retrying", "Mined", "Failed"}
      [] OTHER -> {s}

\* Wrong variant, for mutation only: the hash of a confirmation is not compared.
ValidTransitionUnhashed(p, o) ==
    IF p.status \in Terminal
    THEN p = o
    ELSE /\ p.updated <= o.updated
         /\ o.status \in NextStatuses(p.status)
         /\ p.matched = o.matched
         /\ p.status = o.status => p.hash = o.hash

ValidTransition(p, o) ==
    IF p.status \in Terminal
    THEN p = o
    ELSE /\ p.updated <= o.updated
         /\ o.status \in NextStatuses(p.status)
         /\ p.matched = o.matched
         /\ (p.status = "Mined" /\ o.status = "Confirmed") => p.hash = o.hash
         /\ p.status = o.status => p.hash = o.hash

CanObserve(o) ==
    /\ \E i \in state.intents : i.trade = o.trade /\ i.facts = o.facts
    /\ state.trades[o.trade] = {} => o.status = "Matched"
    /\ \A p \in state.trades[o.trade] : ValidTransition(p, o)

ObserveTrade(o) == state' = [state EXCEPT !.trades[o.trade] = {o}, !.mode = "Pending"]

(***************************************************************************)
(* Reconcile                                                               *)
(***************************************************************************)
ValidFrame(f) ==
    /\ 0 <= f.chain.finalized /\ f.chain.finalized <= f.chain.observed
    /\ f.chain.observed <= f.evaluated
    /\ f.chain.ours
    /\ Cardinality(f.ledger.present) <= MaxIntents

ValidHistory(f) ==
    \A p \in state.lastFrame :
        /\ f.evaluated >= p.evaluated
        /\ f.ledger.accepted >= p.ledger.accepted
        /\ f.ledger.accepted = p.ledger.accepted => f.ledger.digest = p.ledger.digest
        /\ f.chain.block >= p.chain.block
        /\ f.chain.block = p.chain.block =>
               f.chain.hash = p.chain.hash /\ f.chain.holdings = p.chain.holdings
        /\ f.chain.observed >= p.chain.observed
        /\ f.chain.finalized >= p.chain.finalized

Status(i) == {o.status : o \in state.trades[i.trade]}
Posted(i, f) == i.command \in f.ledger.present

\* The posting state of one intent that is no integrity failure: only a confirmed
\* trade is posted, and an unposted one is within its grace.
PostingInOrder(i, f) ==
    /\ Posted(i, f) => Status(i) = {"Confirmed"}
    /\ ~Posted(i, f) => \A o \in state.trades[i.trade] :
                            o.status = "Confirmed" => f.evaluated - o.updated <= Grace

Settled(i, f) == Status(i) = {"Failed"} \/ (Status(i) = {"Confirmed"} /\ Posted(i, f))

CanReconcile(f) ==
    /\ ValidFrame(f)
    /\ ValidHistory(f)
    /\ ~f.ledger.halted
    /\ f.ledger.present \subseteq {i.command : i \in state.intents}
    /\ f.ledger.holdings = f.chain.holdings
    /\ \A i \in state.intents : PostingInOrder(i, f)

Reconcile(f) ==
    state' = [state EXCEPT !.lastFrame = {f},
        !.mode = IF \A i \in state.intents : Settled(i, f) THEN "Reconciled" ELSE "Pending"]

-----------------------------------------------------------------------------
(***************************************************************************)
(* apply                                                                   *)
(***************************************************************************)
Accepts(c) ==
    CASE c.op = "RegisterIntent" -> CanRegister(c.intent)
      [] c.op = "ObserveTrade" -> CanObserve(c.observation)
      [] OTHER -> CanReconcile(c.frame)

Handler(c) ==
    \/ c.op = "RegisterIntent" /\ Register(c.intent)
    \/ c.op = "ObserveTrade" /\ ObserveTrade(c.observation)
    \/ c.op = "Reconcile" /\ Reconcile(c.frame)

ApplyFresh(c) == ~halted /\ ~Known(c) /\ Accepts(c) /\ Handler(c) /\ Decide(c, "Applied")

\* The candidate keeps every earlier fact and is installed with the halt.
IntegrityHalt(c) ==
    /\ ~halted /\ ~Known(c) /\ ~Accepts(c)
    /\ halted' = TRUE
    /\ state' = [state EXCEPT !.mode = "Halted"]
    /\ processed' = processed \cup {[command |-> c, status |-> "IntegrityFailure"]}
    /\ outcome' = "IntegrityFailure"
    /\ UNCHANGED lastRecorded

Conflict(c) ==
    /\ ~halted /\ Known(c) /\ ~Recorded(c)
    /\ halted' = TRUE
    /\ state' = [state EXCEPT !.mode = "Halted"]
    /\ outcome' = "IdempotencyConflict"
    /\ UNCHANGED <<processed, lastRecorded>>

Apply(c) ==
    \/ ApplyFresh(c) \/ IntegrityHalt(c) \/ Conflict(c)
    \/ (RepeatDecision(c) \/ AnswerHalted) /\ UNCHANGED state

(***************************************************************************)
(* The owner in durable.rs                                                 *)
(***************************************************************************)
Init == OwnerInit(Initial)
Journal(c) == JournalCommand(c, WellFormed(c), Accepts(c))
Install == InstallCommand(Apply(Last(log)))
Recovery == RecoverWith(Apply(log[cursor + 1]), Initial)
WriteCheckpoint == SaveCheckpoint

Next ==
    \/ \E c \in Commands : Journal(c)
    \/ Install \/ SyncFails \/ Crash \/ Recovery \/ WriteCheckpoint

-----------------------------------------------------------------------------
\* "CLOB status can never independently authorize spendable inventory", and no
\* posting may precede finality: every ledger posting in the last accepted frame
\* belongs to a trade that is confirmed, also after later intents and updates.
PostedWasConfirmed ==
    \A f \in state.lastFrame : \A i \in state.intents : Posted(i, f) => Status(i) = {"Confirmed"}

\* ready: nothing changed since a frame in which ledger and chain agreed, every
\* intended trade was final, and exactly the confirmed ones were posted.
ReadyMeansAgreement ==
    state.mode = "Reconciled" =>
        /\ ~halted
        /\ \E f \in state.lastFrame :
               /\ f.ledger.holdings = f.chain.holdings
               /\ \A i \in state.intents :
                      /\ Status(i) \in {{s} : s \in Terminal}
                      /\ Posted(i, f) <=> Status(i) = {"Confirmed"}

\* The two together: what the ledger holds was final, and readiness rests on it.
ReadinessIsAgreed == PostedWasConfirmed /\ ReadyMeansAgreement

Accepted(t) == {c.observation : c \in {d \in Decided("ObserveTrade", "Applied") : d.observation.trade = t}}

\* Over the whole history of a trade: it is confirmed with a transaction that was
\* mined, fails only after a retry, and once it is final nothing else is ever
\* accepted of it.
TradesAreFinalOnce ==
    \A t \in Trades : \A o \in Accepted(t) :
        /\ o.status \in Terminal => state.trades[t] = {o}
        /\ o.status = "Confirmed" => \E m \in Accepted(t) : m.status = "Mined" /\ m.hash = o.hash
        /\ o.status = "Failed" => \E r \in Accepted(t) : r.status = "Retrying"

\* The test durable_integrity_halt_is_recoverable_and_rejects_later_events: after
\* an integrity halt the owner can be restarted, in its halted state.
IntegrityHaltIsRecoverable == phase # "unrecoverable" \/ ~halted
=============================================================================
