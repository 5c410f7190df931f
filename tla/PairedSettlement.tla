-------------------------- MODULE PairedSettlement --------------------------
(***************************************************************************)
(* crates/paired-settlement-runtime: the fills of a pair on their way to   *)
(* the ledger.  A fill is registered with the reconciler, its trade is     *)
(* watched until it is confirmed or failed, a confirmed one is posted, and *)
(* a stage whose every fill has settled is finalized.                      *)
(*                                                                         *)
(* The owned reconciler is the module SettlementReconciliation.  Here a    *)
(* registered fill has the status of its trade, reports of a trade carry   *)
(* its own facts, and a Reconcile command says whether the chain snapshot  *)
(* it brings is acceptable and has the holdings of the ledger.             *)
(***************************************************************************)
EXTENDS EngineOwner, FiniteSets, FiniteSetsExt

CONSTANTS Commands, Unit, PermissionLife, Grace    \* confirmation_grace_ns

Execution == INSTANCE PairedPaperExecution

\* The commands and what they carry, by the fields that the engine reads.
\* A trade is named by its fill; the chain of Reconcile by whether it agrees.
IsCommand(c) ==
    \/ Execution!IsCommand(c)
    \/ Variant(c, {"RegisterHandoff"}, {"stage", "leg", "fill"})
    \/ Variant(c, {"ObserveTrade"}, {"fill", "status", "updated"})
    \/ Variant(c, {"PostConfirmed"}, {"fill"})
    \/ Variant(c, {"Reconcile"}, {"evaluated", "agrees"})
    \/ Variant(c, {"LockCompletePair"}, {"stage", "lock", "quantity"})
    \/ Variant(c, {"FinalizeStage"}, {"stage"})

Initial == [execution |-> Execution!Initial, reconciled |-> {}, handoffs |-> {}, finalized |-> {}, locked |-> {}]

Outcome(y, status) == [next |-> y, status |-> status]
Provided(possible, value) == IF possible THEN {value} ELSE {}

Staging(y) == y.execution.policy.staging
StageOf(y, id) == {g \in Staging(y).stages : g.id = id}
Reservation(y, id) == {r \in Staging(y).reservations : r.id = id}

\* reconciliation_is_current: ready, and for the ledger as it is now.
Current(y) == y.reconciled = {Staging(y).version}

\* settlement_apply_batch and conversion_apply_batch.
ApplyBatch(y, batch) == {[y EXCEPT !.execution = x] : x \in Execution!ApplyBatch(y.execution, batch)}

-----------------------------------------------------------------------------
\* apply_execution: a stage is evaluated on the reconciled ledger.
ExecutionCommand(y, c) ==
    {Outcome([y EXCEPT !.execution = a.next], a.status)
     : a \in IF c.op = "Stage" /\ ~Current(y) THEN {} ELSE Execution!Answer(y.execution, c)}

\* RegisteredHandoff, with the trade the reconciler keeps for it.
Registered(o, f) ==
    [stage |-> o.permit.stage, leg |-> o.permit.leg, fill |-> f, posted |-> FALSE, trade |-> "None", updated |-> 0]

RegisterHandoff(y, c) ==
    UNION {{Outcome([y EXCEPT !.handoffs = @ \cup {Registered(o, f)}, !.reconciled = {}], "HandoffRegistered")
            : f \in {g \in o.fills : g.id = c.fill /\ \A h \in y.handoffs : h.fill.ledger # g.ledger}}
           : o \in Execution!Order(y.execution, c.stage, c.leg)}

NextStatuses(s) ==
    CASE s = "None" -> {"Matched"}
      [] s = "Matched" -> {"Matched", "Mined", "Retrying"}
      [] s = "Mined" -> {"Mined", "Confirmed", "Retrying"}
      [] s = "Retrying" -> {"Retrying", "Mined", "Failed"}
      [] OTHER -> {}

Terminal(s) == s \in {"Confirmed", "Failed"}
WithHandoff(y, old, new) == [y EXCEPT !.handoffs = (@ \ {old}) \cup {new}]

ObserveTrade(y, c) ==
    {Outcome([WithHandoff(y, h, [h EXCEPT !.trade = c.status, !.updated = c.updated]) EXCEPT !.reconciled = {}],
             "TradeObserved")
     : h \in {k \in y.handoffs : /\ k.fill.id = c.fill /\ c.updated \in k.updated..c.at
                                 /\ c.status \in NextStatuses(k.trade)}}

\* The ledger command of a confirmed fill, on the reservation of its order.
Posting(o, f) ==
    [do |-> IF o.leg.side = "Buy" THEN "ConfirmBuy" ELSE "ConfirmSell", r |-> o.leg.id, token |-> o.leg.token,
     quantity |-> f.quantity, consideration |-> f.consideration, fee |-> f.fee]

PostConfirmed(y, c) ==
    UNION {UNION {{Outcome(WithHandoff(z, h, [h EXCEPT !.posted = TRUE]), "ConfirmedFillPosted")
                   : z \in ApplyBatch(y, <<Posting(o, h.fill)>>)}
                  : o \in Execution!Order(y.execution, h.stage, h.leg)}
           : h \in {k \in y.handoffs : k.fill.ledger = c.fill /\ ~k.posted /\ k.trade = "Confirmed"}}

Settled(h) == h.trade = "Failed" \/ (h.trade = "Confirmed" /\ h.posted)
Overdue(h, c) == h.trade = "Confirmed" /\ ~h.posted /\ c.evaluated - h.updated > Grace

Reconcile(y, c) ==
    Provided(c.agrees /\ c.evaluated <= c.at /\ ~\E h \in y.handoffs : Overdue(h, c),
             IF \A h \in y.handoffs : Settled(h)
             THEN Outcome([y EXCEPT !.reconciled = {Staging(y).version}], "Reconciled")
             ELSE Outcome([y EXCEPT !.reconciled = {}], "ReconciliationPending"))

Posted(y, stage, leg) ==
    MapThenSumSet(LAMBDA h : h.fill.quantity, {h \in y.handoffs : h.stage = stage /\ h.leg = leg /\ h.posted})

\* lock_complete_pair: what both legs posted, of two bought tokens of one market.
MayLock(y, g, c) ==
    /\ c.quantity > 0 /\ Current(y) /\ g.id \notin {l.stage : l \in y.locked}
    /\ g.legs[1].side = "Buy" /\ g.legs[2].side = "Buy" /\ g.legs[1].token # g.legs[2].token
    /\ \A i \in {1, 2} : Posted(y, g.id, i) >= c.quantity

LockCompletePair(y, c) ==
    UNION {{Outcome([z EXCEPT !.locked = @ \cup {[stage |-> g.id, lock |-> c.lock]}], "CompletePairLocked")
            : z \in ApplyBatch(y, <<[do |-> "LockPair", l |-> c.lock, up |-> g.legs[1].token,
                                     down |-> g.legs[2].token, quantity |-> c.quantity]>>)}
           : g \in {k \in StageOf(y, c.stage) : MayLock(y, k, c)}}

\* A leg is settled when its order has ended and each of its fills is registered, and
\* posted just when its trade was confirmed.
LegSettled(y, stage, leg) ==
    \E o \in Execution!Order(y.execution, stage, leg) :
        /\ ~Execution!Open(o)
        /\ \A f \in o.fills : \E h \in y.handoffs : h.fill.ledger = f.ledger /\ Settled(h)

\* The reservations of a stage that are still active, as releases in order.
Releases(y, g) ==
    LET active == SelectSeq(<<1, 2>>, LAMBDA i : \E r \in Reservation(y, g.legs[i].id) : r.status = "Active")
    IN  [n \in DOMAIN active |-> [do |-> "Release", r |-> g.legs[active[n]].id]]

FinalizeStage(y, c) ==
    UNION {{Outcome([z EXCEPT !.finalized = @ \cup {g.id}], "StageFinalized") : z \in ApplyBatch(y, Releases(y, g))}
           : g \in {k \in StageOf(y, c.stage) : /\ k.id \notin y.finalized /\ Current(y)
                                                /\ LegSettled(y, k.id, 1) /\ LegSettled(y, k.id, 2)}}

Answer(y, c) ==
    CASE c.op = "RegisterHandoff" -> RegisterHandoff(y, c)
      [] c.op = "ObserveTrade" -> ObserveTrade(y, c)
      [] c.op = "PostConfirmed" -> PostConfirmed(y, c)
      [] c.op = "Reconcile" -> Reconcile(y, c)
      [] c.op = "LockCompletePair" -> LockCompletePair(y, c)
      [] c.op = "FinalizeStage" -> FinalizeStage(y, c)
      [] OTHER -> ExecutionCommand(y, c)

-----------------------------------------------------------------------------
(***************************************************************************)
(* The engine and its owner in durable.rs                                  *)
(***************************************************************************)
Possible(c) == Answer(state, c) # {}
Handler(c) == \E a \in Answer(state, c) : state' = a.next /\ Decide(c, a.status)
Apply(c) == ApplyClockFirst(c, Possible(c), Handler(c))

Init == OwnerInit(Initial)
Journal(c) == JournalCommand(c, c.at >= 0, Possible(c))
Install == InstallCommand(Apply(Last(log)))
Recovery == RecoverWith(Apply(log[cursor + 1]), Initial)
WriteCheckpoint == SaveCheckpoint

Next ==
    \/ \E c \in Commands : Journal(c)
    \/ Install \/ SyncFails \/ Crash \/ Recovery \/ WriteCheckpoint

-----------------------------------------------------------------------------
Free(y, a) == IF a \in DOMAIN Staging(y).holdings THEN Staging(y).holdings[a] ELSE 0
ReservedIn(y, a) ==
    MapThenSumSet(LAMBDA r : r.left, {r \in Staging(y).reservations : r.status = "Active" /\ r.asset = a})
LockedIn(y, a) ==
    MapThenSumSet(LAMBDA l : l.quantity, {l \in Staging(y).locks : l.status = "Active" /\ a \in {l.up, l.down}})
Spent(y) == MapThenSumSet(LAMBDA h : h.fill.consideration + h.fill.fee, {h \in y.handoffs : h.posted})
Funded == MapThenSumSet(LAMBDA p : p.command.amount, {p \in processed : p.status = "Funded"})

\* specs/025, for pairs that are bought: all the money there is was funded and not yet
\* spent on a posted fill, every token was bought by one, and a stage that is finalized
\* has neither a reservation nor a fill that might still settle.
SettledPairsAreWhole ==
    /\ Free(state, "cash") + ReservedIn(state, "cash") + Spent(state) = Funded
    /\ \A g \in Staging(state).stages : \A i \in {1, 2} :
           Free(state, g.legs[i].token) + LockedIn(state, g.legs[i].token) = Posted(state, g.id, i)
    /\ \A id \in state.finalized : \A g \in StageOf(state, id) : \A i \in {1, 2} :
           /\ \A r \in Reservation(state, g.legs[i].id) : r.status # "Active"
           /\ \A o \in Execution!Order(state.execution, id, i) :
                  \A f \in o.fills : \E h \in state.handoffs : h.fill = f /\ Settled(h)
=============================================================================
