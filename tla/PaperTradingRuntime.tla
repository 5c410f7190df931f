------------------------- MODULE PaperTradingRuntime -------------------------
(***************************************************************************)
(* crates/paper-trading-runtime: the ledger, the reconciler, the risk      *)
(* authority, the policy and the paper execution under one writer, and the *)
(* boundaries between them.  Each of the five has a module of its own; of  *)
(* each of them only what the boundaries look at is kept here:             *)
(*   - the ledger: a version that stands for its views, the reservations   *)
(*     and the confirmed trades;                                           *)
(*   - the reconciler: the intents, the status of their trades, the gate;  *)
(*   - risk and policy: the last decision, the approvals, the order stages;*)
(*   - the execution: the orders with their fills.                         *)
(* The checks of a child that do not depend on another child are a flag of *)
(* the command (`granted').  Prices are 1: a fill consumes what it fills.  *)
(***************************************************************************)
EXTENDS EngineOwner, FiniteSets

CONSTANTS
    Commands,
    Quantities    \* the quantity of each order

\* The commands and what they carry, by the fields that the engine reads.
\* The commands of the components, by what the pipeline looks at: the order, whether the
\* component's own checks let the command through, and what is held against another part.
IsCommand(c) ==
    \/ Variant(c, {"Deposit", "Release", "ObserveMode", "AuthorizeCancel"}, {"order", "granted"})
    \/ Variant(c, {"Reserve"}, {"order", "granted", "amount"})
    \/ Variant(c, {"Confirm"}, {"order", "granted", "trade"})
    \/ Variant(c, {"ObserveTrade"}, {"order", "granted", "trade", "status"})
    \/ Variant(c, {"Reconcile"}, {"order", "granted", "version", "intents"})
    \/ Variant(c, {"Risk"}, {"order", "granted", "version", "gate"})
    \/ Variant(c, {"Authorize"}, {"order", "granted", "approval"})
    \/ Variant(c, {"Submit", "RequestCancel"}, {"order", "granted", "permit"})
    \/ Variant(c, {"Observe", "Mark"}, {"order", "granted", "event", "quantity", "until"})
    \/ Variant(c, {"RegisterHandoff"}, {"order", "granted", "index"})
    \/ Variant(c, {"InjectFault"}, {"order", "granted", "fault"})

Orders == DOMAIN Quantities
Nothing == [kind |-> "none", order |-> "none", granted |-> FALSE, at |-> 0]
Unplaced == [status |-> "None", active |-> "Submitted", release |-> 0, fills |-> <<>>]

Initial == [version |-> 0, reservations |-> [o \in Orders |-> [status |-> "None", left |-> 0]],
            posted |-> {}, intents |-> {}, trades |-> {}, gate |-> [ready |-> FALSE, version |-> 0, at |-> 0],
            risk |-> Nothing, approved |-> {}, policy |-> Nothing,
            stages |-> [o \in Orders |-> [stage |-> "None", release |-> 0, uncancellable |-> 0]],
            orders |-> [o \in Orders |-> Unplaced],
            reserved |-> {}, registered |-> {}, pending |-> {}, fault |-> "none"]

Finished == {"FullyMatched", "Canceled", "Rejected"}
Open(o) == state.orders[o].status \in {"Active", "CancelPending"}

\* A handoff is known by its order and its place among the order's fills.
Handoff(o, i) == [order |-> o, index |-> i, quantity |-> state.orders[o].fills[i]]
Handoffs(o) == {Handoff(o, i) : i \in DOMAIN state.orders[o].fills}

-----------------------------------------------------------------------------
(***************************************************************************)
(* Accounting: validate_accounting_boundary, the ledger, and then          *)
(* refresh_reservation_tracking and the pending handoff                    *)
(***************************************************************************)
CanReserve(c) ==
    /\ c.op = "Reserve" /\ c.order \in state.approved /\ c.amount = Quantities[c.order]
    /\ state.reservations[c.order].status = "None"

Reserve(c) ==
    /\ CanReserve(c)
    /\ state' = [state EXCEPT !.version = @ + 1, !.reserved = @ \cup {c.order},
                     !.reservations[c.order] = [status |-> "Active", left |-> c.amount]]
    /\ Decide(c, "Applied")

\* Wrong variant, for mutation only: the handoff need not have been registered.
CanConfirmUnannounced(c) ==
    /\ c.op = "Confirm"
    /\ LET r == state.reservations[c.trade.order]
       IN  r.status = "Active" /\ c.trade.quantity <= r.left

\* The ledger command must be the one the registered handoff announced.
CanConfirm(c) ==
    /\ c.op = "Confirm" /\ c.trade \in state.pending
    /\ LET r == state.reservations[c.trade.order]
       IN  r.status = "Active" /\ c.trade.quantity <= r.left

Confirm(c) ==
    /\ CanConfirm(c)
    /\ LET left == state.reservations[c.trade.order].left - c.trade.quantity
           consumed == left = 0
       IN  state' = [state EXCEPT !.version = @ + 1, !.posted = @ \cup {c.trade},
                         !.pending = @ \ {c.trade},
                         !.reserved = IF consumed THEN @ \ {c.trade.order} ELSE @,
                         !.reservations[c.trade.order] =
                             [status |-> IF consumed THEN "Consumed" ELSE "Active", left |-> left]]
    /\ Decide(c, "Applied")

\* Wrong variant, for mutation only: the state of the order is not asked for.
CanReleaseOpen(c) ==
    /\ c.op = "Release" /\ \A p \in state.pending : p.order # c.order
    /\ state.reservations[c.order].status = "Active"

CanRelease(c) ==
    /\ c.op = "Release" /\ \A p \in state.pending : p.order # c.order
    /\ state.orders[c.order].status \in {"None", "Canceled", "Rejected"}
    /\ state.reservations[c.order].status = "Active"

Release(c) ==
    /\ CanRelease(c)
    /\ state' = [state EXCEPT !.version = @ + 1, !.reserved = @ \ {c.order},
                     !.reservations[c.order] = [status |-> "Released", left |-> 0]]
    /\ Decide(c, "Applied")

\* Any other ledger command passes the boundary.
OtherAccounting(c) ==
    /\ c.op = "Deposit"
    /\ state' = [state EXCEPT !.version = @ + 1]
    /\ Decide(c, "Applied")

-----------------------------------------------------------------------------
(***************************************************************************)
(* Reconciliation: intents come only from handoffs, and a frame must be    *)
(* the one the runtime captures.                                           *)
(***************************************************************************)
Status(h) == {t.status : t \in {u \in state.trades : u.trade = h}}
Follows(s) == CASE s = "Matched" -> {"Mined", "Retrying"}
                [] s = "Mined" -> {"Confirmed", "Retrying"}
                [] s = "Retrying" -> {"Mined", "Failed"}
                [] OTHER -> {}

CanObserveTrade(c) ==
    /\ c.op = "ObserveTrade" /\ c.trade \in state.intents
    /\ IF Status(c.trade) = {} THEN c.status = "Matched"
       ELSE \A s \in Status(c.trade) : c.status \in Follows(s) \cup {s}

ObserveTrade(c) ==
    /\ CanObserveTrade(c)
    /\ state' = [state EXCEPT !.gate.ready = FALSE,
           !.trades = {t \in @ : t.trade # c.trade} \cup {[trade |-> c.trade, status |-> c.status]}]
    /\ Decide(c, "Applied")

CanReconcile(c) ==
    /\ c.op = "Reconcile" /\ c.version = state.version /\ c.intents = state.intents
    /\ c.granted
    /\ \A h \in state.intents \cap state.posted : Status(h) = {"Confirmed"}

Reconcile(c) ==
    /\ CanReconcile(c)
    /\ state' = [state EXCEPT !.gate =
           [ready |-> \A h \in state.intents : \/ Status(h) = {"Failed"}
                                               \/ Status(h) = {"Confirmed"} /\ h \in state.posted,
            version |-> state.version, at |-> c.at]]
    /\ Decide(c, "Applied")

-----------------------------------------------------------------------------
(***************************************************************************)
(* Risk, policy and execution: each takes the exact last decision of the   *)
(* one before it.                                                          *)
(***************************************************************************)
Tripped(point) == state.fault = point

\* consume_fault: the command is accepted and does nothing else.
TripFault(c, point) ==
    /\ Tripped(point)
    /\ state' = [state EXCEPT !.fault = "none"]
    /\ Decide(c, "FaultTriggered")

CanAssess(c) == c.op = "Risk" /\ c.gate = state.gate /\ c.version = state.version

\* The authority also says NoTrade on a gate that is not ready or of an older ledger.
Assess(c) ==
    /\ c.op = "Risk" /\ ~Tripped("BeforeRisk") /\ CanAssess(c)
    /\ LET approve == c.granted /\ c.gate.ready /\ c.gate.version = c.version
       IN  /\ state' = [state EXCEPT
                   !.risk = [kind |-> "risk", order |-> c.order, granted |-> approve, at |-> c.at],
                   !.approved = IF approve THEN @ \cup {c.order} ELSE @]
           /\ Decide(c, IF approve THEN "Approve" ELSE "NoTrade")

CanAuthorize(c) == c.op = "Authorize" /\ c.approval = state.risk /\ c.order \in state.reserved

Authorize(c) ==
    /\ CanAuthorize(c)
    /\ LET permit == /\ c.granted /\ c.approval.granted /\ c.approval.order = c.order
                     /\ state.stages[c.order].stage = "None"
       IN  /\ state' = [state EXCEPT
                   !.policy = [kind |-> "place", order |-> c.order, granted |-> permit, at |-> c.at],
                   !.stages[c.order].stage = IF permit THEN "Authorized" ELSE @]
           /\ Decide(c, IF permit THEN "Permit" ELSE "Deny")

AuthorizeCancel(c) ==
    /\ c.op = "AuthorizeCancel"
    /\ LET s == state.stages[c.order]
           permit == /\ c.granted /\ s.stage \in {"Authorized", "Delayed", "Live"}
                     /\ s.stage = "Delayed" => c.at >= s.uncancellable
       IN  /\ state' = [state EXCEPT
                   !.policy = [kind |-> "cancel", order |-> c.order, granted |-> permit, at |-> c.at],
                   !.stages[c.order].stage = IF permit THEN "CancelAuthorized" ELSE @]
           /\ Decide(c, IF permit THEN "Permit" ELSE "Deny")

ObserveMode(c) ==
    /\ c.op = "ObserveMode" /\ c.granted
    /\ state' = [state EXCEPT !.policy = [kind |-> "mode", order |-> "none", granted |-> TRUE, at |-> c.at]]
    /\ Decide(c, "Permit")

CanSubmit(c) == c.op = "Submit" /\ c.order \in state.reserved /\ c.permit = state.policy

Submit(c) ==
    /\ c.op = "Submit" /\ ~Tripped("BeforeExecution") /\ CanSubmit(c)
    /\ LET accept == c.permit.granted /\ c.permit.kind = "place" /\ c.permit.order = c.order
                     /\ state.orders[c.order].status = "None"
       IN  /\ state' = [state EXCEPT !.orders[c.order] =
                            IF accept THEN [@ EXCEPT !.status = "Active"] ELSE @]
           /\ Decide(c, IF accept THEN "Submitted" ELSE "Denied")

CanRequestCancel(c) == c.op = "RequestCancel" /\ c.permit = state.policy

RequestCancel(c) ==
    /\ c.op = "RequestCancel" /\ ~Tripped("BeforeExecution") /\ CanRequestCancel(c)
    /\ LET accept == c.permit.granted /\ c.permit.kind = "cancel" /\ c.permit.order = c.order
                     /\ state.orders[c.order].status = "Active"
       IN  /\ state' = [state EXCEPT !.orders[c.order].status = IF accept THEN "CancelPending" ELSE @]
           /\ Decide(c, IF accept THEN "CancelRequested" ELSE "Denied")

-----------------------------------------------------------------------------
(***************************************************************************)
(* Observe: the execution follows the exchange and synchronize_policy      *)
(* carries the news to the policy; a mark the policy finds impossible is   *)
(* an error of the whole.                                                  *)
(***************************************************************************)
Total(amounts) ==
    LET upTo[n \in 0..Len(amounts)] == IF n = 0 THEN 0 ELSE upTo[n - 1] + amounts[n]
    IN  upTo[Len(amounts)]

Filled(o) == Total(state.orders[o].fills)

CanFollow(c) ==
    LET o == state.orders[c.order]
    IN  /\ IF c.event \in {"CancelAccepted", "CancelRejected"} THEN o.status = "CancelPending"
           ELSE Open(c.order)
        /\ c.event = "Delayed" => o.active \in {"Submitted", "Unknown"}
        /\ c.event = "Acknowledged" => o.active \in {"Submitted", "Delayed", "Unknown"}
        /\ c.event = "Live" => o.active \in {"Submitted", "Delayed", "Acknowledged", "Unknown"}
        /\ c.event \in {"Live", "Match"} /\ o.active = "Delayed" => c.at >= o.release
        /\ c.event = "Match" => c.quantity > 0 /\ Filled(c.order) + c.quantity <= Quantities[c.order]

Ends(c) == \/ c.event \in {"CancelAccepted", "Rejected", "Terminal"}
           \/ c.event = "Match" /\ Filled(c.order) + c.quantity = Quantities[c.order]

After(c) ==
    LET o == state.orders[c.order]
    IN  CASE c.event = "Match" ->
                 [o EXCEPT !.fills = Append(@, c.quantity), !.active = "PartiallyMatched",
                           !.status = IF Ends(c) THEN "FullyMatched" ELSE @]
          [] c.event = "CancelAccepted" -> [o EXCEPT !.status = "Canceled"]
          [] c.event = "Rejected" -> [o EXCEPT !.status = "Rejected"]
          [] c.event = "CancelRejected" -> [o EXCEPT !.status = "Active"]
          [] OTHER -> [o EXCEPT !.active = c.event, !.release = IF c.event = "Delayed" THEN c.until ELSE @]

\* MarkDelayed, MarkLive and MarkTerminal of the policy.
CanMark(c) ==
    LET s == state.stages[c.order]
    IN  /\ c.event = "Delayed" => s.stage = "Authorized"
        /\ c.event = "Live" => s.stage = "Authorized" \/ (s.stage = "Delayed" /\ c.at >= s.release)
        /\ Ends(c) => s.stage \notin {"None", "Terminal"}

\* Wrong variant, for mutation only: only a canceled order is ended for the policy.
MarkedOnCancel(c) ==
    LET s == state.stages[c.order]
    IN  CASE c.event = "Delayed" -> [stage |-> "Delayed", release |-> c.until, uncancellable |-> c.until]
          [] c.event = "Live" -> [s EXCEPT !.stage = "Live"]
          [] c.event = "CancelAccepted" -> [s EXCEPT !.stage = "Terminal"]
          [] OTHER -> s

Marked(c) ==
    LET s == state.stages[c.order]
    IN  CASE c.event = "Delayed" -> [stage |-> "Delayed", release |-> c.until, uncancellable |-> c.until]
          [] c.event = "Live" -> [s EXCEPT !.stage = "Live"]
          [] Ends(c) -> [s EXCEPT !.stage = "Terminal"]
          [] OTHER -> s

\* A mark is a decision of the policy too, and takes the place of its last one.
LastPolicy(c) ==
    IF c.event \in {"Delayed", "Live"} \/ Ends(c)
    THEN [kind |-> "mark", order |-> c.order, granted |-> TRUE, at |-> c.at] ELSE state.policy

CanObserve(c) == c.op = "Observe" /\ CanFollow(c) /\ CanMark(c)

Observe(c) ==
    /\ c.op = "Observe" /\ ~Tripped("BeforeExecution") /\ CanObserve(c)
    /\ state' = [state EXCEPT !.orders[c.order] = After(c), !.stages[c.order] = Marked(c),
                              !.policy = LastPolicy(c)]
    /\ Decide(c, "Observed")

\* The marks are commands of the policy that a caller may send as well.
CanMarkDirectly(c) == c.op = "Mark" /\ CanMark(c)

MarkDirectly(c) ==
    /\ CanMarkDirectly(c)
    /\ state' = [state EXCEPT !.stages[c.order] = Marked(c), !.policy = LastPolicy(c)]
    /\ Decide(c, "Permit")

-----------------------------------------------------------------------------
(***************************************************************************)
(* RegisterHandoff and InjectFault                                         *)
(***************************************************************************)
CanRegister(c) ==
    /\ c.op = "RegisterHandoff" /\ c.index \in DOMAIN state.orders[c.order].fills
    /\ Handoff(c.order, c.index) \notin state.registered

RegisterHandoff(c) ==
    /\ c.op = "RegisterHandoff" /\ ~Tripped("BeforeHandoff") /\ CanRegister(c)
    /\ LET h == Handoff(c.order, c.index)
       IN  state' = [state EXCEPT !.registered = @ \cup {h}, !.intents = @ \cup {h},
                                  !.pending = @ \cup {h}, !.gate.ready = FALSE]
    /\ Decide(c, "HandoffRegistered")

InjectFault(c) ==
    /\ c.op = "InjectFault" /\ c.fault # "IntegrityHalt"
    /\ state' = [state EXCEPT !.fault = c.fault]
    /\ Decide(c, "FaultArmed")

-----------------------------------------------------------------------------
Point(c) == CASE c.op = "Risk" -> "BeforeRisk"
              [] c.op \in {"Submit", "RequestCancel", "Observe"} -> "BeforeExecution"
              [] c.op = "RegisterHandoff" -> "BeforeHandoff"
              [] OTHER -> "nowhere"

Possible(c) ==
    \/ Tripped(Point(c))
    \/ CanReserve(c) \/ CanConfirm(c) \/ CanRelease(c) \/ c.op = "Deposit"
    \/ CanObserveTrade(c) \/ CanReconcile(c)
    \/ CanAssess(c) \/ CanAuthorize(c) \/ c.op = "AuthorizeCancel"
    \/ (c.op = "ObserveMode" /\ c.granted) \/ CanMarkDirectly(c)
    \/ CanSubmit(c) \/ CanRequestCancel(c) \/ CanObserve(c)
    \/ CanRegister(c) \/ (c.op = "InjectFault" /\ c.fault # "IntegrityHalt")

Handler(c) ==
    \/ TripFault(c, Point(c))
    \/ Reserve(c) \/ Confirm(c) \/ Release(c) \/ OtherAccounting(c)
    \/ ObserveTrade(c) \/ Reconcile(c)
    \/ Assess(c) \/ Authorize(c) \/ AuthorizeCancel(c) \/ ObserveMode(c) \/ MarkDirectly(c)
    \/ Submit(c) \/ RequestCancel(c) \/ Observe(c)
    \/ RegisterHandoff(c) \/ InjectFault(c)

Apply(c) == ApplyIdFirst(c, Possible(c), Handler(c))

Init == OwnerInit(Initial)

Journal(c) == JournalCommand(c, c.at >= 0, Possible(c))
Install == InstallCommand(Apply(Last(log)))
Recovery == RecoverWith(Apply(log[cursor + 1]), Initial)
WriteCheckpoint == SaveCheckpoint

Next ==
    \/ \E c \in Commands : Journal(c)
    \/ Install \/ SyncFails \/ Crash \/ Recovery \/ WriteCheckpoint

-----------------------------------------------------------------------------
PostedFor(o) == {h \in state.posted : h.order = o}
Confirms(o) == {p \in processed : p.command.op = "Confirm" /\ p.command.trade.order = o}

\* What the ledger confirmed of an order, fill by fill.
Confirmed(o) ==
    LET fills == state.orders[o].fills
    IN  Total([i \in 1..Len(fills) |-> IF Handoff(o, i) \in state.posted THEN fills[i] ELSE 0])

\* specs/018 3-4: every order at the exchange is backed.  What it may still fill and
\* what it filled and the ledger has not yet confirmed are still reserved, whatever
\* was risked, canceled, lost or replayed meanwhile.
OpenOrdersAreBacked ==
    \A o \in Orders : Open(o) =>
        /\ state.reservations[o].status = "Active" /\ o \in state.reserved
        /\ state.reservations[o].left = Quantities[o] - Confirmed(o)

\* specs/018 6: the ledger confirms only fills the execution made, each of them once,
\* and in all no more than the order was approved and reserved for.
ConfirmationsAreFills ==
    /\ \A o \in Orders :
           /\ PostedFor(o) \subseteq Handoffs(o)
           /\ PostedFor(o) = {p.command.trade : p \in Confirms(o)}
           /\ Cardinality(PostedFor(o)) = Cardinality(Confirms(o))
           /\ Confirmed(o) <= Quantities[o]
    /\ state.pending \subseteq state.registered \ state.posted

\* specs/018 5: an order that ended at the exchange has ended for the policy, so that
\* no cancel is authorized for it, and one the policy holds for canceled is not live anew.
PolicyFollowsExecution ==
    \A o \in Orders :
        /\ state.orders[o].status \in Finished => state.stages[o].stage = "Terminal"
        /\ state.orders[o].status # "None" => state.stages[o].stage # "None"

\* README: "Active, unknown, matched, and unposted partial-fill reservations
\* unreleasable".  Not what the code does: a fill that was not registered yet does
\* not hold the release up.
UnpostedFillsStayReserved ==
    \A o \in Orders :
        state.reservations[o].status = "Released" => Handoffs(o) \subseteq state.posted
=============================================================================
