--------------------------- MODULE PaperExecution ---------------------------
(***************************************************************************)
(* The paper execution engine of crates/paper-execution: it submits an     *)
(* order for a placement permit, asks for its cancellation with a cancel   *)
(* permit, follows what the (simulated) exchange reports about it, and     *)
(* hands every fill to settlement.                                         *)
(*                                                                         *)
(* `state' is the struct PaperExecutionEngine.  A permit carries what      *)
(* its digest binds: the action, the order and the request.  The reason    *)
(* of an unknown, the class and code of a rejection and the wording of     *)
(* texts are left out; `named' says that the texts of a command are valid. *)
(* The fills of an order are kept once, as its handoffs.                   *)
(***************************************************************************)
EXTENDS EngineOwner

CONSTANTS
    Commands,   \* the commands the callers may submit
    OrderIds,
    Unit        \* MICROS_PER_UNIT

\* The commands and what they carry, by the fields that the engine reads.
\* With the totals the exchange claims for the order so far.
IsFill(v) ==
    DOMAIN v = {"id", "ledger", "quantity", "consideration", "fee", "totalQuantity",
                "totalConsideration", "totalFee"}

IsEvent(v) ==
    \/ DOMAIN v = {"kind"}
    \/ v.kind = "Delayed" /\ DOMAIN v = {"kind", "release", "uncancellableUntil"}
    \/ v.kind = "Match" /\ DOMAIN v = {"kind", "fully", "fill"} /\ IsFill(v.fill)

\* `named': the submission carries a local name, the observation an exchange order id.
IsCommand(c) ==
    \/ Variant(c, {"Submit"}, {"placement", "permit", "named"})
    \/ Variant(c, {"RequestCancel"}, {"request", "permit"})
    \/ /\ Variant(c, {"Observe"}, {"order", "event", "sequence", "exchange", "named",
                                   "eventTime", "receivedTime"})
       /\ IsEvent(c.event)

\* PaperOrder, with status "None" until it is submitted.  `active' is one of Submitted,
\* Delayed, Acknowledged, Live, PartiallyMatched and Unknown, `release' that of Delayed;
\* CancelPending keeps the state to resume.  `exchange' has the exchange's id for the
\* order once it is known; a handoff is the trade intent of one fill.
Unsubmitted ==
    [placements |-> {}, exchange |-> {}, status |-> "None", active |-> "Submitted",
     release |-> 0, sequence |-> -1, eventTime |-> -1, receivedTime |-> -1, quantity |-> 0,
     consideration |-> 0, fee |-> 0, handoffs |-> <<>>]

Initial == [orders |-> [o \in OrderIds |-> Unsubmitted], usedPlacements |-> {}, usedCancels |-> {}]

-----------------------------------------------------------------------------
(***************************************************************************)
(* Submit and RequestCancel: one use of a permit.                          *)
(***************************************************************************)
PermitFor(permit, action, order, subject) ==
    /\ permit.authentic /\ permit.grants = action
    /\ permit.subject = subject
    /\ permit.order = order

SubmitGranted(c) ==
    /\ PermitFor(c.permit, "Place", c.placement.order, c.placement)
    /\ c.placement.evaluated <= c.at /\ c.at < c.placement.expires
    /\ c.permit.digest \notin state.usedPlacements
    /\ state.orders[c.placement.order].status = "None"

Submit(c) ==
    state' = [state EXCEPT
        !.usedPlacements = @ \cup {c.permit.digest},
        !.orders[c.placement.order] =
            [Unsubmitted EXCEPT !.placements = {c.placement}, !.status = "Active"]]

CancelGranted(c) ==
    /\ PermitFor(c.permit, "Cancel", c.request.order, c.request)
    /\ c.permit.digest \notin state.usedCancels
    /\ state.orders[c.request.order].status = "Active"

RequestCancel(c) ==
    state' = [state EXCEPT !.usedCancels = @ \cup {c.permit.digest},
                           !.orders[c.request.order].status = "CancelPending"]

-----------------------------------------------------------------------------
(***************************************************************************)
(* Observe: what is checked before the event is looked at.                 *)
(***************************************************************************)
\* validate_observation
ValidObservation(c) ==
    0 <= c.eventTime /\ c.eventTime <= c.receivedTime /\ c.named

\* validate_source_history
FollowsHistory(c) ==
    LET o == state.orders[c.order]
    IN  /\ c.sequence > o.sequence
        /\ c.eventTime >= o.eventTime /\ c.receivedTime >= o.receivedTime

\* bind_exchange_order_id
Bound(c) == state.orders[c.order].exchange \cup c.exchange
SameIdentity(c) == \A x, y \in Bound(c) : x = y

(***************************************************************************)
(* apply_observation: which events can be, and the order after them.       *)
(***************************************************************************)
Open(o) == o.status \in {"Active", "CancelPending"}
Released(o, c) == o.active = "Delayed" => c.eventTime >= o.release

DivCeil(a, b) == (a + b - 1) \div b

\* Wrong variant, for mutation only: the totals the exchange claims are trusted.
TotalsAgreeBounded(o, p, f) ==
    f.totalQuantity <= p.quantity /\ f.totalFee <= p.maxFee
TotalsAgree(o, p, f) ==
    /\ f.totalQuantity = o.quantity + f.quantity
    /\ f.totalConsideration = o.consideration + f.consideration
    /\ f.totalFee = o.fee + f.fee
    /\ f.totalQuantity <= p.quantity /\ f.totalFee <= p.maxFee

\* validate_fill
ValidFill(o, p, f, fully) ==
    /\ f.quantity > 0 /\ f.consideration > 0
    /\ f.fee >= 0 /\ f.fee <= f.consideration
    /\ TotalsAgree(o, p, f)
    /\ fully <=> f.totalQuantity = p.quantity
    /\ IF p.side = "Buy"
       THEN f.consideration <= DivCeil(p.price * f.quantity, Unit)
       ELSE f.consideration >= (p.price * f.quantity) \div Unit

\* Wrong variant, for mutation only: a ledger command may stand for two fills.
NewFillByTrade(o, f) == \A h \in ToSet(o.handoffs) : h.trade # f.id
NewFill(o, f) == \A h \in ToSet(o.handoffs) : h.trade # f.id /\ h.ledger # f.ledger

CanMatch(o, c) ==
    /\ Bound(c) # {} /\ Open(o)
    /\ NewFill(o, c.event.fill)
    /\ Released(o, c)
    /\ \A p \in o.placements : ValidFill(o, p, c.event.fill, c.event.fully)

CanApplyEvent(o, c) ==
    CASE c.event.kind = "Delayed" ->
             /\ Open(o) /\ o.active \in {"Submitted", "Unknown"}
             /\ c.event.release > c.eventTime
             /\ c.event.uncancellableUntil >= c.event.release
      [] c.event.kind = "Acknowledged" ->
             Bound(c) # {} /\ Open(o) /\ o.active \in {"Submitted", "Delayed", "Unknown"}
      [] c.event.kind = "Live" ->
             /\ Bound(c) # {} /\ Open(o)
             /\ o.active \in {"Submitted", "Delayed", "Acknowledged", "Unknown"}
             /\ Released(o, c)
      [] c.event.kind = "Match" -> CanMatch(o, c)
      [] c.event.kind \in {"CancelAccepted", "CancelRejected"} -> o.status = "CancelPending"
      [] OTHER -> Open(o)

\* apply_match: the fill and its handoff are one step.
Matched(o, c) ==
    LET f == c.event.fill
        x == CHOOSE x \in Bound(c) : TRUE
        p == CHOOSE p \in o.placements : TRUE
    IN  [o EXCEPT !.quantity = f.totalQuantity, !.consideration = f.totalConsideration,
                  !.fee = f.totalFee,
                  !.handoffs = Append(@, [trade |-> f.id, order |-> x, side |-> p.side,
                      quantity |-> f.quantity, consideration |-> f.consideration,
                      fee |-> f.fee, ledger |-> f.ledger, sequence |-> c.sequence]),
                  !.status = IF c.event.fully THEN "FullyMatched" ELSE @,
                  !.active = IF c.event.fully THEN @ ELSE "PartiallyMatched"]

\* Wrong variant, for mutation only: a lost order is taken for one that was rejected.
AfterEventUnknownRejected(o, c) ==
    CASE c.event.kind = "Delayed" -> [o EXCEPT !.active = "Delayed", !.release = c.event.release]
      [] c.event.kind \in {"Acknowledged", "Live"} -> [o EXCEPT !.active = c.event.kind]
      [] c.event.kind = "Match" -> Matched(o, c)
      [] c.event.kind = "CancelAccepted" -> [o EXCEPT !.status = "Canceled"]
      [] c.event.kind = "CancelRejected" -> [o EXCEPT !.status = "Active"]
      [] OTHER -> [o EXCEPT !.status = "Rejected"]
AfterEvent(o, c) ==
    CASE c.event.kind = "Delayed" -> [o EXCEPT !.active = "Delayed", !.release = c.event.release]
      [] c.event.kind \in {"Acknowledged", "Live", "Unknown"} -> [o EXCEPT !.active = c.event.kind]
      [] c.event.kind = "Match" -> Matched(o, c)
      [] c.event.kind = "CancelAccepted" -> [o EXCEPT !.status = "Canceled"]
      [] c.event.kind = "CancelRejected" -> [o EXCEPT !.status = "Active"]
      [] c.event.kind = "Rejected" -> [o EXCEPT !.status = "Rejected"]

CanObserve(c) ==
    /\ ValidObservation(c)
    /\ state.orders[c.order].status # "None"
    /\ FollowsHistory(c) /\ SameIdentity(c)
    /\ CanApplyEvent(state.orders[c.order], c)

Observe(c) ==
    state' = [state EXCEPT !.orders[c.order] =
        [AfterEvent(@, c) EXCEPT !.exchange = Bound(c), !.sequence = c.sequence,
            !.eventTime = c.eventTime, !.receivedTime = c.receivedTime]]

-----------------------------------------------------------------------------
(***************************************************************************)
(* The engine and its owner in durable.rs                                  *)
(***************************************************************************)
\* validate_command
WellFormed(c) ==
    /\ c.op = "RequestCancel" => c.request.evaluated = c.at
    /\ c.op = "Observe" => c.receivedTime <= c.at

Granted(c) ==
    CASE c.op = "Submit" -> SubmitGranted(c)
      [] c.op = "RequestCancel" -> CancelGranted(c)
      [] OTHER -> TRUE

\* The commands an integrity check refuses; the name of a submission is looked at
\* after its permit.
Possible(c) ==
    /\ c.op = "Submit" /\ SubmitGranted(c) => c.named
    /\ c.op = "Observe" => CanObserve(c)

\* apply_fresh of a command that is granted.
Perform(c) ==
    \/ c.op = "Submit" /\ Submit(c)
    \/ c.op = "RequestCancel" /\ RequestCancel(c)
    \/ c.op = "Observe" /\ Observe(c)

Handler(c) ==
    /\ Possible(c)
    /\ \/ Granted(c) /\ Perform(c) /\ Decide(c, "Applied")
       \/ ~Granted(c) /\ UNCHANGED state /\ Decide(c, "Denied")

Apply(c) == ApplyIdFirst(c, Possible(c), Handler(c))

Init == OwnerInit(Initial)
Journal(c) == JournalCommand(c, WellFormed(c), Possible(c))
Install == InstallCommand(Apply(Last(log)))
Recovery == RecoverWith(Apply(log[cursor + 1]), Initial)
WriteCheckpoint == SaveCheckpoint

Next ==
    \/ \E c \in Commands : Journal(c)
    \/ Install \/ SyncFails \/ Crash \/ Recovery \/ WriteCheckpoint

-----------------------------------------------------------------------------
AppliedEvents(o, kind) ==
    {c \in Decided("Observe", "Applied") : c.order = o /\ c.event.kind = kind}
Total(amounts) ==
    LET upTo[n \in 0..Len(amounts)] == IF n = 0 THEN 0 ELSE upTo[n - 1] + amounts[n]
    IN  upTo[Len(amounts)]
SumOf(handoffs, field) == Total([n \in 1..Len(handoffs) |-> handoffs[n][field]])

\* specs/017: "cumulative fill quantity never exceeds the original order and every
\* handoff quantity sums exactly to accepted cumulative quantity", whatever reports
\* were lost before and whatever cancel was under way; the order is fully matched
\* exactly when nothing of it is left.  What a buy costs exceeds its limit by less than
\* one unit for every fill after the first: each fill is rounded up on its own.
FillsExact ==
    \A o \in OrderIds : \A p \in state.orders[o].placements :
        /\ state.orders[o].quantity = SumOf(state.orders[o].handoffs, "quantity")
        /\ state.orders[o].consideration = SumOf(state.orders[o].handoffs, "consideration")
        /\ state.orders[o].fee = SumOf(state.orders[o].handoffs, "fee")
        /\ state.orders[o].quantity <= p.quantity /\ state.orders[o].fee <= p.maxFee
        /\ state.orders[o].status = "FullyMatched" <=> state.orders[o].quantity = p.quantity
        /\ p.side = "Buy" /\ state.orders[o].handoffs # <<>> =>
               state.orders[o].consideration <= DivCeil(p.price * state.orders[o].quantity, Unit)
                                          + Len(state.orders[o].handoffs) - 1

\* "Each accepted fill emits exactly one immutable TradeIntent handoff": the handoffs
\* of an order are the fills ever accepted for it, in the order of the source, under
\* one exchange id, and no trade or ledger command stands for two of them.
FillsHandedOff ==
    \A o \in OrderIds :
        LET hs == state.orders[o].handoffs
        IN  /\ {h.sequence : h \in ToSet(hs)} = {c.sequence : c \in AppliedEvents(o, "Match")}
            /\ \A h \in ToSet(hs) : {h.order} = state.orders[o].exchange
            /\ \A i, j \in 1..Len(hs) : i < j =>
                   /\ hs[i].sequence < hs[j].sequence
                   /\ hs[i].trade # hs[j].trade /\ hs[i].ledger # hs[j].ledger

\* "Unknown never means rejected": an order ends only by a report of the exchange
\* that says so, and is canceled only if its cancel had been asked for.
EndsAreReported ==
    \A o \in OrderIds :
        /\ state.orders[o].status = "Rejected" => AppliedEvents(o, "Rejected") # {}
        /\ state.orders[o].status = "FullyMatched" => \E c \in AppliedEvents(o, "Match") : c.event.fully
        /\ state.orders[o].status = "Canceled" =>
               \E c \in AppliedEvents(o, "CancelAccepted"),
                  r \in Decided("RequestCancel", "Applied") :
                   r.request.order = o /\ r.at <= c.at
=============================================================================
