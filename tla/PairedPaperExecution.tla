------------------------ MODULE PairedPaperExecution ------------------------
(***************************************************************************)
(* crates/paired-paper-execution: the paper orders of the two legs of a    *)
(* pair.  It owns the placement policy, which learns what happened to a    *)
(* leg only through the reports applied here; a report the policy refuses  *)
(* is an error of the execution.  used_permits, handoff_digests and        *)
(* ledger_command_ids are read off the orders, which are never removed.  A *)
(* command of the policy has the id of the command that carries it.        *)
(***************************************************************************)
EXTENDS EngineOwner, FiniteSets, FiniteSetsExt

CONSTANTS Commands, Unit, PermissionLife

Policy == INSTANCE PairedPlacementPolicy

\* The commands and what they carry, by the fields that the engine reads.
\* The observation of an order, its fields beside those of the command.
IsCommand(c) ==
    \/ Policy!IsCommand(c)
    \/ Variant(c, {"Submit"}, {"permit"}) /\ Policy!IsPermit(c.permit)
    \/ Variant(c, {"RequestCancel"}, {"stage", "leg"})
    \/ Variant(c, {"Observe"}, {"stage", "leg", "event", "sequence", "exchange", "time",
                                "received", "release", "hold", "fully", "fill"})

Initial == [policy |-> Policy!Initial, orders |-> {}]

Outcome(x, status) == [next |-> x, status |-> status]
Provided(possible, value) == IF possible THEN {value} ELSE {}

\* ActiveState.
Active(name) == [name |-> name, release |-> 0, hold |-> 0]

\* PairedPaperOrder.
NewOrder(c, leg) ==
    [permit |-> c.permit, leg |-> leg, exchange |-> {}, status |-> "Active", active |-> Active("Submitted"),
     sequence |-> 0, time |-> 0, received |-> 0, quantity |-> 0, consideration |-> 0, fee |-> 0, fills |-> {}]

Order(x, stage, leg) == {o \in x.orders : o.permit.stage = stage /\ o.permit.leg = leg}
WithOrder(x, old, new) == [x EXCEPT !.orders = (@ \ {old}) \cup {new}]
LedgerIds(x) == UNION {{f.ledger : f \in o.fills} : o \in x.orders}

-----------------------------------------------------------------------------
(***************************************************************************)
(* apply_observation: what a report makes of an order; no order is an      *)
(* error                                                                   *)
(***************************************************************************)
Open(o) == o.status \in {"Active", "CancelPending"}
InState(o, names) == Open(o) /\ o.active.name \in names
Released(o, c) == o.active.name = "Delayed" => c.time >= o.active.release

ObserveDelayed(o, c) ==
    Provided(InState(o, {"Submitted", "Unknown"}) /\ c.release > c.time /\ c.hold >= c.release,
             [o EXCEPT !.active = [name |-> "Delayed", release |-> c.release, hold |-> c.hold]])

ObserveAcknowledged(o) ==
    Provided(o.exchange # {} /\ InState(o, {"Submitted", "Delayed", "Unknown"}),
             [o EXCEPT !.active = Active("Acknowledged")])

ObserveLive(o, c) ==
    Provided(/\ o.exchange # {} /\ Released(o, c)
             /\ InState(o, {"Submitted", "Delayed", "Acknowledged", "Unknown"}),
             [o EXCEPT !.active = Active("Live")])

ObserveCancelAccepted(o) == Provided(o.status = "CancelPending", [o EXCEPT !.status = "Canceled"])
ObserveCancelRejected(o) == Provided(o.status = "CancelPending", [o EXCEPT !.status = "Active"])
ObserveRejected(o) == Provided(Open(o), [o EXCEPT !.status = "Rejected"])
ObserveUnknown(o) == Provided(Open(o), [o EXCEPT !.active = Active("Unknown")])

CeilDiv(a, b) == (a + b - 1) \div b

\* validate_fill.  The price limit holds for each fill alone, rounded for each fill.
ValidFill(o, f, fully) ==
    /\ f.quantity > 0 /\ f.consideration > 0 /\ f.fee \in 0..f.consideration
    /\ f.quantities = o.quantity + f.quantity /\ f.quantities <= o.leg.quantity
    /\ f.considerations = o.consideration + f.consideration
    /\ f.fees = o.fee + f.fee /\ f.fees <= o.leg.fee
    /\ fully <=> f.quantities = o.leg.quantity
    /\ IF o.leg.side = "Buy" THEN f.consideration <= CeilDiv(o.leg.price * f.quantity, Unit)
       ELSE f.consideration >= (o.leg.price * f.quantity) \div Unit

ApplyMatch(o, c) ==
    Provided(/\ o.exchange # {} /\ Open(o) /\ Released(o, c) /\ ValidFill(o, c.fill, c.fully)
             /\ \A f \in o.fills : f.id # c.fill.id /\ f.ledger # c.fill.ledger,
             [o EXCEPT !.quantity = c.fill.quantities, !.consideration = c.fill.considerations,
                       !.fee = c.fill.fees, !.fills = @ \cup {c.fill},
                       !.status = IF c.fully THEN "FullyMatched" ELSE @,
                       !.active = IF c.fully THEN @ ELSE Active("PartiallyMatched")])

ApplyObservation(o, c) ==
    CASE c.event = "Delayed" -> ObserveDelayed(o, c)
      [] c.event = "Acknowledged" -> ObserveAcknowledged(o)
      [] c.event = "Live" -> ObserveLive(o, c)
      [] c.event = "Match" -> ApplyMatch(o, c)
      [] c.event = "CancelAccepted" -> ObserveCancelAccepted(o)
      [] c.event = "CancelRejected" -> ObserveCancelRejected(o)
      [] c.event = "Rejected" -> ObserveRejected(o)
      [] c.event = "Unknown" -> ObserveUnknown(o)

\* policy_state_for: what the policy is told about the leg.
PolicyStateFor(o, c) ==
    CASE c.event \in {"Delayed", "Unknown"} -> c.event
      [] c.event \in {"Acknowledged", "Live"} -> "Live"
      [] c.event = "Match" -> IF c.fully THEN "FullyMatched" ELSE "PartiallyMatched"
      [] c.event \in {"CancelAccepted", "Rejected"} ->
             IF o.quantity = 0 THEN "NoFillTerminal" ELSE "PartiallyMatchedTerminal"
      [] OTHER -> IF o.active.name \in {"Delayed", "PartiallyMatched", "Unknown"} THEN o.active.name ELSE "Live"

\* sync_policy.
SyncPolicy(x, permit, legState, sequence, time, at) ==
    {[x EXCEPT !.policy = a.next]
     : a \in Policy!ObserveLeg(x.policy, [stage |-> permit.stage, leg |-> permit.leg, permit |-> permit,
                                          state |-> legState, sequence |-> sequence, observed |-> time,
                                          at |-> at])}

-----------------------------------------------------------------------------
(***************************************************************************)
(* The commands                                                            *)
(***************************************************************************)

\* apply_policy: the caller may not report on a leg itself.
PolicyCommand(x, c) ==
    {Outcome([x EXCEPT !.policy = a.next], a.status)
     : a \in IF c.op = "ObserveLeg" THEN {} ELSE Policy!Answer(x.policy, c)}

\* The permit is the leg's, unused and in force, and its capital is reserved.
MaySubmit(x, c) ==
    /\ c.permit \notin {o.permit : o \in x.orders}
    /\ Order(x, c.permit.stage, c.permit.leg) = {}
    /\ c.at >= c.permit.from /\ c.at < c.permit.until
    /\ \E r \in Policy!Record(x.policy, c.permit.stage) :
           r.permits[c.permit.leg] = {c.permit} /\ r.legs[c.permit.leg] = "Authorized"
    /\ \E g \in Policy!StageRecord(x.policy, c.permit.stage) :
           \E r \in Policy!Staging!ActiveReservations(x.policy.staging) : r.id = g.legs[c.permit.leg].id

Submit(x, c) ==
    IF MaySubmit(x, c)
    THEN {Outcome(y, "Submitted")
          : y \in UNION {SyncPolicy([x EXCEPT !.orders = @ \cup {NewOrder(c, g.legs[c.permit.leg])}],
                                    c.permit, "Submitted", 0, c.at, c.at)
                         : g \in Policy!StageRecord(x.policy, c.permit.stage)}}
    ELSE {Outcome(x, "Denied")}

RequestCancel(x, c) ==
    LET cancellable == {o \in Order(x, c.stage, c.leg) :
                            o.status = "Active" /\ (o.active.name = "Delayed" => c.at >= o.active.hold)}
    IN  IF cancellable = {} THEN {Outcome(x, "Denied")}
        ELSE {Outcome(WithOrder(x, o, [o EXCEPT !.status = "CancelPending"]), "CancelRequested") : o \in cancellable}

\* validate_observation and bind_exchange_order_id.
ValidObservation(o, c) ==
    /\ c.sequence > o.sequence /\ c.time >= o.time /\ c.received >= o.received
    /\ c.time >= 0 /\ c.received \in c.time..c.at
    /\ c.exchange = {} \/ o.exchange = {} \/ c.exchange = o.exchange

Observe(x, c) ==
    UNION {UNION {{Outcome(y, "Observed")
                   : y \in SyncPolicy(WithOrder(x, o, [q EXCEPT !.sequence = c.sequence, !.time = c.time,
                                                                 !.received = c.received]),
                                      o.permit, PolicyStateFor(q, c), c.sequence, c.time, c.at)}
                  : q \in ApplyObservation([o EXCEPT !.exchange = @ \cup c.exchange], c)}
           : o \in {p \in Order(x, c.stage, c.leg) :
                        ValidObservation(p, c) /\ (c.event = "Match" => c.fill.ledger \notin LedgerIds(x))}}

Answer(x, c) ==
    CASE c.op = "Submit" -> Submit(x, c)
      [] c.op = "RequestCancel" -> RequestCancel(x, c)
      [] c.op = "Observe" -> Observe(x, c)
      [] OTHER -> PolicyCommand(x, c)

\* settlement_apply_batch of the owned policy.
ApplyBatch(x, batch) == {[x EXCEPT !.policy = p] : p \in Policy!ApplyBatch(x.policy, batch)}

-----------------------------------------------------------------------------
(***************************************************************************)
(* The engine and its owner in durable.rs                                  *)
(***************************************************************************)
Possible(c) == Answer(state, c) # {}
Handler(c) == \E a \in Answer(state, c) : state' = a.next /\ Decide(c, a.status)
Apply(c) == ApplyIdFirst(c, Possible(c), Handler(c))

Init == OwnerInit(Initial)
Journal(c) == JournalCommand(c, c.at >= 0, Possible(c))
Install == InstallCommand(Apply(Last(log)))
Recovery == RecoverWith(Apply(log[cursor + 1]), Initial)
WriteCheckpoint == SaveCheckpoint

Next ==
    \/ \E c \in Commands : Journal(c)
    \/ Install \/ SyncFails \/ Crash \/ Recovery \/ WriteCheckpoint

-----------------------------------------------------------------------------
Filled(x, stage, leg) ==
    MapThenSumSet(LAMBDA f : f.quantity, UNION {o.fills : o \in Order(x, stage, leg)})

\* specs/024: what the policy believes about a leg is what happened to its order.  A
\* leg it takes for unfilled has no fill, so no aborted pair holds one; the order of a
\* hedge stands on a first leg whose fills add up to the whole; and both legs stay
\* reserved as long as either may fill.
ExecutedPairsAreWhole ==
    \A r \in state.policy.records :
        /\ \A i \in {1, 2} : Policy!SafeTerminal(r.legs[i]) => Filled(state, r.stage, i) = 0
        /\ r.aborted => \A i \in {1, 2} : \A o \in Order(state, r.stage, i) : ~Open(o) /\ o.fills = {}
        /\ \A i \in {1, 2} : \A o \in Order(state, r.stage, i) :
               o.permit.role = "Hedge" =>
                   \A p \in Order(state, r.stage, 3 - i) : Filled(state, r.stage, 3 - i) = p.leg.quantity
        /\ (\E i \in {1, 2} : \E o \in Order(state, r.stage, i) : Open(o)) =>
               \A g \in Policy!StageRecord(state.policy, r.stage) :
                   g.status = "FullyReserved" /\ Policy!ValidStage(state.policy, g)
=============================================================================
