--------------------------- MODULE CtfTransaction ---------------------------
(***************************************************************************)
(* crates/ctf-transaction-runtime: collateral split into the two tokens of *)
(* a market, pairs merged back and tokens redeemed.  What a conversion     *)
(* will consume is reserved or locked when it is requested, and consumed   *)
(* when the report of its transaction says confirmed.  The owned parent is *)
(* the settlement runtime.                                                 *)
(***************************************************************************)
EXTENDS EngineOwner, FiniteSets, FiniteSetsExt

CONSTANTS Commands, Unit, PermissionLife, Grace

Settlement == INSTANCE PairedSettlement

\* The commands and what they carry, by the fields that the engine reads.
IsConversion(v) ==
    \/ v.kind = "Split" /\ DOMAIN v = {"kind", "up", "down", "quantity"}
    \/ v.kind = "Merge" /\ DOMAIN v = {"kind", "up", "down", "quantity", "lock"}
    \/ v.kind = "Redemption" /\ DOMAIN v = {"kind", "token", "quantity", "payout"}

IsCommand(c) ==
    \/ Settlement!IsCommand(c)
    \/ Variant(c, {"RequestConversion"}, {"conversion", "request"}) /\ IsConversion(c.request)
    \/ Variant(c, {"ObserveConversion"}, {"conversion", "event", "sequence", "external", "time",
                                          "received", "note"})

Initial == [settlement |-> Settlement!Initial, records |-> {}]

Outcome(z, status) == [next |-> z, status |-> status]
Provided(possible, value) == IF possible THEN {value} ELSE {}

Staging(z) == Settlement!Staging(z.settlement)

\* conversion_apply_batch of the parent.
ApplyBatch(z, batch) == {[z EXCEPT !.settlement = y] : y \in Settlement!ApplyBatch(z.settlement, batch)}

\* apply_parent.
ParentCommand(z, c) ==
    {Outcome([z EXCEPT !.settlement = a.next], a.status) : a \in Settlement!Answer(z.settlement, c)}

-----------------------------------------------------------------------------
(***************************************************************************)
(* Request                                                                 *)
(***************************************************************************)

\* ConversionRecord.  A terminal state has the hash or the reason it was given.
NewRecord(c) ==
    [id |-> c.conversion, request |-> c.request, state |-> "Requested", note |-> "", external |-> {},
     sequence |-> 0, time |-> 0, received |-> 0]

Terminal(s) == s \in {"Confirmed", "Failed"}

ValidRequest(q) ==
    /\ q.quantity > 0
    /\ q.kind = "Redemption" => q.payout \in 0..q.quantity
    /\ q.kind # "Redemption" => q.up # q.down

\* derived_reservation_id.
ReservationOf(id) == <<"ctf", id>>

ReserveFor(z, c, asset) ==
    ApplyBatch(z, <<[do |-> "Reserve", r |-> ReservationOf(c.conversion), asset |-> asset,
                     amount |-> c.request.quantity]>>)

\* A merge locks its pair, or takes over the lock there is when no open merge has it.
LockFor(z, q) ==
    LET locks == {l \in Staging(z).locks : l.id = q.lock}
        taken == \E r \in z.records : r.request.kind = "Merge" /\ r.request.lock = q.lock /\ ~Terminal(r.state)
    IN  IF taken THEN {}
        ELSE IF locks = {} THEN ApplyBatch(z, <<[do |-> "LockPair", l |-> q.lock, up |-> q.up, down |-> q.down,
                                                quantity |-> q.quantity]>>)
        ELSE Provided(\A l \in locks : /\ l.status = "Active" /\ l.up = q.up /\ l.down = q.down
                                       /\ l.quantity = q.quantity, z)

Backed(z, c) ==
    CASE c.request.kind = "Split" -> ReserveFor(z, c, "cash")
      [] c.request.kind = "Redemption" -> ReserveFor(z, c, c.request.token)
      [] c.request.kind = "Merge" -> LockFor(z, c.request)

Request(z, c) ==
    IF /\ \A r \in z.records : r.id # c.conversion
       /\ Settlement!Current(z.settlement) /\ ValidRequest(c.request)
    THEN {Outcome([w EXCEPT !.records = @ \cup {NewRecord(c)}], "Requested") : w \in Backed(z, c)}
    ELSE {}

-----------------------------------------------------------------------------
(***************************************************************************)
(* Observe                                                                 *)
(***************************************************************************)

\* validate_observation and validate_source.
ValidSource(r, c) ==
    /\ c.sequence > r.sequence /\ c.time >= r.time /\ c.received >= r.received
    /\ c.time >= 0 /\ c.received \in c.time..c.at

\* confirmed_command.
ConfirmedCommand(r) ==
    CASE r.request.kind = "Split" ->
             [do |-> "ConfirmSplit", r |-> ReservationOf(r.id), up |-> r.request.up, down |-> r.request.down,
              quantity |-> r.request.quantity]
      [] r.request.kind = "Merge" -> [do |-> "ConfirmMerge", l |-> r.request.lock]
      [] r.request.kind = "Redemption" ->
             [do |-> "ConfirmRedemption", r |-> ReservationOf(r.id), quantity |-> r.request.quantity,
              payout |-> r.request.payout]

\* What a failed conversion gives back: a merge keeps its lock.
ReleaseBacking(z, r) ==
    IF r.request.kind = "Merge" THEN {z}
    ELSE ApplyBatch(z, <<[do |-> "Release", r |-> ReservationOf(r.id)]>>)

Result(z, r, s, status) == [next |-> z, record |-> [r EXCEPT !.state = s], status |-> status]

\* Pending: the first report names the transaction, a later one repeats it.
Submitted(z, r, c) ==
    IF r.external # {} THEN Provided(r.external = c.external, Result(z, r, r.state, "DuplicateSubmission"))
    ELSE Provided(\A q \in z.records : q.external \cap c.external = {},
                  [Result(z, r, "Pending", "Pending") EXCEPT !.record.external = c.external])

InFlight(r) == r.external # {} /\ r.state \in {"Pending", "Retrying"}

Transition(z, r, c) ==
    IF Terminal(r.state)
    THEN Provided(c.event = r.state /\ c.note = r.note, Result(z, r, r.state, "DuplicateTerminal"))
    ELSE CASE c.event = "Pending" -> Submitted(z, r, c)
           [] c.event = "Retrying" -> Provided(InFlight(r), Result(z, r, "Retrying", "Retrying"))
           [] c.event = "Confirmed" ->
                  IF InFlight(r) THEN {[Result(w, r, "Confirmed", "Confirmed") EXCEPT !.record.note = c.note]
                                       : w \in ApplyBatch(z, <<ConfirmedCommand(r)>>)}
                  ELSE {}
           [] c.event = "Failed" ->
                  {[Result(w, r, "Failed", "Failed") EXCEPT !.record.note = c.note] : w \in ReleaseBacking(z, r)}

Observe(z, c) ==
    UNION {{Outcome([t.next EXCEPT !.records =
                         (@ \ {r}) \cup {[t.record EXCEPT !.sequence = c.sequence, !.time = c.time,
                                                          !.received = c.received]}], t.status)
            : t \in Transition(z, r, c)}
           : r \in {q \in z.records : q.id = c.conversion /\ ValidSource(q, c)}}

Answer(z, c) ==
    CASE c.op = "RequestConversion" -> Request(z, c)
      [] c.op = "ObserveConversion" -> Observe(z, c)
      [] OTHER -> ParentCommand(z, c)

-----------------------------------------------------------------------------
(***************************************************************************)
(* The engine and its owner in durable.rs                                  *)
(***************************************************************************)
Possible(c) == Answer(state, c) # {}
Handler(c) == \E a \in Answer(state, c) : state' = a.next /\ Decide(c, a.status)
Apply(c) == ApplyClockFirst(c, Possible(c), Handler(c))

Init == OwnerInit(Initial)
Journal(c) == JournalCommand(c, c.at >= 0, Possible(c))
Install == InstallCommand(Apply(Last(log)))
Recovery == RecoverWith(Apply(log[cursor + 1]), Initial)
WriteCheckpoint == SaveCheckpoint

Next ==
    \/ \E c \in Commands : Journal(c)
    \/ Install \/ SyncFails \/ Crash \/ Recovery \/ WriteCheckpoint

-----------------------------------------------------------------------------
Confirmed(kind) == {r \in state.records : r.request.kind = kind /\ r.state = "Confirmed"}
Quantity(records) == MapThenSumSet(LAMBDA r : r.request.quantity, records)
Payout == MapThenSumSet(LAMBDA r : r.request.payout, Confirmed("Redemption"))
TotalIn(a) ==
    LET y == state.settlement
    IN  Settlement!Free(y, a) + Settlement!ReservedIn(y, a) + Settlement!LockedIn(y, a)

\* Everything in the ledger came in and went out with a confirmed conversion, exactly once.
ConversionsConserve ==
    /\ TotalIn("cash") = Settlement!Funded - Quantity(Confirmed("Split")) + Quantity(Confirmed("Merge")) + Payout
    /\ \A token \in {"up", "down"} :
           TotalIn(token) = Quantity(Confirmed("Split")) - Quantity(Confirmed("Merge"))
                            - Quantity({r \in Confirmed("Redemption") : r.request.token = token})

\* specs/026: an open conversion holds what it will consume, whole and for itself alone.
ConvertedPairsAreWhole ==
    /\ ConversionsConserve
    /\ \A r \in {q \in state.records : ~Terminal(q.state)} :
           IF r.request.kind = "Merge"
           THEN /\ \E l \in Staging(state).locks :
                       l.id = r.request.lock /\ l.status = "Active" /\ l.quantity = r.request.quantity
                /\ \A q \in state.records \ {r} :
                       q.request.kind = "Merge" /\ q.request.lock = r.request.lock => Terminal(q.state)
           ELSE \E v \in Staging(state).reservations :
                    v.id = ReservationOf(r.id) /\ v.status = "Active" /\ v.left = r.request.quantity
=============================================================================
