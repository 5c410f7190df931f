------------------------ MODULE PairedCapitalStaging ------------------------
(***************************************************************************)
(* crates/paired-capital-staging: capital for both legs of a pair is       *)
(* reserved in one step or not at all, and given back in one step.         *)
(*                                                                         *)
(* The owned PairedRuntime is the module PairedOpportunity; here a Stage   *)
(* command carries what it answers.  The owned ledger is the module        *)
(* AccountingLedger; here it has the free holdings, the reservations, the  *)
(* pair locks and a version that stands for its views.                     *)
(*                                                                         *)
(* An operation is a function of the state to the set of its outcomes,     *)
(* which is empty when the operation is an error.  The owners of this      *)
(* runtime are modules that call these functions on the state they own.    *)
(***************************************************************************)
EXTENDS EngineOwner, FiniteSets, FiniteSetsExt

CONSTANTS Commands, Unit

\* The commands and what they carry, by the fields that the engine reads.
\* The paired command of Stage is given by its decision: the answer and the two legs.
IsLeg(v) == DOMAIN v = {"id", "token", "side", "price", "quantity", "fee", "expires"}

IsCommand(c) ==
    \/ Variant(c, {"Fund"}, {"amount"})
    \/ /\ Variant(c, {"Stage"}, {"decision", "answer", "version", "legs"})
       /\ \A i \in DOMAIN c.legs : IsLeg(c.legs[i])
    \/ Variant(c, {"Abort"}, {"stage"})
    \/ Variant(c, {"InjectFault"}, {})

Cash == "cash"

Initial == [holdings |-> (Cash :> 0), version |-> 0, reservations |-> {}, locks |-> {},
            stages |-> {}, decisions |-> {}, fault |-> FALSE]

Outcome(next, status) == [next |-> next, status |-> status]
Provided(possible, value) == IF possible THEN {value} ELSE {}

-----------------------------------------------------------------------------
(***************************************************************************)
(* ledger_apply: the commands settlement_apply_batch lets through          *)
(***************************************************************************)
Held(s, a) == IF a \in DOMAIN s.holdings THEN s.holdings[a] ELSE 0
Gain(s, a, n) == [s EXCEPT !.holdings = (a :> Held(s, a) + n) @@ @, !.version = @ + 1]

ActiveReservations(s) == {r \in s.reservations : r.status = "Active"}
Spend(s, r, n) ==
    [s EXCEPT !.version = @ + 1,
              !.reservations = (@ \ {r}) \cup {[r EXCEPT !.left = @ - n,
                                                  !.status = IF r.left = n THEN "Consumed" ELSE @]}]

Reserve(s, k) ==
    Provided(/\ k.amount > 0 /\ Held(s, k.asset) >= k.amount
             /\ \A r \in s.reservations : r.id # k.r,
             [Gain(s, k.asset, -k.amount) EXCEPT !.reservations =
                 @ \cup {[id |-> k.r, asset |-> k.asset, left |-> k.amount, status |-> "Active"]}])

Release(s, k) ==
    {[Gain(s, r.asset, r.left) EXCEPT !.reservations =
          (@ \ {r}) \cup {[r EXCEPT !.left = 0, !.status = "Released"]}]
     : r \in {q \in ActiveReservations(s) : q.id = k.r}}

\* A confirmation spends what a reservation holds and brings in what it bought.
Confirm(s, k, asset, spent, gains) ==
    {[Spend(s, r, spent) EXCEPT !.holdings = [a \in DOMAIN gains |-> Held(s, a) + gains[a]] @@ @]
     : r \in {q \in ActiveReservations(s) : q.id = k.r /\ q.asset \in asset /\ q.left >= spent}}

Tokens(s) == DOMAIN s.holdings \ {Cash}

ConfirmBuy(s, k) == Confirm(s, k, {Cash}, k.consideration + k.fee, (k.token :> k.quantity))
ConfirmSell(s, k) == Confirm(s, k, Tokens(s), k.quantity, (Cash :> k.consideration - k.fee))
ConfirmSplit(s, k) ==
    Confirm(s, k, {Cash}, k.quantity, (k.up :> k.quantity) @@ (k.down :> k.quantity))
ConfirmRedemption(s, k) == Confirm(s, k, Tokens(s), k.quantity, (Cash :> k.payout))

LockPair(s, k) ==
    Provided(/\ Held(s, k.up) >= k.quantity /\ Held(s, k.down) >= k.quantity
             /\ \A l \in s.locks : l.id # k.l,
             [Gain(Gain(s, k.up, -k.quantity), k.down, -k.quantity) EXCEPT !.locks =
                 @ \cup {[id |-> k.l, up |-> k.up, down |-> k.down, quantity |-> k.quantity,
                          status |-> "Active"]}])

ConfirmMerge(s, k) ==
    {[Gain(s, Cash, l.quantity) EXCEPT !.locks = (@ \ {l}) \cup {[l EXCEPT !.status = "Merged"]}]
     : l \in {m \in s.locks : m.id = k.l /\ m.status = "Active"}}

LedgerStep(s, k) ==
    CASE k.do = "Reserve" -> Reserve(s, k)
      [] k.do = "Release" -> Release(s, k)
      [] k.do = "ConfirmBuy" -> ConfirmBuy(s, k)
      [] k.do = "ConfirmSell" -> ConfirmSell(s, k)
      [] k.do = "ConfirmSplit" -> ConfirmSplit(s, k)
      [] k.do = "ConfirmRedemption" -> ConfirmRedemption(s, k)
      [] k.do = "LockPair" -> LockPair(s, k)
      [] k.do = "ConfirmMerge" -> ConfirmMerge(s, k)

\* All commands of the batch in turn, or none.
ApplyBatch(s, batch) ==
    FoldLeft(LAMBDA states, k : UNION {LedgerStep(x, k) : x \in states}, {s}, batch)

-----------------------------------------------------------------------------
(***************************************************************************)
(* The commands                                                            *)
(***************************************************************************)
ActiveStages(s) == {g \in s.stages : g.status = "FullyReserved"}

Fund(s, c) ==
    Provided(c.amount > 0 /\ ActiveStages(s) = {}, Outcome(Gain(s, Cash, c.amount), "Funded"))

CeilDiv(a, b) == (a + b - 1) \div b
ReservationAmount(o) == IF o.side = "Buy" THEN CeilDiv(o.price * o.quantity, Unit) + o.fee ELSE o.quantity
ReservationAsset(o) == IF o.side = "Buy" THEN Cash ELSE o.token
ReserveLeg(o) == [do |-> "Reserve", r |-> o.id, asset |-> ReservationAsset(o), amount |-> ReservationAmount(o)]

\* The two legs in turn, on the copy that is installed at the end.
ReserveLegs(s, legs) == ApplyBatch(s, <<ReserveLeg(legs[1]), ReserveLeg(legs[2])>>)

\* PairStageRecord.
StageRecord(c) == [id |-> c.decision, legs |-> c.legs, status |-> "FullyReserved", staged |-> c.at]

\* The paired runtime evaluated this very ledger and its decision is new.
Evaluated(s, c) == c.version = s.version /\ c.answer # "Error" /\ c.decision \notin s.decisions

PairNoTrade(s, c) ==
    Provided(Evaluated(s, c) /\ c.answer = "NoTrade",
             Outcome([s EXCEPT !.decisions = @ \cup {c.decision}], "PairNoTrade"))

FullyReserve(s, c) ==
    IF Evaluated(s, c) /\ c.answer = "RiskEligible" /\ c.legs[1].id # c.legs[2].id /\ ~s.fault
    THEN {Outcome([x EXCEPT !.decisions = @ \cup {c.decision}, !.stages = @ \cup {StageRecord(c)}],
                  "FullyReserved") : x \in ReserveLegs(s, c.legs)}
    ELSE {}

Stage(s, c) == PairNoTrade(s, c) \cup FullyReserve(s, c)

\* abort: both reservations are released, or none.
Abort(s, c) ==
    UNION {{Outcome([x EXCEPT !.stages = (@ \ {g}) \cup {[g EXCEPT !.status = "Aborted"]}], "Aborted")
            : x \in ApplyBatch(s, [i \in {1, 2} |-> [do |-> "Release", r |-> g.legs[i].id]])}
           : g \in {h \in ActiveStages(s) : h.id = c.stage}}

InjectFault(s, c) == Provided(~s.fault, Outcome([s EXCEPT !.fault = TRUE], "FaultArmed"))

Answer(s, c) ==
    CASE c.op = "Fund" -> Fund(s, c)
      [] c.op = "Stage" -> Stage(s, c)
      [] c.op = "Abort" -> Abort(s, c)
      [] c.op = "InjectFault" -> InjectFault(s, c)

-----------------------------------------------------------------------------
(***************************************************************************)
(* The engine and its owner in durable.rs                                  *)
(***************************************************************************)
Possible(c) == Answer(state, c) # {}
Handler(c) == \E a \in Answer(state, c) : state' = a.next /\ Decide(c, a.status)
Apply(c) == ApplyIdFirst(c, Possible(c), Handler(c))

Init == OwnerInit(Initial)
Journal(c) == JournalCommand(c, c.at >= 0, Possible(c))
Install == InstallCommand(Apply(Last(log)))
Recovery == RecoverWith(Apply(log[cursor + 1]), Initial)
WriteCheckpoint == SaveCheckpoint

Next ==
    \/ \E c \in Commands : Journal(c)
    \/ Install \/ SyncFails \/ Crash \/ Recovery \/ WriteCheckpoint

-----------------------------------------------------------------------------
Funded == MapThenSumSet(LAMBDA p : p.command.amount, {p \in processed : p.status = "Funded"})
Reserved(s, a) == MapThenSumSet(LAMBDA r : r.left, {r \in ActiveReservations(s) : r.asset = a})

\* specs/022: no pair is ever half reserved.  A reserved pair has exactly its two
\* reservations for exactly its legs' cost, an aborted one has none, and all money
\* that was ever funded is free or reserved for a pair.
StagedPairsAreWhole ==
    /\ Held(state, Cash) + Reserved(state, Cash) = Funded /\ Held(state, Cash) >= 0
    /\ \A g \in state.stages : \A i \in {1, 2} :
           LET o == g.legs[i]
               mine == {<<r.asset, r.left>> : r \in {q \in ActiveReservations(state) : q.id = o.id}}
           IN  mine = IF g.status = "FullyReserved"
                      THEN {<<ReservationAsset(o), ReservationAmount(o)>>} ELSE {}
    /\ \A r \in state.reservations : \E g \in state.stages : r.id \in {g.legs[1].id, g.legs[2].id}
=============================================================================
