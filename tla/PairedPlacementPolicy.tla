----------------------- MODULE PairedPlacementPolicy -----------------------
(***************************************************************************)
(* crates/paired-placement-policy: permits for the two legs of a reserved  *)
(* pair.  One leg goes first; the other is permitted once the first is     *)
(* fully matched; the pair is aborted only when neither leg can have       *)
(* filled.  The policy owns the staging runtime.  The reasons of a denial  *)
(* are left out.                                                           *)
(***************************************************************************)
EXTENDS EngineOwner, FiniteSets

CONSTANTS Commands, Unit, PermissionLife    \* MAX_PERMISSION_NS

Staging == INSTANCE PairedCapitalStaging

\* The commands and what they carry, by the fields that the engine reads.
IsPermit(v) == DOMAIN v = {"stage", "leg", "role", "mode", "from", "until"}

IsCommand(c) ==
    \/ c.op \in {"Fund", "Stage"} /\ Staging!IsCommand(c)
    \/ /\ Variant(c, {"ObserveMode"}, {"mode"})
       /\ DOMAIN c.mode = {"normal", "sequence", "observed", "until"}
    \/ Variant(c, {"AuthorizeFirst"}, {"stage", "leg", "modeAge", "until"})
    \/ Variant(c, {"AuthorizeHedge"}, {"stage", "modeAge", "until"})
    \/ /\ Variant(c, {"ObserveLeg"}, {"stage", "leg", "permit", "state", "sequence", "observed"})
       /\ IsPermit(c.permit)
    \/ Variant(c, {"Expire", "AbortSafe"}, {"stage"})

Initial == [staging |-> Staging!Initial, mode |-> {}, records |-> {}]

Legs == {1, 2}
Outcome(p, status) == [next |-> p, status |-> status, permit |-> {}]
Denied(p) == Outcome(p, "Denied")
Provided(possible, value) == IF possible THEN {value} ELSE {}

SafeTerminal(leg) == leg \in {"NotAuthorized", "Expired", "NoFillTerminal"}

ValidTransition(current, next, everPartial) ==
    CASE current = "Authorized" -> next \in {"Submitted", "Unknown", "NoFillTerminal"}
      [] current = "Submitted" ->
             next \in {"Delayed", "Live", "PartiallyMatched", "Unknown", "FullyMatched", "NoFillTerminal"}
      [] current \in {"Delayed", "Live"} ->
             next \in {"Live", "PartiallyMatched", "Unknown", "FullyMatched", "NoFillTerminal"}
      [] current = "PartiallyMatched" ->
             next \in {"PartiallyMatched", "Unknown", "FullyMatched", "PartiallyMatchedTerminal"}
      [] current = "Unknown" ->
             /\ next \in {"Submitted", "Delayed", "Live", "PartiallyMatched", "Unknown", "FullyMatched",
                          "NoFillTerminal", "PartiallyMatchedTerminal"}
             /\ next = "NoFillTerminal" => ~everPartial
             /\ next = "PartiallyMatchedTerminal" => everPartial
      [] OTHER -> FALSE

\* new_policy_record.
NewRecord(stage) ==
    [stage |-> stage, first |-> {}, legs |-> <<"NotAuthorized", "NotAuthorized">>, permits |-> <<{}, {}>>,
     sequence |-> <<-1, -1>>, observed |-> <<-1, -1>>, everPartial |-> <<FALSE, FALSE>>, aborted |-> FALSE]

StageRecord(p, id) == {g \in p.staging.stages : g.id = id}
Record(p, id) == {r \in p.records : r.stage = id}
WithRecord(p, r) == [p EXCEPT !.records = {q \in @ : q.stage # r.stage} \cup {r}]

\* validate_stage: the reservations of a stage that calls itself reserved are active.
ValidStage(p, g) ==
    g.status = "FullyReserved" =>
        \A i \in Legs : \E r \in Staging!ActiveReservations(p.staging) : r.id = g.legs[i].id

-----------------------------------------------------------------------------
Fund(p, c) ==
    {Outcome([p EXCEPT !.staging = a.next], "Funded") : a \in Staging!Fund(p.staging, c)}

Stage(p, c) ==
    {IF a.status = "FullyReserved"
     THEN Outcome([p EXCEPT !.staging = a.next, !.records = @ \cup {NewRecord(c.decision)}], "Staged")
     ELSE Denied([p EXCEPT !.staging = a.next])
     : a \in Staging!Stage(p.staging, c)}

ObserveMode(p, c) ==
    Provided(/\ c.mode.observed \in 0..c.at /\ c.mode.until >= c.mode.observed
             /\ \A m \in p.mode : /\ c.mode.sequence >= m.sequence /\ c.mode.observed >= m.observed
                                  /\ c.mode.sequence = m.sequence => c.mode = m,
             Outcome([p EXCEPT !.mode = {c.mode}], "ModeAccepted"))

\* authorization_denial, without its error: the stage, its age, the mode and the legs.
MayAuthorize(p, c, leg, role) ==
    \E g \in StageRecord(p, c.stage), r \in Record(p, c.stage), m \in p.mode :
        /\ g.status = "FullyReserved" /\ ~r.aborted
        /\ c.at <= g.staged + PermissionLife /\ c.at < g.legs[leg].expires
        /\ c.until > c.at /\ c.until - c.at <= PermissionLife
        /\ c.until <= g.staged + PermissionLife /\ c.until <= g.legs[leg].expires
        /\ m.normal /\ c.at >= m.observed /\ c.at <= m.until /\ c.at - m.observed <= c.modeAge
        /\ r.legs[leg] = "NotAuthorized"
        /\ role = "First" => r.first = {}
        /\ role = "Hedge" => \E f \in r.first : f # leg /\ r.legs[f] = "FullyMatched"

Permit(p, c, leg, role) ==
    [stage |-> c.stage, leg |-> leg, role |-> role, from |-> c.at, until |-> c.until,
     mode |-> (CHOOSE m \in p.mode : TRUE).sequence]

Authorize(p, c, leg, role) ==
    IF leg \in Legs /\ \E g \in StageRecord(p, c.stage) : ~ValidStage(p, g) THEN {}
    ELSE IF leg \in Legs /\ MayAuthorize(p, c, leg, role)
    THEN {[Outcome(WithRecord(p, [r EXCEPT !.first = IF role = "First" THEN {leg} ELSE @,
                                           !.legs[leg] = "Authorized",
                                           !.permits[leg] = {Permit(p, c, leg, role)}]),
                   "PermissionIssued")
           EXCEPT !.permit = {Permit(p, c, leg, role)}] : r \in Record(p, c.stage)}
    ELSE {Denied(p)}

AuthorizeFirst(p, c) == Authorize(p, c, c.leg, "First")

\* Without a record or a first leg it is an error.
AuthorizeHedge(p, c) ==
    UNION {Authorize(p, c, 3 - f, "Hedge") : f \in UNION {r.first : r \in Record(p, c.stage)}}

\* observe_leg, of the permit that was issued.
ObserveLeg(p, c) ==
    {Outcome(WithRecord(p, [r EXCEPT !.legs[c.leg] = c.state, !.sequence[c.leg] = c.sequence,
                                     !.observed[c.leg] = c.observed,
                                     !.everPartial[c.leg] = @ \/ c.state = "PartiallyMatched"]),
             "LifecycleAccepted")
     : r \in {q \in Record(p, c.stage) :
                  /\ c.leg \in Legs /\ c.observed \in 0..c.at /\ q.permits[c.leg] = {c.permit}
                  /\ c.sequence > q.sequence[c.leg] /\ c.observed >= q.observed[c.leg]
                  /\ ValidTransition(q.legs[c.leg], c.state, q.everPartial[c.leg])}}

\* Expiry gives no capital back.
Expire(p, c) ==
    {Outcome(WithRecord(p, [r EXCEPT !.legs = [i \in Legs |->
         IF r.legs[i] = "Authorized" /\ \E t \in r.permits[i] : c.at >= t.until
         THEN "Expired" ELSE r.legs[i]]]), "Expired") : r \in Record(p, c.stage)}

AbortSafe(p, c) ==
    LET safe == {r \in Record(p, c.stage) : ~r.aborted /\ \A i \in Legs : SafeTerminal(r.legs[i])}
    IN  IF safe = {} THEN {Denied(p)}
        ELSE {Outcome(WithRecord([p EXCEPT !.staging = a.next],
                                 [(CHOOSE r \in safe : TRUE) EXCEPT !.aborted = TRUE]), "Aborted")
              : a \in Staging!Abort(p.staging, c)}

Answer(p, c) ==
    CASE c.op = "Fund" -> Fund(p, c)
      [] c.op = "Stage" -> Stage(p, c)
      [] c.op = "ObserveMode" -> ObserveMode(p, c)
      [] c.op = "AuthorizeFirst" -> AuthorizeFirst(p, c)
      [] c.op = "AuthorizeHedge" -> AuthorizeHedge(p, c)
      [] c.op = "ObserveLeg" -> ObserveLeg(p, c)
      [] c.op = "Expire" -> Expire(p, c)
      [] c.op = "AbortSafe" -> AbortSafe(p, c)

\* settlement_apply_batch of the owned staging runtime.
ApplyBatch(p, batch) ==
    {[p EXCEPT !.staging = s] : s \in Staging!ApplyBatch(p.staging, batch)}

-----------------------------------------------------------------------------
(***************************************************************************)
(* The engine and its owner in durable.rs                                  *)
(***************************************************************************)
Possible(c) == Answer(state, c) # {}
Handler(c) == \E a \in Answer(state, c) : state' = a.next /\ Decide(c, a.status)
Apply(c) == ApplyIdFirst(c, Possible(c), Handler(c))

Init == OwnerInit(Initial)
Journal(c) == JournalCommand(c, c.at >= 0, Possible(c))
Install == InstallCommand(Apply(Last(log)))
Recovery == RecoverWith(Apply(log[cursor + 1]), Initial)
WriteCheckpoint == SaveCheckpoint

Next ==
    \/ \E c \in Commands : Journal(c)
    \/ Install \/ SyncFails \/ Crash \/ Recovery \/ WriteCheckpoint

-----------------------------------------------------------------------------
\* The reports of one leg since its permit, from the accepted commands.
Reports(stage, leg) ==
    {c.state : c \in {d \in Decided("ObserveLeg", "LifecycleAccepted") : d.stage = stage /\ d.leg = leg}}

\* specs/023: the hedge is permitted only when the first leg is fully matched, both
\* reservations stay while a leg may fill, and an aborted pair has no leg that was
\* ever at the exchange without a report that it ended there without a fill.
PermittedPairsAreWhole ==
    \A r \in state.records :
        /\ \A i \in Legs : \A t \in r.permits[i] :
               t.role = "Hedge" => "FullyMatched" \in Reports(r.stage, 3 - i)
        /\ r.aborted => \A i \in Legs : \/ Reports(r.stage, i) = {} /\ r.legs[i] # "Authorized"
                                        \/ "NoFillTerminal" \in Reports(r.stage, i)
        /\ ~r.aborted => \A g \in StageRecord(state, r.stage) : ValidStage(state, g)
=============================================================================
