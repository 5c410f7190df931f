--------------------------- MODULE FleetGovernance ---------------------------
(***************************************************************************)
(* crates/fleet-rollout-governance: a manifest of regional canary reports  *)
(* under a change freeze is aggregated once; a dossier says whether the    *)
(* fleet is ready; a revocation of the release withdraws the dossier, and  *)
(* what is finalized after it is never ready.                              *)
(***************************************************************************)
EXTENDS EngineOwner, FiniteSets

CONSTANTS Commands, Policy

\* The policy, the commands and what they carry, by the fields that the engine reads.
IsPolicy ==
    DOMAIN Policy = {"evidence", "maxRegions", "minRegions", "abortDrills",
                     "rollbackDrills", "reportAge", "campaignAge"}

IsFreeze(v) == DOMAIN v = {"from", "to", "release", "strict"}

IsEvidence(v) == DOMAIN v = {"id", "report", "region"}

IsManifest(v) ==
    /\ DOMAIN v = {"expires", "created", "evidence", "regions", "release", "triggers",
                   "freeze"}
    /\ \A i \in DOMAIN v.evidence : IsEvidence(v.evidence[i])
    /\ IsFreeze(v.freeze)

IsCommand(c) ==
    \/ Variant(c, {"Register"}, {"manifest"}) /\ IsManifest(c.manifest)
    \/ Variant(c, {"Revoke"}, {"release", "effective"})
    \/ Variant(c, {"Finalize"}, {"when"})

ValidPolicy ==
    /\ \A f \in DOMAIN Policy : Policy[f] > 0
    /\ Policy.minRegions <= Policy.maxRegions

Initial == [manifest |-> {}, aggregate |-> {}, reasons |-> {}, revocation |-> {}, report |-> {}]

ValidFreeze(m) ==
    /\ m.freeze.release = m.release /\ m.freeze.strict
    /\ m.freeze.from <= m.created /\ m.freeze.to > m.created /\ m.expires <= m.freeze.to

\* A report of the canary of this very release, consistent in its ending.
ValidReport(r, m) ==
    /\ r.release = m.release /\ r.finalized >= 0 /\ r.finalized <= m.created /\ r.inert
    /\ CASE r.status = "SimulatedCompleted" -> r.stages > 0 /\ r.trigger = {} /\ r.aborter = {}
         [] r.status = "OperatorAborted" -> r.aborter # {} /\ r.trigger = {}
         [] r.status = "RollbackRequired" -> r.trigger # {} /\ r.aborter = {}

ValidManifest(m, at) ==
    /\ m.created = at /\ m.expires > at /\ m.expires - at <= Policy.campaignAge
    /\ Cardinality(m.regions) \in Policy.minRegions..Policy.maxRegions
    /\ m.triggers # {} /\ Len(m.evidence) \in 1..Policy.evidence
    /\ ValidFreeze(m)
    /\ \A k \in DOMAIN m.evidence : m.evidence[k].region \in m.regions /\ ValidReport(m.evidence[k].report, m)
    /\ Cardinality({m.evidence[k].id : k \in DOMAIN m.evidence}) = Len(m.evidence)

-----------------------------------------------------------------------------
(***************************************************************************)
(* aggregate: reports are taken in the order of the manifest; one whose    *)
(* report or plan came before it, or that is stale, counts for nothing and *)
(* is a reason of its own.                                                 *)
(***************************************************************************)
Duplicate(m, k) ==
    \E j \in 1..(k - 1) : \/ m.evidence[j].report = m.evidence[k].report
                          \/ m.evidence[j].report.plan = m.evidence[k].report.plan
Stale(m, k) == m.created - m.evidence[k].report.finalized > Policy.reportAge

Counted(m, status) ==
    {k \in DOMAIN m.evidence : /\ ~Duplicate(m, k) /\ ~Stale(m, k)
                               /\ m.evidence[k].report.status = status}

Aggregate(m) ==
    [regions |-> {m.evidence[k].region : k \in Counted(m, "SimulatedCompleted")},
     aborts |-> Cardinality(Counted(m, "OperatorAborted")),
     rollbacks |-> Cardinality(Counted(m, "RollbackRequired")),
     triggers |-> UNION {m.evidence[k].report.trigger : k \in Counted(m, "RollbackRequired")}]

Reasons(m) ==
    LET a == Aggregate(m)
    IN  (IF \E k \in DOMAIN m.evidence : Duplicate(m, k) THEN {<<"DuplicateEvidence">>} ELSE {})
        \cup {<<"StaleReport", k>> : k \in {j \in DOMAIN m.evidence : ~Duplicate(m, j) /\ Stale(m, j)}}
        \cup {<<"MissingRegionCompletion", r>> : r \in m.regions \ a.regions}
        \cup (IF a.aborts < Policy.abortDrills THEN {<<"InsufficientAbortDrills">>} ELSE {})
        \cup (IF a.rollbacks < Policy.rollbackDrills THEN {<<"InsufficientRollbackDrills">>} ELSE {})
        \cup {<<"MissingRollbackTrigger", t>> : t \in m.triggers \ a.triggers}

CanRegister(c) == c.op = "Register" /\ state.manifest = {} /\ ValidManifest(c.manifest, c.at)

Register(c) ==
    /\ CanRegister(c)
    /\ state' = [state EXCEPT !.manifest = {c.manifest}, !.aggregate = {Aggregate(c.manifest)},
                              !.reasons = Reasons(c.manifest)]
    /\ Decide(c, "Registered")

CanRevoke(c) ==
    /\ c.op = "Revoke" /\ state.revocation = {} /\ c.effective = c.at
    /\ \E m \in state.manifest : c.release = m.release

Revoke(c) ==
    /\ CanRevoke(c)
    /\ state' = [state EXCEPT !.revocation = {c.effective}, !.report = {}]
    /\ Decide(c, "Revoked")

CanFinalize(c) ==
    /\ c.op = "Finalize" /\ state.report = {} /\ c.when <= c.at
    /\ \E m \in state.manifest : c.when >= m.created

DossierReasons(m, at) ==
    state.reasons
        \cup (IF at \in m.freeze.from..(m.freeze.to - 1) THEN {} ELSE {<<"ChangeFreezeInactive">>})
        \cup (IF at > m.expires THEN {<<"CampaignExpired">>} ELSE {})
        \cup (IF state.revocation # {} THEN {<<"ReleaseRevoked">>} ELSE {})

Finalize(c) ==
    /\ CanFinalize(c)
    /\ \E m \in state.manifest :
           state' = [state EXCEPT !.report =
               {[evaluated |-> c.when, reasons |-> DossierReasons(m, c.when),
                 ready |-> DossierReasons(m, c.when) = {}, revocation |-> state.revocation]}]
    /\ Decide(c, "Finalized")

\* current_readiness, at any time from the last command on.  The expiry of the campaign
\* and the end of the freeze are not looked at again.
CurrentReadiness(at) ==
    {r \in state.report : ~halted /\ at >= lastRecorded /\ state.revocation = {} /\ r.ready}

Possible(c) == CanRegister(c) \/ CanRevoke(c) \/ CanFinalize(c)

Handler(c) == Register(c) \/ Revoke(c) \/ Finalize(c)

Apply(c) == ApplyClockFirst(c, Possible(c), Handler(c))

-----------------------------------------------------------------------------
(***************************************************************************)
(* durable.rs and dossier.rs                                               *)
(***************************************************************************)
Init == ValidPolicy /\ OwnerInit(Initial)

Journal(c) == JournalCommand(c, TRUE, Possible(c))
Install == InstallCommand(Apply(Last(log)))
Recovery == RecoverWith(Apply(log[cursor + 1]), Initial)
WriteCheckpoint == SaveCheckpoint
WriteReport == SaveReport(state.report)

Next ==
    \/ \E c \in Commands : Journal(c)
    \/ Install \/ SyncFails \/ Crash \/ Recovery \/ WriteCheckpoint \/ WriteReport

-----------------------------------------------------------------------------
\* Readiness is earned by evidence that is all different, covers every region and
\* trigger and was drilled often enough, and it never outlives a revocation: no
\* dossier that says ready is held, or finalized, once the release was revoked.
ReadinessIsEarned ==
    /\ \A r \in state.report, m \in state.manifest : r.ready =>
           LET good == {k \in DOMAIN m.evidence : m.created - m.evidence[k].report.finalized <= Policy.reportAge}
               plansOf(status) == {m.evidence[k].report.plan :
                                       k \in {j \in good : m.evidence[j].report.status = status}}
           IN  /\ good = DOMAIN m.evidence
               /\ Cardinality(plansOf("OperatorAborted")) >= Policy.abortDrills
               /\ Cardinality(plansOf("RollbackRequired")) >= Policy.rollbackDrills
               /\ r.evaluated <= m.expires
    /\ Decided("Revoke", "Revoked") # {} => \A r \in state.report : ~r.ready
    /\ CurrentReadiness(lastRecorded) # {} => Decided("Revoke", "Revoked") = {}
=============================================================================
