-------------------------- MODULE ControlledRelease --------------------------
(***************************************************************************)
(* crates/controlled-production-release: a staged release plan on top of   *)
(* an eligible canary report, its approval by three operators, the health  *)
(* of every required region, ten rehearsed scenarios, revocation and the   *)
(* report.  Digests are left out: a command here is one whose digests      *)
(* verify, and `inert' says that it claims no external effect and no       *)
(* authority.                                                              *)
(***************************************************************************)
EXTENDS EngineOwner, FiniteSets

CONSTANTS Commands, Policy

\* The policy, the commands and what they carry, by the fields that the engine reads.
IsPolicy == DOMAIN Policy = {"reportAge", "lifetime", "evidenceAge", "cases", "regions"}

IsStage(v) == DOMAIN v = {"loss", "index", "capital", "exposure"}

IsPlan(v) ==
    /\ DOMAIN v = {"expires", "created", "scenarios", "subjects", "regions", "stages",
                   "canary"}
    /\ \A i \in DOMAIN v.stages : IsStage(v.stages[i])

IsRegionHealth(v) ==
    DOMAIN v = {"inert", "observed", "sequence", "region", "sound"}

IsCase(v) ==
    DOMAIN v = {"id", "inert", "observed", "sequence", "disposition", "scenario", "stage",
                "proven", "noTrade"}

IsCommand(c) ==
    \/ Variant(c, {"Register"}, {"plan"}) /\ IsPlan(c.plan)
    \/ Variant(c, {"Approve"}, {"operations", "release", "risk"})
    \/ Variant(c, {"RecordRegion"}, {"evidence"}) /\ IsRegionHealth(c.evidence)
    \/ Variant(c, {"RecordCase"}, {"case"}) /\ IsCase(c.case)
    \/ Variant(c, {"Revoke"}, {"reason"})
    \/ Variant(c, {"Finalize"}, {"when"})

\* ReleaseScenario::ALL
Scenarios == {"NoTrade", "StagedCeilings", "MultiRegionHealth", "ContinuousReconciliation",
              "EvidenceExpiry", "IncidentResponse", "DisasterRecovery", "Rollback",
              "Revocation", "Governance"}

ValidPolicy ==
    /\ Policy.reportAge > 0 /\ Policy.lifetime > 0 /\ Policy.evidenceAge > 0
    /\ Policy.cases > 0 /\ Policy.regions >= 2

Initial == [plan |-> {}, approved |-> FALSE, revoked |-> FALSE, regions |-> <<>>,
            covered |-> {}, usedCases |-> {}, caseCount |-> 0, report |-> {}]

ValidUpstream(r, at) ==
    /\ r.eligible /\ r.complete /\ r.inert
    /\ r.finalized <= at /\ at - r.finalized <= Policy.reportAge

\* Only the capital ceiling has to grow from stage to stage.
ValidStages(stages) ==
    /\ stages # <<>>
    /\ \A i \in DOMAIN stages :
           /\ stages[i].index = i - 1
           /\ 0 < stages[i].loss /\ stages[i].loss <= stages[i].exposure
           /\ stages[i].exposure <= stages[i].capital
           /\ i > 1 => stages[i].capital > stages[i - 1].capital

\* `subjects' says that no subject digest is zero, the empty string is the zero
\* digest.
ValidPlan(plan, at) ==
    /\ plan.scenarios = Scenarios /\ plan.subjects
    /\ IsInjective(plan.regions) /\ Len(plan.regions) >= Policy.regions
    /\ "" \notin ToSet(plan.regions)
    /\ ValidStages(plan.stages)
    /\ plan.created <= at /\ at <= plan.expires
    /\ plan.expires - plan.created <= Policy.lifetime

CanRegister(c) ==
    /\ c.op = "Register" /\ state.plan = {}
    /\ ValidUpstream(c.plan.canary, c.at) /\ ValidPlan(c.plan, c.at)

Register(c) ==
    /\ CanRegister(c)
    /\ state' = [state EXCEPT !.plan = {c.plan}]
    /\ Decide(c, "Registered")

\* Also a revoked plan can be approved; nothing can be done with it.
CanApprove(c) ==
    /\ c.op = "Approve" /\ state.plan # {} /\ ~state.approved
    /\ "" \notin {c.release, c.risk, c.operations}
    /\ Cardinality({c.release, c.risk, c.operations}) = 3

Approve(c) ==
    /\ CanApprove(c)
    /\ state' = [state EXCEPT !.approved = TRUE]
    /\ Decide(c, "Approved")

InForce == state.approved /\ ~state.revoked

Recent(observed, at) == observed <= at /\ at - observed <= Policy.evidenceAge

\* `sound': healthy, reconciled, above the capital floor and with no unknown state.
CanRecordRegion(c) ==
    /\ c.op = "RecordRegion" /\ InForce
    /\ c.evidence.inert /\ c.evidence.sound
    /\ \E plan \in state.plan : c.evidence.region \in ToSet(plan.regions)
    /\ Recent(c.evidence.observed, c.at)
    /\ c.evidence.sequence = IF c.evidence.region \in DOMAIN state.regions
                             THEN state.regions[c.evidence.region].sequence + 1 ELSE 1

RecordRegion(c) ==
    /\ CanRecordRegion(c)
    /\ state' = [state EXCEPT !.regions = (c.evidence.region :> c.evidence) @@ @]
    /\ Decide(c, "RegionAccepted")

\* valid_case: the disposition and the proof each scenario asks for, `proven' being the
\* flag of the scenario.  The observation of the expiry has to be stale; the drills may be
\* of any age.
ValidCase(case, plan, at) ==
    LET fresh == Recent(case.observed, at)
    IN  /\ case.stage < Len(plan.stages) /\ case.observed <= at /\ case.noTrade
        /\ CASE case.scenario = "NoTrade" -> case.disposition = "NoTrade"
             [] case.scenario \in {"StagedCeilings", "MultiRegionHealth", "Governance"} ->
                    fresh /\ case.disposition = "CodeEligible"
             [] case.scenario = "ContinuousReconciliation" ->
                    fresh /\ case.proven /\ case.disposition = "CodeEligible"
             [] case.scenario = "EvidenceExpiry" -> ~fresh /\ case.disposition = "NoTrade"
             [] case.scenario \in {"IncidentResponse", "DisasterRecovery", "Rollback"} ->
                    case.proven /\ case.disposition = "RollbackRequired"
             [] case.scenario = "Revocation" -> case.proven /\ case.disposition = "NoTrade"

CanRecordCase(c) ==
    /\ c.op = "RecordCase" /\ InForce
    /\ c.case.id \notin state.usedCases
    /\ state.caseCount < Policy.cases /\ c.case.sequence = state.caseCount + 1
    /\ c.case.inert
    /\ \E plan \in state.plan : ValidCase(c.case, plan, c.at)

RecordCase(c) ==
    /\ CanRecordCase(c)
    /\ state' = [state EXCEPT !.caseCount = @ + 1, !.usedCases = @ \cup {c.case.id},
                              !.covered = @ \cup {c.case.scenario}]
    /\ Decide(c, "CaseAccepted")

CanRevoke(c) == c.op = "Revoke" /\ state.plan # {} /\ ~state.revoked /\ c.reason # ""

Revoke(c) ==
    /\ CanRevoke(c)
    /\ state' = [state EXCEPT !.revoked = TRUE]
    /\ Decide(c, "Revoked")

\* regions_current, by the date the caller gives the report: it is not compared with the
\* time of record.
RegionsCurrent(plan, when) ==
    \A r \in ToSet(plan.regions) :
        r \in DOMAIN state.regions /\ Recent(state.regions[r].observed, when)

CanFinalize(c) ==
    /\ c.op = "Finalize" /\ InForce
    /\ \E plan \in state.plan : /\ RegionsCurrent(plan, c.when)
                                /\ c.when <= plan.expires
                                /\ plan.scenarios \subseteq state.covered

Finalize(c) ==
    /\ CanFinalize(c)
    /\ state' = [state EXCEPT !.report = {[regions |-> DOMAIN state.regions,
                                           scenarios |-> state.covered,
                                           finalized |-> c.when]}]
    /\ Decide(c, "Finalized")

Possible(c) ==
    /\ state.report = {}
    /\ \/ CanRegister(c) \/ CanApprove(c) \/ CanRecordRegion(c) \/ CanRecordCase(c)
       \/ CanRevoke(c) \/ CanFinalize(c)

Handler(c) ==
    /\ state.report = {}
    /\ \/ Register(c) \/ Approve(c) \/ RecordRegion(c) \/ RecordCase(c)
       \/ Revoke(c) \/ Finalize(c)

Apply(c) == ApplyClockFirst(c, Possible(c), Handler(c))

-----------------------------------------------------------------------------
(***************************************************************************)
(* durable.rs and report.rs                                                *)
(***************************************************************************)
Init == ValidPolicy /\ OwnerInit(Initial)

Journal(c) == JournalCommand(c, TRUE, Possible(c))
Install == InstallCommand(Apply(Last(log)))
Recovery == RecoverWith(Apply(log[cursor + 1]), Initial)
WriteCheckpoint == SaveCheckpoint
WriteReport == SaveReport(state.report)

Next ==
    \/ \E c \in Commands : Journal(c)
    \/ Install \/ SyncFails \/ Crash \/ Recovery \/ WriteCheckpoint \/ WriteReport

-----------------------------------------------------------------------------
\* The report, and every sealed file of one, stands on every scenario, on evidence of each
\* required region that is the last of its line and was current at the date of the report,
\* and on a plan that three operators approved and nobody revoked before it.
ReportIsEarned ==
    state.report \cup files.report.content # {} /\ ~halted /\ phase = "running" =>
        /\ {c.case.scenario : c \in Decided("RecordCase", "CaseAccepted")} = Scenarios
        /\ Decided("Approve", "Approved") # {} /\ Decided("Revoke", "Revoked") = {}
        /\ \A p \in Decided("Register", "Registered"), r \in state.report :
               \A region \in ToSet(p.plan.regions) :
                   \E c \in Decided("RecordRegion", "RegionAccepted") :
                       /\ c.evidence.region = region
                       /\ Recent(c.evidence.observed, r.finalized)
                       /\ \A d \in Decided("RecordRegion", "RegionAccepted") :
                              d.evidence.region = region =>
                                  d.evidence.sequence <= c.evidence.sequence
=============================================================================
