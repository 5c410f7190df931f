--------------------------- MODULE ExecutionIntent ---------------------------
(***************************************************************************)
(* crates/deployment-execution-intent: a plan within the privilege ceiling *)
(* of an isolated executor, ten dry runs in their order, certification,    *)
(* and for each step, in order, one intent that an operator consumes       *)
(* before it expires.  An intent that expires unused is never withdrawn.   *)
(***************************************************************************)
EXTENDS EngineOwner, FiniteSets

CONSTANTS Commands, Policy

\* The policy, the commands and what they carry, by the fields that the engine reads.
IsPolicy ==
    DOMAIN Policy = {"readinessAge", "planAge", "intentLife", "steps", "regions",
                     "resources"}

IsCeiling(v) == DOMAIN v = {"inert", "regions", "resources", "operations"}

IsContract(v) ==
    /\ DOMAIN v = {"inert", "subject", "ceiling"}
    /\ IsCeiling(v.ceiling)

IsStep(v) == DOMAIN v = {"operation", "region", "resource"}

IsPlan(v) ==
    /\ DOMAIN v = {"id", "expires", "created", "contract", "subject", "steps",
                   "readyUntil", "readiness"}
    /\ IsContract(v.contract)
    /\ \A i \in DOMAIN v.steps : IsStep(v.steps[i])

IsCommand(c) ==
    \/ Variant(c, {"Register"}, {"plan"}) /\ IsPlan(c.plan)
    \/ Variant(c, {"RecordDryRun"}, {"inert", "when", "case", "disposition"})
    \/ Variant(c, {"Certify"}, {"when", "plan"})
    \/ Variant(c, {"IssueIntent"}, {"when", "expires", "intent"})
    \/ Variant(c, {"ConsumeIntent"}, {"when", "intent"})
    \/ Variant(c, {"Finalize"}, {"when"})

\* DryRunCase::ALL; everything but the first must be denied.
Cases == <<"PermittedBaseline", "WrongSubject", "WrongRegion", "ForbiddenOperation",
           "WildcardResource", "CredentialRequest", "SignatureRequest", "AuthenticatedTransport",
           "ExpiredIntent", "ReplayIntent">>

Expected(case) == IF case = "PermittedBaseline" THEN "ManualHandoffOnly" ELSE "Deny"

ValidPolicy == \A f \in DOMAIN Policy : Policy[f] > 0

Initial == [plan |-> {}, dryRuns |-> 0, certified |-> FALSE, completed |-> 0, intent |-> {},
            consumed |-> {}, report |-> {}]

\* current: the plan and the readiness it stands on are in force.
Current(plan, at) ==
    /\ at \in plan.created..plan.expires /\ at <= plan.readyUntil
    /\ at - plan.created <= Policy.planAge
    /\ at - plan.readiness.finalized <= Policy.readinessAge

ValidCeiling(ceiling, subject) ==
    /\ ceiling.operations # {} /\ ceiling.inert
    /\ Cardinality(ceiling.regions) \in 1..Policy.regions
    /\ Cardinality(ceiling.resources) \in 1..Policy.resources
    /\ ceiling.resources \subseteq subject.resources

ValidStep(step, ceiling) ==
    /\ step.region \in ceiling.regions /\ step.operation \in ceiling.operations
    /\ step.resource \in ceiling.resources

ValidPlan(plan, at) ==
    /\ plan.readiness.ready /\ plan.readiness.inert /\ plan.readiness.subject = plan.subject
    /\ plan.contract.subject = plan.subject /\ plan.contract.inert
    /\ ValidCeiling(plan.contract.ceiling, plan.subject)
    /\ Len(plan.steps) \in 1..Policy.steps
    /\ \A k \in DOMAIN plan.steps : ValidStep(plan.steps[k], plan.contract.ceiling)
    /\ plan.created >= plan.readiness.finalized /\ plan.created <= at
    /\ plan.expires > plan.created
    /\ plan.readyUntil = plan.readiness.finalized + Policy.readinessAge
    /\ plan.readyUntil >= plan.expires
    /\ Current(plan, at)

CanRegister(c) == c.op = "Register" /\ state.plan = {} /\ ValidPlan(c.plan, c.at)

Register(c) ==
    /\ CanRegister(c)
    /\ state' = [state EXCEPT !.plan = {c.plan}]
    /\ Decide(c, "Registered")

CanRecordDryRun(c) ==
    /\ c.op = "RecordDryRun" /\ ~state.certified /\ state.dryRuns < Len(Cases)
    /\ c.case = Cases[state.dryRuns + 1] /\ c.disposition = Expected(c.case) /\ c.inert
    /\ \E plan \in state.plan : c.when >= plan.created /\ c.when <= c.at

RecordDryRun(c) ==
    /\ CanRecordDryRun(c)
    /\ state' = [state EXCEPT !.dryRuns = @ + 1]
    /\ Decide(c, "DryRunRecorded")

CanCertify(c) ==
    /\ c.op = "Certify" /\ ~state.certified /\ state.dryRuns = Len(Cases) /\ c.when <= c.at
    /\ \E plan \in state.plan : c.plan = plan.id /\ Current(plan, c.when)

Certify(c) ==
    /\ CanCertify(c)
    /\ state' = [state EXCEPT !.certified = TRUE]
    /\ Decide(c, "Certified")

CanIssueIntent(c) ==
    /\ c.op = "IssueIntent" /\ state.certified /\ state.intent = {}
    /\ c.intent \notin state.consumed /\ c.when <= c.at
    /\ c.expires > c.when /\ c.expires - c.when <= Policy.intentLife
    /\ \E plan \in state.plan :
           /\ state.completed < Len(plan.steps) /\ Current(plan, c.when)
           /\ c.expires <= plan.expires /\ c.expires <= plan.readyUntil

Intent(c, plan) == [id |-> c.intent, step |-> plan.steps[state.completed + 1], issued |-> c.when,
                    expires |-> c.expires]

IssueIntent(c) ==
    /\ CanIssueIntent(c)
    /\ state' = [state EXCEPT !.intent = {Intent(c, plan) : plan \in state.plan}]
    /\ Decide(c, "IntentIssued")

CanConsumeIntent(c) ==
    /\ c.op = "ConsumeIntent" /\ c.intent \notin state.consumed /\ c.when <= c.at
    /\ \E i \in state.intent : i.id = c.intent /\ c.when \in i.issued..i.expires

ConsumeIntent(c) ==
    /\ CanConsumeIntent(c)
    /\ state' = [state EXCEPT !.consumed = @ \cup {c.intent}, !.completed = @ + 1, !.intent = {}]
    /\ Decide(c, "IntentConsumed")

CanFinalize(c) ==
    /\ c.op = "Finalize" /\ state.certified /\ state.intent = {} /\ c.when <= c.at
    /\ \E plan \in state.plan : state.completed = Len(plan.steps)

Finalize(c) ==
    /\ CanFinalize(c)
    /\ state' = [state EXCEPT !.report = {[completed |-> state.completed, finalized |-> c.when]}]
    /\ Decide(c, "Finalized")

Possible(c) ==
    /\ state.report = {}
    /\ \/ CanRegister(c) \/ CanRecordDryRun(c) \/ CanCertify(c) \/ CanIssueIntent(c)
       \/ CanConsumeIntent(c) \/ CanFinalize(c)

Handler(c) ==
    /\ state.report = {}
    /\ \/ Register(c) \/ RecordDryRun(c) \/ Certify(c) \/ IssueIntent(c) \/ ConsumeIntent(c)
       \/ Finalize(c)

Apply(c) == ApplyClockFirst(c, Possible(c), Handler(c))

-----------------------------------------------------------------------------
(***************************************************************************)
(* durable.rs and report.rs                                                *)
(***************************************************************************)
Init == ValidPolicy /\ OwnerInit(Initial)

Journal(c) == JournalCommand(c, TRUE, Possible(c))
Install == InstallCommand(Apply(Last(log)))
Recovery == RecoverWith(Apply(log[cursor + 1]), Initial)
WriteCheckpoint == SaveCheckpoint
WriteReport == SaveReport(state.report)

Next ==
    \/ \E c \in Commands : Journal(c)
    \/ Install \/ SyncFails \/ Crash \/ Recovery \/ WriteCheckpoint \/ WriteReport

-----------------------------------------------------------------------------
\* Every handoff used the one intent issued for its step, within its life and the
\* plan's, after certification: no step is handed off twice.
IntentsAreOneUse ==
    LET issued == Decided("IssueIntent", "IntentIssued")
        used == Decided("ConsumeIntent", "IntentConsumed")
    IN  /\ Cardinality({c.intent : c \in used}) = Cardinality(used)
        /\ \A c \in used : \E i \in issued : /\ i.intent = c.intent
                                             /\ c.when \in i.when..i.expires
        /\ \A plan \in state.plan : /\ Cardinality(used) <= Len(plan.steps)
                                    /\ \A c \in used : Current(plan, c.when)
        /\ Cardinality(issued) = Cardinality(used) + Cardinality(state.intent)
=============================================================================
