----------------------- MODULE TransportCertification -----------------------
(***************************************************************************)
(* crates/transport-adapter-certification: an endpoint policy and the      *)
(* canonical bytes of every request template of a completed session        *)
(* dossier, twelve recorded transport fixtures in their order, and the     *)
(* certificate.                                                            *)
(***************************************************************************)
EXTENDS EngineOwner, FiniteSets

CONSTANTS Commands, Policy

\* The policy, the commands and what they carry, by the fields that the engine reads.
IsPolicy ==
    DOMAIN Policy = {"dossierAge", "campaignAge", "backoff", "endpoints", "pins",
                     "bindings"}

IsEndpoint(v) == DOMAIN v = {"inert", "pins", "host", "server", "paths"}

IsBinding(v) == DOMAIN v = {"path", "bytes", "template"}

IsPlan(v) ==
    /\ DOMAIN v = {"expires", "created", "bindings", "endpoint", "dossier"}
    /\ \A i \in DOMAIN v.bindings : IsBinding(v.bindings[i])
    /\ IsEndpoint(v.endpoint)

IsFixture(v) ==
    DOMAIN v = {"inert", "observed", "ambiguity", "backoff", "case", "disposition",
                "reconciliation", "host", "server", "pin", "path", "bytes", "status"}

IsCommand(c) ==
    \/ Variant(c, {"Register"}, {"plan"}) /\ IsPlan(c.plan)
    \/ Variant(c, {"RecordFixture"}, {"fixture"}) /\ IsFixture(c.fixture)
    \/ Variant(c, {"Finalize"}, {"when"})

\* TransportFixtureCase::ALL and the disposition each case must have.
Cases == <<"DnsExact", "DnsWrongHost", "TlsPinned", "TlsWrongPin", "EndpointAllowed",
           "EndpointForbidden", "CanonicalRequest", "NoncanonicalRequest", "Timeout",
           "RateLimited", "UnknownResponse", "NoMutationReconciliation">>

Expected(case) ==
    CASE case \in {"DnsExact", "TlsPinned", "EndpointAllowed", "CanonicalRequest"} -> "Allow"
      [] case \in {"DnsWrongHost", "TlsWrongPin", "EndpointForbidden", "NoncanonicalRequest"} -> "Deny"
      [] case \in {"Timeout", "RateLimited"} -> "BackoffOnly"
      [] case = "UnknownResponse" -> "ReconciliationRequired"
      [] case = "NoMutationReconciliation" -> "NoMutationReconciled"

ValidPolicy == \A f \in DOMAIN Policy : Policy[f] > 0

Initial == [plan |-> {}, fixtures |-> <<>>, report |-> {}]

\* Names and paths are opaque; `inert' says that no redirect, proxy, cookie, credential
\* or wildcard is allowed.
ValidEndpoint(e) ==
    /\ e.server = e.host /\ e.inert
    /\ Cardinality(e.paths) \in 1..Policy.endpoints /\ Cardinality(e.pins) \in 1..Policy.pins

\* One binding per template of the dossier, in its order, on an allowed path.
ValidPlan(plan, at) ==
    /\ plan.dossier.completed /\ plan.dossier.inert
    /\ plan.dossier.resolved = Len(plan.dossier.templates)
    /\ ValidEndpoint(plan.endpoint)
    /\ Len(plan.bindings) \in 1..Policy.bindings
    /\ Len(plan.bindings) = Len(plan.dossier.templates)
    /\ \A k \in DOMAIN plan.bindings : /\ plan.bindings[k].template = plan.dossier.templates[k]
                                       /\ plan.bindings[k].path \in plan.endpoint.paths
    /\ plan.created >= plan.dossier.finalized /\ plan.created <= at
    /\ plan.expires > plan.created /\ at <= plan.expires
    /\ plan.expires - plan.created <= Policy.campaignAge
    /\ at - plan.dossier.finalized <= Policy.dossierAge

CanRegister(c) == c.op = "Register" /\ state.plan = {} /\ ValidPlan(c.plan, c.at)

Register(c) ==
    /\ CanRegister(c)
    /\ state' = [state EXCEPT !.plan = {c.plan}]
    /\ Decide(c, "Registered")

\* valid_fixture, the clause of each case.
ValidFixture(f, plan) ==
    LET e == plan.endpoint
        bytes == plan.bindings[1].bytes
        backsOff == f.backoff \in 1..Policy.backoff
    IN  /\ f.inert
        /\ CASE f.case = "DnsExact" -> f.host = e.host
             [] f.case = "DnsWrongHost" -> f.host # e.host
             [] f.case = "TlsPinned" -> f.server = e.server /\ f.pin \in e.pins
             [] f.case = "TlsWrongPin" -> f.server = e.server /\ f.pin \notin e.pins
             [] f.case = "EndpointAllowed" -> f.path \in e.paths
             [] f.case = "EndpointForbidden" -> f.path \notin e.paths
             [] f.case = "CanonicalRequest" -> f.bytes = bytes
             [] f.case = "NoncanonicalRequest" -> f.bytes # bytes
             [] f.case = "Timeout" -> backsOff /\ f.status = 0
             [] f.case = "RateLimited" -> backsOff /\ f.status = 429
             [] f.case = "UnknownResponse" -> f.ambiguity # {} /\ f.reconciliation = {}
             [] f.case = "NoMutationReconciliation" -> f.ambiguity # {} /\ f.reconciliation # {}

\* The reconciliation is of the ambiguity recorded just before it.
CanRecordFixture(c) ==
    /\ c.op = "RecordFixture" /\ Len(state.fixtures) < Len(Cases)
    /\ c.fixture.case = Cases[Len(state.fixtures) + 1]
    /\ c.fixture.disposition = Expected(c.fixture.case)
    /\ c.fixture.observed <= c.at
    /\ \E plan \in state.plan : c.fixture.observed >= plan.created /\ ValidFixture(c.fixture, plan)
    /\ c.fixture.case = "NoMutationReconciliation" =>
           c.fixture.ambiguity = Last(state.fixtures).ambiguity

RecordFixture(c) ==
    /\ CanRecordFixture(c)
    /\ state' = [state EXCEPT !.fixtures = Append(@, c.fixture)]
    /\ Decide(c, "FixtureRecorded")

\* Nothing orders the date of the certificate after the plan or the fixtures.
CanFinalize(c) ==
    /\ c.op = "Finalize" /\ Len(state.fixtures) = Len(Cases) /\ c.when <= c.at
    /\ \E plan \in state.plan : c.when <= plan.expires

Finalize(c) ==
    /\ CanFinalize(c)
    /\ state' = [state EXCEPT !.report = {[fixtures |-> Len(state.fixtures), certified |-> c.when]}]
    /\ Decide(c, "Finalized")

Possible(c) == state.report = {} /\ (CanRegister(c) \/ CanRecordFixture(c) \/ CanFinalize(c))

Handler(c) == state.report = {} /\ (Register(c) \/ RecordFixture(c) \/ Finalize(c))

Apply(c) == ApplyClockFirst(c, Possible(c), Handler(c))

-----------------------------------------------------------------------------
(***************************************************************************)
(* durable.rs and certificate.rs                                           *)
(***************************************************************************)
Init == ValidPolicy /\ OwnerInit(Initial)

Journal(c) == JournalCommand(c, TRUE, Possible(c))
Install == InstallCommand(Apply(Last(log)))
Recovery == RecoverWith(Apply(log[cursor + 1]), Initial)
WriteCheckpoint == SaveCheckpoint
WriteReport == SaveReport(state.report)

Next ==
    \/ \E c \in Commands : Journal(c)
    \/ Install \/ SyncFails \/ Crash \/ Recovery \/ WriteCheckpoint \/ WriteReport

-----------------------------------------------------------------------------
\* The certificate, and every sealed file of one, stands on all twelve cases, each
\* recorded once, and the last of them explains the one before it.
ReportIsEarned ==
    LET recorded == Decided("RecordFixture", "FixtureRecorded")
    IN  state.report \cup files.report.content # {} /\ ~halted /\ phase = "running" =>
            /\ {c.fixture.case : c \in recorded} = ToSet(Cases)
            /\ Cardinality(recorded) = Len(Cases)
            /\ state.fixtures[11].ambiguity = state.fixtures[12].ambiguity
=============================================================================
