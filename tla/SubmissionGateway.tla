-------------------------- MODULE SubmissionGateway --------------------------
(***************************************************************************)
(* crates/submission-gateway-certification: a plan binds every envelope to *)
(* a signing receipt and a transport binding; ten recorded fixtures in     *)
(* their order, then one envelope at a time is staged, observed and, when  *)
(* the answer was unknown, reconciled by evidence that nothing changed.    *)
(* The report is certified when no envelope was rejected.                  *)
(***************************************************************************)
EXTENDS EngineOwner, FiniteSets

CONSTANTS Commands, Policy

\* The policy, the commands and what they carry, by the fields that the engine reads.
IsPolicy ==
    DOMAIN Policy = {"transportAge", "brokerAge", "campaignAge", "envelopeLife",
                     "backoff", "envelopes"}

IsContract(v) == DOMAIN v = {"inert", "channel", "token", "headers"}

IsEnvelope(v) ==
    DOMAIN v = {"id", "inert", "expires", "created", "sequence", "endpoint", "receipt",
                "binding", "channel", "token", "key"}

IsPlan(v) ==
    /\ DOMAIN v = {"expires", "created", "envelopes", "transport", "certificate",
                   "contract", "broker"}
    /\ \A i \in DOMAIN v.envelopes : IsEnvelope(v.envelopes[i])
    /\ IsContract(v.contract)

IsFixture(v) ==
    DOMAIN v = {"inert", "observed", "expires", "ambiguity", "backoff", "endpoint",
                "channel", "token", "key", "case", "disposition", "envelope",
                "reconciliation"}

IsCommand(c) ==
    \/ Variant(c, {"Register"}, {"plan"}) /\ IsPlan(c.plan)
    \/ Variant(c, {"RecordFixture"}, {"fixture"}) /\ IsFixture(c.fixture)
    \/ Variant(c, {"StageNext"}, {"when", "submission"})
    \/ Variant(c, {"Observe"}, {"inert", "when", "submission", "evidence", "outcome"})
    \/ Variant(c, {"ReconcileUnknown"}, {"inert", "when", "submission", "evidence",
                                         "observation"})
    \/ Variant(c, {"Finalize"}, {"when"})

\* GatewayFixtureCase::ALL and the disposition each case must have.
Cases == <<"ValidEnvelope", "WrongEndpoint", "WrongChannelBinding", "WrongTokenBinding",
           "ReceiptReplay", "IdempotencyConflict", "ExpiredEnvelope", "RateLimited",
           "UnknownResponse", "NoMutationReconciliation">>

Expected(case) ==
    CASE case = "ValidEnvelope" -> "ShadowAccepted"
      [] case = "RateLimited" -> "ManualBackoff"
      [] case = "UnknownResponse" -> "RequireReconciliation"
      [] case = "NoMutationReconciliation" -> "ReconciledNoMutation"
      [] case = "IdempotencyConflict" -> "FailClosed"
      [] OTHER -> "Deny"

ValidPolicy == \A f \in DOMAIN Policy : Policy[f] > 0

Initial == [plan |-> {}, fixtures |-> <<>>, active |-> {}, usedIds |-> {}, usedReceipts |-> {},
            usedKeys |-> {}, usedEvidence |-> {}, completed |-> 0, rejected |-> 0,
            reconciled |-> 0, report |-> {}]

\* The certificate, the transport plan, the broker's plan and its report belong together.
ValidUpstream(plan, at) ==
    /\ plan.certificate.certified /\ plan.certificate.inert
    /\ plan.certificate.transport = plan.transport
    /\ plan.broker.completed /\ plan.broker.inert /\ plan.broker.certificate = plan.certificate
    /\ plan.broker.finalized >= plan.broker.created
    /\ at - plan.certificate.at <= Policy.transportAge
    /\ at - plan.broker.finalized <= Policy.brokerAge

\* Envelope e is the k-th: for the k-th request and its binding, under this contract.
ValidEnvelope(e, k, plan) ==
    /\ e.sequence = k /\ e.inert
    /\ e.receipt.request = plan.broker.requests[k] /\ e.receipt.inert
    /\ e.binding = plan.transport.bindings[k] /\ e.endpoint = plan.transport.endpoint
    /\ e.channel = plan.contract.channel /\ e.token = plan.contract.token
    /\ e.created >= plan.created /\ e.created >= e.receipt.consumed
    /\ e.expires > e.created /\ e.expires <= plan.expires
    /\ e.expires - e.created <= Policy.envelopeLife

ValidAuthContract(contract) == contract.headers # {} /\ contract.inert

Distinct(keys) == Cardinality({keys[i] : i \in DOMAIN keys}) = Len(keys)

ValidPlan(plan, at) ==
    LET n == Len(plan.envelopes)
    IN  /\ ValidAuthContract(plan.contract)
        /\ n > 0 /\ n <= Policy.envelopes
        /\ n = Len(plan.broker.requests) /\ n = Len(plan.transport.bindings)
        /\ Distinct([i \in 1..n |-> plan.envelopes[i].id])
        /\ Distinct([i \in 1..n |-> plan.envelopes[i].receipt.id])
        /\ Distinct([i \in 1..n |-> plan.envelopes[i].key])
        /\ [i \in 1..n |-> plan.envelopes[i].receipt] = plan.broker.receipts
        /\ \A k \in 1..n : ValidEnvelope(plan.envelopes[k], k, plan)
        /\ plan.created >= plan.broker.finalized /\ plan.created <= at
        /\ plan.expires > plan.created /\ plan.expires - plan.created <= Policy.campaignAge

CanRegister(c) ==
    /\ c.op = "Register" /\ state.plan = {}
    /\ ValidUpstream(c.plan, c.at) /\ ValidPlan(c.plan, c.at)

Register(c) ==
    /\ CanRegister(c)
    /\ state' = [state EXCEPT !.plan = {c.plan}]
    /\ Decide(c, "Registered")

-----------------------------------------------------------------------------
\* exact_fixture_subject: the fixture is about the first envelope as it is.
ExactSubject(f, e) ==
    /\ f.envelope = e.id /\ f.endpoint = e.endpoint /\ f.channel = e.channel
    /\ f.token = e.token /\ f.key = e.key

\* valid_fixture, the clause of each case.
ValidFixture(f, plan) ==
    LET e == plan.envelopes[1]
        exact == ExactSubject(f, e)
        current == exact /\ f.expires = e.expires
    IN  /\ f.inert
        /\ CASE f.case = "ValidEnvelope" -> current
             [] f.case = "WrongEndpoint" -> f.envelope = e.id /\ f.endpoint # e.endpoint
             [] f.case = "WrongChannelBinding" -> f.envelope = e.id /\ f.channel # e.channel
             [] f.case = "WrongTokenBinding" -> f.envelope = e.id /\ f.token # e.token
             [] f.case = "ReceiptReplay" -> exact
             [] f.case = "IdempotencyConflict" -> f.envelope # e.id /\ f.key = e.key
             [] f.case = "ExpiredEnvelope" -> /\ exact /\ f.expires >= plan.created
                                              /\ f.observed > f.expires
             [] f.case = "RateLimited" -> current /\ f.backoff \in 1..Policy.backoff
             [] f.case = "UnknownResponse" -> current /\ f.ambiguity # {} /\ f.reconciliation = {}
             [] f.case = "NoMutationReconciliation" ->
                    /\ current /\ Last(state.fixtures).case = "UnknownResponse"
                    /\ f.ambiguity = Last(state.fixtures).ambiguity /\ f.reconciliation # {}

CanRecordFixture(c) ==
    /\ c.op = "RecordFixture" /\ Len(state.fixtures) < Len(Cases)
    /\ c.fixture.case = Cases[Len(state.fixtures) + 1]
    /\ c.fixture.disposition = Expected(c.fixture.case)
    /\ c.fixture.observed <= c.at
    /\ \E plan \in state.plan : /\ c.fixture.observed \in plan.created..plan.expires
                                /\ ValidFixture(c.fixture, plan)

RecordFixture(c) ==
    /\ CanRecordFixture(c)
    /\ state' = [state EXCEPT !.fixtures = Append(@, c.fixture)]
    /\ Decide(c, "FixtureRecorded")

-----------------------------------------------------------------------------
\* The envelope that is next; a rejected one also counts as completed.
NextEnvelope(plan) == plan.envelopes[state.completed + 1]

\* Wrong variant, for mutation only: a submission may be staged over an active one.
CanStageOver(c) ==
    /\ c.op = "StageNext" /\ Len(state.fixtures) = Len(Cases)
    /\ c.submission \notin state.usedIds /\ c.when <= c.at
    /\ \E plan \in state.plan : state.completed < Len(plan.envelopes)

CanStageNext(c) ==
    /\ c.op = "StageNext" /\ Len(state.fixtures) = Len(Cases)
    /\ state.active = {} /\ c.submission \notin state.usedIds /\ c.when <= c.at
    /\ \E plan \in state.plan :
           /\ state.completed < Len(plan.envelopes)
           /\ c.when \in NextEnvelope(plan).created..NextEnvelope(plan).expires
           /\ NextEnvelope(plan).receipt.id \notin state.usedReceipts
           /\ NextEnvelope(plan).key \notin state.usedKeys

Submission(c, e) == [id |-> c.submission, envelope |-> e, staged |-> c.when, state |-> "Staged",
                     unknown |-> {}]

StageNext(c) ==
    /\ CanStageNext(c)
    /\ \E plan \in state.plan :
           state' = [state EXCEPT !.active = {Submission(c, NextEnvelope(plan))},
                                  !.usedIds = @ \cup {c.submission},
                                  !.usedReceipts = @ \cup {NextEnvelope(plan).receipt.id},
                                  !.usedKeys = @ \cup {NextEnvelope(plan).key}]
    /\ Decide(c, "Staged")

\* The caller names the submission by its digest: id and state.
Names(c, s) == c.submission = s.id /\ c.inert /\ c.evidence \notin state.usedEvidence
               /\ c.when >= s.staged /\ c.when <= c.at

Completed(rejected, reconciled) ==
    [state EXCEPT !.active = {}, !.completed = @ + 1, !.rejected = @ + rejected,
                  !.reconciled = @ + reconciled]

CanObserve(c) ==
    /\ c.op = "Observe"
    /\ \E s \in state.active : Names(c, s) /\ s.state = "Staged"

Observed(c) ==
    CASE c.outcome = "Accepted" -> Completed(0, 0)
      [] c.outcome = "Rejected" -> Completed(1, 0)
      [] OTHER -> [state EXCEPT !.active = {[s EXCEPT !.state = "Unknown", !.unknown = {c.evidence}]
                                            : s \in @}]

Observe(c) ==
    /\ CanObserve(c)
    /\ state' = [Observed(c) EXCEPT !.usedEvidence = @ \cup {c.evidence}]
    /\ Decide(c, "Observed")

CanReconcile(c) ==
    /\ c.op = "ReconcileUnknown"
    /\ \E s \in state.active : Names(c, s) /\ s.state = "Unknown" /\ s.unknown = {c.observation}

ReconcileUnknown(c) ==
    /\ CanReconcile(c)
    /\ state' = [Completed(0, 1) EXCEPT !.usedEvidence = @ \cup {c.evidence}]
    /\ Decide(c, "UnknownReconciled")

CanFinalize(c) ==
    /\ c.op = "Finalize" /\ Len(state.fixtures) = Len(Cases) /\ state.active = {}
    /\ \E plan \in state.plan : state.completed = Len(plan.envelopes) /\ c.when >= plan.created
    /\ c.when <= c.at

Finalize(c) ==
    /\ CanFinalize(c)
    /\ state' = [state EXCEPT !.report =
           {[certified |-> state.rejected = 0, completed |-> state.completed,
             rejected |-> state.rejected, reconciled |-> state.reconciled, finalized |-> c.when]}]
    /\ Decide(c, "Finalized")

Possible(c) ==
    /\ state.report = {}
    /\ \/ CanRegister(c) \/ CanRecordFixture(c) \/ CanStageNext(c) \/ CanObserve(c)
       \/ CanReconcile(c) \/ CanFinalize(c)

Handler(c) ==
    /\ state.report = {}
    /\ \/ Register(c) \/ RecordFixture(c) \/ StageNext(c) \/ Observe(c) \/ ReconcileUnknown(c)
       \/ Finalize(c)

Apply(c) == ApplyClockFirst(c, Possible(c), Handler(c))

-----------------------------------------------------------------------------
(***************************************************************************)
(* durable.rs and report.rs                                                *)
(***************************************************************************)
Init == ValidPolicy /\ OwnerInit(Initial)

Journal(c) == JournalCommand(c, TRUE, Possible(c))
Install == InstallCommand(Apply(Last(log)))
Recovery == RecoverWith(Apply(log[cursor + 1]), Initial)
WriteCheckpoint == SaveCheckpoint
WriteReport == SaveReport(state.report)

Next ==
    \/ \E c \in Commands : Journal(c)
    \/ Install \/ SyncFails \/ Crash \/ Recovery \/ WriteCheckpoint \/ WriteReport

-----------------------------------------------------------------------------
\* Every envelope is settled by exactly one submission: each receipt was spent by one
\* staging, each staging ended in one acceptance, rejection or reconciliation, and the
\* certificate says that none of them was a rejection.
ReportIsEarned ==
    LET staged == Decided("StageNext", "Staged")
        answers == {c \in Decided("Observe", "Observed") : c.outcome # "Unknown"}
                       \cup Decided("ReconcileUnknown", "UnknownReconciled")
    IN  /\ Cardinality(staged) = state.completed + Cardinality(state.active)
        /\ \A s \in staged : \/ \E a \in state.active : a.id = s.submission
                             \/ Cardinality({a \in answers : a.submission = s.submission}) = 1
        /\ \A r \in state.report : r.certified <=> ~\E a \in answers :
                                       a.op = "Observe" /\ a.outcome = "Rejected"
=============================================================================
