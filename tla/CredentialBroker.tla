-------------------------- MODULE CredentialBroker --------------------------
(***************************************************************************)
(* crates/credential-broker-simulator: nine recorded signer fixtures, then *)
(* for each request of the plan, in order, two authorizations by different *)
(* operators, a one-use permit and the receipt that consumes it.  A        *)
(* revocation of the key handle withdraws the permit and ends the          *)
(* campaign; nothing else removes a permit that was not used in time.      *)
(***************************************************************************)
EXTENDS EngineOwner, FiniteSets, FiniteSetsExt

CONSTANTS Commands, Policy

\* The policy, the commands and what they carry, by the fields that the engine reads.
IsPolicy ==
    DOMAIN Policy = {"certificateAge", "campaignAge", "approvalAge", "permitLife",
                     "requests"}

IsKeyHandle(v) == DOMAIN v = {"inert", "revoked"}

IsSigningPolicy(v) ==
    DOMAIN v = {"inert", "from", "until", "purposes", "subjects", "unitsEach",
                "unitsTotal"}

IsRequest(v) ==
    DOMAIN v = {"id", "expires", "nonce", "units", "purpose", "subject", "notBefore"}

IsPlan(v) ==
    /\ DOMAIN v = {"expires", "created", "key", "certificate", "requests", "signing"}
    /\ IsKeyHandle(v.key)
    /\ \A i \in DOMAIN v.requests : IsRequest(v.requests[i])
    /\ IsSigningPolicy(v.signing)

IsCommand(c) ==
    \/ Variant(c, {"Register"}, {"plan"}) /\ IsPlan(c.plan)
    \/ Variant(c, {"RecordFixture"}, {"inert", "when", "case", "disposition"})
    \/ Variant(c, {"Authorize"}, {"until", "when", "request", "role", "operator",
                                  "authorization", "approved"})
    \/ Variant(c, {"IssuePermit"}, {"when", "expires", "permit"})
    \/ Variant(c, {"ConsumePermit"}, {"when", "receipt", "permit"})
    \/ Variant(c, {"Revoke", "Finalize"}, {"when"})

\* SignerFixtureCase::ALL and the disposition each case must have.
Cases == <<"ValidDryRun", "WrongPurpose", "WrongSubject", "UnitsExceeded", "ExpiredRequest",
           "NonceReplay", "RevokedHandle", "ProviderUnavailable", "AttestationMismatch">>

Expected(case) ==
    CASE case = "ValidDryRun" -> "SimulatedReceiptOnly"
      [] case = "ProviderUnavailable" -> "FailClosed"
      [] OTHER -> "Deny"

Roles == {"Security", "Operations"}

ValidPolicy == \A f \in DOMAIN Policy : Policy[f] > 0

Initial == [plan |-> {}, fixtures |-> 0, authorizations |-> {}, permit |-> {}, usedPermits |-> {},
            usedReceipts |-> {}, nonces |-> {}, completed |-> 0, units |-> 0, revoked |-> FALSE,
            report |-> {}]

ValidUpstream(certificate, at) ==
    certificate.certified /\ certificate.inert /\ at - certificate.at <= Policy.certificateAge

ValidSigningPolicy(p) ==
    /\ p.purposes # {} /\ p.subjects # {} /\ p.inert
    /\ p.unitsEach > 0 /\ p.unitsTotal >= p.unitsEach
    /\ p.from >= 0 /\ p.until > p.from

ValidRequest(r, plan) ==
    /\ r.units > 0 /\ r.units <= plan.signing.unitsEach
    /\ r.purpose \in plan.signing.purposes /\ r.subject \in plan.signing.subjects
    /\ r.notBefore >= plan.created /\ r.expires > r.notBefore /\ r.expires <= plan.expires

ValidPlan(plan, at) ==
    LET requests == ToSet(plan.requests)
    IN  /\ plan.key.inert /\ ~plan.key.revoked
        /\ ValidSigningPolicy(plan.signing)
        /\ Len(plan.requests) \in 1..Policy.requests
        /\ Cardinality({r.id : r \in requests}) = Len(plan.requests)
        /\ Cardinality({r.nonce : r \in requests}) = Len(plan.requests)
        /\ \A r \in requests : ValidRequest(r, plan)
        /\ MapThenSumSet(LAMBDA r : r.units, requests) <= plan.signing.unitsTotal
        /\ plan.created >= plan.certificate.at /\ plan.created <= at
        /\ plan.expires > plan.created /\ plan.expires <= plan.signing.until
        /\ plan.created >= plan.signing.from
        /\ plan.expires - plan.created <= Policy.campaignAge

CanRegister(c) ==
    /\ c.op = "Register" /\ state.plan = {}
    /\ ValidUpstream(c.plan.certificate, c.at) /\ ValidPlan(c.plan, c.at)

Register(c) ==
    /\ CanRegister(c)
    /\ state' = [state EXCEPT !.plan = {c.plan}]
    /\ Decide(c, "Registered")

CanRecordFixture(c) ==
    /\ c.op = "RecordFixture" /\ state.fixtures < Len(Cases)
    /\ c.case = Cases[state.fixtures + 1] /\ c.disposition = Expected(c.case) /\ c.inert
    /\ \E plan \in state.plan : c.when >= plan.created /\ c.when <= c.at

RecordFixture(c) ==
    /\ CanRecordFixture(c)
    /\ state' = [state EXCEPT !.fixtures = @ + 1]
    /\ Decide(c, "FixtureRecorded")

-----------------------------------------------------------------------------
Certified == state.fixtures = Len(Cases)

\* The plan and the request that is next, when there is one.
Due == {[plan |-> plan, request |-> plan.requests[state.completed + 1]] :
            plan \in {p \in state.plan : state.completed < Len(p.requests)}}

\* The authorizations of the request: one per role, by operators that differ.
Given(request) == {a \in state.authorizations : a.request = request.id}

\* Wrong variant, for mutation only: one operator may fill both roles.
CanAuthorizeTwice(c) ==
    /\ c.op = "Authorize" /\ ~state.revoked /\ Certified /\ c.approved /\ c.when <= c.at
    /\ \E d \in Due : c.request = d.request.id /\ \A a \in Given(d.request) : a.role # c.role

CanAuthorize(c) ==
    /\ c.op = "Authorize" /\ ~state.revoked /\ Certified
    /\ c.approved /\ c.when <= c.at /\ c.until > c.when
    /\ c.authorization \notin {a.authorization : a \in state.authorizations}
    /\ \E d \in Due :
           /\ c.request = d.request.id /\ c.until <= d.request.expires
           /\ c.when - d.plan.created <= Policy.approvalAge
           /\ \A a \in Given(d.request) : a.role # c.role /\ a.operator # c.operator

Authorize(c) ==
    /\ CanAuthorize(c)
    /\ state' = [state EXCEPT !.authorizations = @ \cup {c}]
    /\ Decide(c, "Authorized")

\* current_authorization.
Current(request, role, at) ==
    \E a \in Given(request) : /\ a.role = role /\ at \in a.when..a.until
                              /\ at - a.when <= Policy.approvalAge

CanIssuePermit(c) ==
    /\ c.op = "IssuePermit" /\ ~state.revoked /\ Certified /\ state.permit = {}
    /\ c.permit \notin state.usedPermits
    /\ c.when <= c.at /\ c.expires > c.when /\ c.expires - c.when <= Policy.permitLife
    /\ \E d \in Due :
           /\ c.expires <= d.plan.expires /\ c.expires <= d.request.expires
           /\ c.when >= d.request.notBefore /\ d.request.nonce \notin state.nonces
           /\ \A role \in Roles : Current(d.request, role, c.when)

Permit(c, request) == [id |-> c.permit, request |-> request, issued |-> c.when, expires |-> c.expires]

IssuePermit(c) ==
    /\ CanIssuePermit(c)
    /\ state' = [state EXCEPT !.permit = {Permit(c, d.request) : d \in Due},
                              !.usedPermits = @ \cup {c.permit}]
    /\ Decide(c, "PermitIssued")

CanConsumePermit(c) ==
    /\ c.op = "ConsumePermit" /\ ~state.revoked /\ c.receipt \notin state.usedReceipts
    /\ c.when <= c.at
    /\ \E p \in state.permit : /\ p.id = c.permit /\ c.when \in p.issued..p.expires
                               /\ p.request.nonce \notin state.nonces

ConsumePermit(c) ==
    /\ CanConsumePermit(c)
    /\ \E p \in state.permit :
           state' = [state EXCEPT !.nonces = @ \cup {p.request.nonce},
                                  !.usedReceipts = @ \cup {c.receipt},
                                  !.units = @ + p.request.units, !.completed = @ + 1, !.permit = {}]
    /\ Decide(c, "PermitConsumed")

CanRevoke(c) ==
    /\ c.op = "Revoke" /\ ~state.revoked
    /\ \E plan \in state.plan : c.when >= plan.created /\ c.when <= c.at

Revoke(c) ==
    /\ CanRevoke(c)
    /\ state' = [state EXCEPT !.revoked = TRUE, !.permit = {}]
    /\ Decide(c, "Revoked")

CanFinalize(c) ==
    /\ c.op = "Finalize" /\ Certified /\ state.permit = {}
    /\ \E plan \in state.plan : /\ state.completed = Len(plan.requests) \/ state.revoked
                                /\ c.when >= plan.created
    /\ c.when <= c.at

Finalize(c) ==
    /\ CanFinalize(c)
    /\ state' = [state EXCEPT !.report = {[revoked |-> state.revoked, completed |-> state.completed,
                                           finalized |-> c.when]}]
    /\ Decide(c, "Finalized")

Possible(c) ==
    /\ state.report = {}
    /\ \/ CanRegister(c) \/ CanRecordFixture(c) \/ CanAuthorize(c) \/ CanIssuePermit(c)
       \/ CanConsumePermit(c) \/ CanRevoke(c) \/ CanFinalize(c)

Handler(c) ==
    /\ state.report = {}
    /\ \/ Register(c) \/ RecordFixture(c) \/ Authorize(c) \/ IssuePermit(c) \/ ConsumePermit(c)
       \/ Revoke(c) \/ Finalize(c)

Apply(c) == ApplyClockFirst(c, Possible(c), Handler(c))

-----------------------------------------------------------------------------
(***************************************************************************)
(* durable.rs and report.rs                                                *)
(***************************************************************************)
Init == ValidPolicy /\ OwnerInit(Initial)

Journal(c) == JournalCommand(c, TRUE, Possible(c))
Install == InstallCommand(Apply(Last(log)))
Recovery == RecoverWith(Apply(log[cursor + 1]), Initial)
WriteCheckpoint == SaveCheckpoint
WriteReport == SaveReport(state.report)

Next ==
    \/ \E c \in Commands : Journal(c)
    \/ Install \/ SyncFails \/ Crash \/ Recovery \/ WriteCheckpoint \/ WriteReport

-----------------------------------------------------------------------------
\* Every receipt answers one permit, and every permit stood on two operators'
\* authorizations of the request it was for; no receipt follows a revocation.
PermitsAreDual ==
    LET issued == Decided("IssuePermit", "PermitIssued")
        consumed == Decided("ConsumePermit", "PermitConsumed")
    IN  /\ \A c \in consumed :
               /\ \E i \in issued : i.permit = c.permit /\ i.at <= c.at
               /\ \A d \in consumed \ {c} : d.permit # c.permit
               /\ \A r \in Decided("Revoke", "Revoked") : c.at <= r.at
        /\ \A p \in state.permit, role \in Roles : Current(p.request, role, p.issued)
        /\ \A p \in state.permit : Cardinality({a.operator : a \in Given(p.request)}) = 2
        /\ \A plan \in state.plan : state.units <= plan.signing.unitsTotal
=============================================================================
