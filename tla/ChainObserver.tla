---------------------------- MODULE ChainObserver ----------------------------
(***************************************************************************)
(* crates/chain-observer: what three independent providers say of the      *)
(* chain and the wallet counts only when all of them agree on the          *)
(* finalized block; a reorganization before finality takes the agreement   *)
(* away until a complete new one recovers it; isolated fixtures show the   *)
(* failures; the report covers all ten scenarios.                          *)
(*                                                                         *)
(* A transaction that is finalized in one agreement may be pending in the  *)
(* next: only the finalized block is compared.  The report's date is held  *)
(* against the agreement and the plan but not against the recorded clock.  *)
(***************************************************************************)
EXTENDS EngineOwner, FiniteSetsExt

CONSTANTS Commands, Policy

\* The policy, the commands and what they carry, by the fields that the engine reads.
IsPolicy ==
    DOMAIN Policy = {"reportAge", "planAge", "observationAge", "headLag", "tokens",
                     "transactions"}

IsProvider(v) == DOMAIN v = {"inert", "endpoint", "region"}

IsWallet(v) == DOMAIN v = {"tokens", "transactions", "collateral", "allowance"}

IsSnapshot(v) ==
    /\ DOMAIN v = {"finalized", "observed", "head", "hash", "wallet", "bound",
                   "finalizedHash"}
    /\ IsWallet(v.wallet)

IsFrame(v) ==
    /\ DOMAIN v = {"id", "finalized", "observed", "hash", "wallet", "snapshots"}
    /\ IsWallet(v.wallet)
    /\ \A p \in DOMAIN v.snapshots : IsSnapshot(v.snapshots[p])

IsFixture(v) == DOMAIN v = {"id", "disposition", "isolated", "scenario"}

IsPlan(v) ==
    /\ DOMAIN v = {"expires", "created", "scenarios", "venue", "providers"}
    /\ \A p \in DOMAIN v.providers : IsProvider(v.providers[p])

IsCommand(c) ==
    \/ Variant(c, {"Register"}, {"plan"}) /\ IsPlan(c.plan)
    \/ Variant(c, {"ObserveAgreement"}, {"frame"}) /\ IsFrame(c.frame)
    \/ Variant(c, {"ObserveReorg"}, {"block", "requirement", "old", "new"})
    \/ Variant(c, {"Recover"}, {"inert", "frame", "requirement"}) /\ IsFrame(c.frame)
    \/ Variant(c, {"RecordFailure"}, {"fixture"}) /\ IsFixture(c.fixture)
    \/ Variant(c, {"Finalize"}, {"when"})

Providers == {"Primary", "Secondary", "Archive"}
Scenarios == {"ProviderAgreement", "HeadAdvance", "FinalityAdvance", "ReorgBeforeFinality",
              "ProviderDisagreement", "StaleHead", "ChainMismatch", "BalanceChange",
              "AllowanceChange", "TransactionLifecycle"}

ValidPolicy == \A f \in DOMAIN Policy : Policy[f] > 0

\* `frame': the current agreement; `recovery': what the reorganization asks for.
Initial == [plan |-> {}, frame |-> {}, recovery |-> {}, covered |-> {}, frames |-> {},
            fixtures |-> {}, report |-> {}]

ValidUpstream(r, at) ==
    r.certified /\ r.inert /\ r.finalized <= at /\ at - r.finalized <= Policy.reportAge

\* `inert': a provider is read-only, holds no credential and serves the plan's chain.
\* Neighbours in the order of the providers differ in endpoint and region.
ValidPlan(plan, at) ==
    /\ plan.scenarios = Scenarios /\ DOMAIN plan.providers = Providers
    /\ plan.created <= at /\ at <= plan.expires
    /\ plan.expires - plan.created <= Policy.planAge
    /\ \A p \in Providers : plan.providers[p].inert
    /\ \A pair \in {<<"Primary", "Secondary">>, <<"Secondary", "Archive">>} :
           /\ plan.providers[pair[1]].endpoint # plan.providers[pair[2]].endpoint
           /\ plan.providers[pair[1]].region # plan.providers[pair[2]].region

CanRegister(c) ==
    /\ c.op = "Register" /\ state.plan = {}
    /\ ValidUpstream(c.plan.venue, c.at) /\ ValidPlan(c.plan, c.at)

Register(c) ==
    /\ CanRegister(c)
    /\ state' = [state EXCEPT !.plan = {c.plan}]
    /\ Decide(c, "Registered")

-----------------------------------------------------------------------------
(***************************************************************************)
(* Agreement.  A frame says what all providers agree on and what each saw. *)
(***************************************************************************)
ValidTransaction(t, finalized) ==
    CASE t.status = "Pending" -> t.block = 0
      [] t.status = "Mined" -> t.block > finalized
      [] t.status = "Finalized" -> t.block \in 1..finalized
      [] t.status = "Failed" -> TRUE

ValidWallet(w, finalized) ==
    /\ w.collateral >= 0 /\ w.allowance >= 0
    /\ Cardinality(DOMAIN w.tokens) <= Policy.tokens /\ \A t \in DOMAIN w.tokens : w.tokens[t] >= 0
    /\ Cardinality(DOMAIN w.transactions) <= Policy.transactions
    /\ \A t \in DOMAIN w.transactions : ValidTransaction(w.transactions[t], finalized)

Fresh(observed, at) == observed <= at /\ at - observed <= Policy.observationAge

\* `bound': under the provider's contract, on the plan's chain.
ValidSnapshot(s, f, at) ==
    /\ s.bound /\ s.head >= s.finalized /\ s.head - s.finalized <= Policy.headLag
    /\ s.finalized = f.finalized /\ s.finalizedHash = f.hash /\ s.wallet = f.wallet
    /\ Fresh(s.observed, at) /\ ValidWallet(s.wallet, s.finalized)

ValidFrame(f, at) ==
    /\ state.plan # {} /\ Fresh(f.observed, at) /\ DOMAIN f.snapshots = Providers
    /\ \A p \in Providers : ValidSnapshot(f.snapshots[p], f, at)

\* validate_finalized_successor, and the same comparison of a recovery.
Succeeds(f, finalized, hash) ==
    f.finalized >= finalized /\ (f.finalized = finalized => f.hash = hash)

MinimumHead(f) == Min({f.snapshots[p].head : p \in Providers})

CanObserveAgreement(c) ==
    /\ c.op = "ObserveAgreement" /\ state.recovery = {} /\ c.frame.id \notin state.frames
    /\ ValidFrame(c.frame, c.at)
    /\ \A prior \in state.frame : Succeeds(c.frame, prior.finalized, prior.hash)

\* What the next agreement shows of the one before it.
Shown(prior, f) ==
    {s \in {"HeadAdvance", "FinalityAdvance", "BalanceChange", "AllowanceChange",
            "TransactionLifecycle"} :
        CASE s = "HeadAdvance" -> MinimumHead(f) > MinimumHead(prior)
          [] s = "FinalityAdvance" -> f.finalized > prior.finalized
          [] s = "BalanceChange" -> f.wallet.collateral # prior.wallet.collateral
          [] s = "AllowanceChange" -> f.wallet.allowance # prior.wallet.allowance
          [] s = "TransactionLifecycle" -> f.wallet.transactions # prior.wallet.transactions}

ObserveAgreement(c) ==
    /\ CanObserveAgreement(c)
    /\ state' = [state EXCEPT !.frame = {c.frame}, !.frames = @ \cup {c.frame.id},
                              !.covered = @ \cup {"ProviderAgreement"}
                                            \cup UNION {Shown(prior, c.frame) : prior \in state.frame}]
    /\ Decide(c, "AgreementAccepted")

-----------------------------------------------------------------------------
(***************************************************************************)
(* Reorganization                                                          *)
(***************************************************************************)
CanObserveReorg(c) ==
    /\ c.op = "ObserveReorg" /\ c.old # c.new
    /\ \E prior \in state.frame : /\ c.block > prior.finalized
                                  /\ \E p \in Providers : prior.snapshots[p].hash = c.old

Requirement(c, prior) ==
    [id |-> c.requirement, prior |-> prior.id, finalized |-> prior.finalized, hash |-> prior.hash,
     old |-> c.old, new |-> c.new, block |-> c.block]

ObserveReorg(c) ==
    /\ CanObserveReorg(c)
    /\ state' = [state EXCEPT !.frame = {}, !.covered = @ \cup {"ReorgBeforeFinality"},
                              !.recovery = {Requirement(c, prior) : prior \in state.frame}]
    /\ Decide(c, "RecoveryRequired")

\* Wrong variant, for mutation only: only the height of the finalized block counts.
CanRecoverAtHeight(c) ==
    /\ c.op = "Recover" /\ c.inert /\ c.frame.id \notin state.frames
    /\ c.requirement \in state.recovery /\ ValidFrame(c.frame, c.at)
    /\ c.frame.finalized >= c.requirement.finalized

CanRecover(c) ==
    /\ c.op = "Recover" /\ c.inert /\ c.frame.id \notin state.frames
    /\ c.requirement \in state.recovery /\ ValidFrame(c.frame, c.at)
    /\ Succeeds(c.frame, c.requirement.finalized, c.requirement.hash)

\* A recovery shows no scenario: what changed meanwhile is not compared.
Recover(c) ==
    /\ CanRecover(c)
    /\ state' = [state EXCEPT !.frame = {c.frame}, !.frames = @ \cup {c.frame.id}, !.recovery = {}]
    /\ Decide(c, "Recovered")

-----------------------------------------------------------------------------
CanRecordFailure(c) ==
    /\ c.op = "RecordFailure" /\ c.fixture.isolated /\ c.fixture.id \notin state.fixtures
    /\ <<c.fixture.scenario, c.fixture.disposition>> \in
           {<<"ProviderDisagreement", "Halt">>, <<"ChainMismatch", "Halt">>, <<"StaleHead", "Deny">>}

RecordFailure(c) ==
    /\ CanRecordFailure(c)
    /\ state' = [state EXCEPT !.fixtures = @ \cup {c.fixture.id},
                              !.covered = @ \cup {c.fixture.scenario}]
    /\ Decide(c, "FailureRecorded")

CanFinalize(c) ==
    /\ c.op = "Finalize" /\ state.recovery = {}
    /\ \E plan \in state.plan, frame \in state.frame :
           /\ c.when \in frame.observed..plan.expires /\ ValidFrame(frame, c.when)
           /\ plan.scenarios \subseteq state.covered

Finalize(c) ==
    /\ CanFinalize(c)
    /\ state' = [state EXCEPT !.report = {[final |-> frame.id, finalized |-> frame.finalized,
                                           covered |-> state.covered, when |-> c.when]
                                              : frame \in state.frame}]
    /\ Decide(c, "Finalized")

Possible(c) ==
    /\ state.report = {}
    /\ \/ CanRegister(c) \/ CanObserveAgreement(c) \/ CanObserveReorg(c) \/ CanRecover(c)
       \/ CanRecordFailure(c) \/ CanFinalize(c)

Handler(c) ==
    /\ state.report = {}
    /\ \/ Register(c) \/ ObserveAgreement(c) \/ ObserveReorg(c) \/ Recover(c)
       \/ RecordFailure(c) \/ Finalize(c)

Apply(c) == ApplyClockFirst(c, Possible(c), Handler(c))

-----------------------------------------------------------------------------
(***************************************************************************)
(* durable.rs and report.rs                                                *)
(***************************************************************************)
Init == ValidPolicy /\ OwnerInit(Initial)

Journal(c) == JournalCommand(c, TRUE, Possible(c))
Install == InstallCommand(Apply(Last(log)))
Recovery == RecoverWith(Apply(log[cursor + 1]), Initial)
WriteCheckpoint == SaveCheckpoint
WriteReport == SaveReport(state.report)

Next ==
    \/ \E c \in Commands : Journal(c)
    \/ Install \/ SyncFails \/ Crash \/ Recovery \/ WriteCheckpoint \/ WriteReport

-----------------------------------------------------------------------------
\* Finalized history is only ever extended: over all the agreements that were accepted,
\* the ones that recovered from a reorganization included, the finalized height never
\* falls and one height has one hash; the report names the highest of them.
FinalityIsFinal ==
    LET accepted == Decided("ObserveAgreement", "AgreementAccepted")
                        \cup Decided("Recover", "Recovered")
    IN  /\ \A c, d \in accepted : c.at < d.at => Succeeds(d.frame, c.frame.finalized, c.frame.hash)
        /\ \A r \in state.report : \A c \in accepted : c.frame.finalized <= r.finalized
=============================================================================
