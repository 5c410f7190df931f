-------------------------- MODULE ShadowAuthSession --------------------------
(***************************************************************************)
(* crates/shadow-auth-session: exclusive expiring leases on a recorded     *)
(* authenticated session, heartbeats, the dead-man check, restarts and     *)
(* ambiguities that revoke the lease until recovery evidence is recorded,  *)
(* and the report that is final once every scenario was exercised.         *)
(*                                                                         *)
(* A digest is the value it seals.  `inert' stands for the flags that must *)
(* say that the evidence was only recorded: no credential, no signature,   *)
(* no provider, socket or submission.                                      *)
(***************************************************************************)
EXTENDS EngineOwner, FiniteSets

CONSTANTS Commands, Policy

\* The policy, the commands and what they carry, by the fields that the engine reads.
IsPolicy ==
    DOMAIN Policy = {"gatewayAge", "planLife", "attestationLife", "leaseLife",
                     "heartbeatAge", "rotations"}

IsAttestation(v) ==
    DOMAIN v = {"id", "inert", "epoch", "predecessor", "gateway", "observed", "until"}

IsPlan(v) ==
    /\ DOMAIN v = {"gateway", "expires", "created", "scenarios", "attestation"}
    /\ IsAttestation(v.attestation)

IsCommand(c) ==
    \/ Variant(c, {"Register"}, {"plan"}) /\ IsPlan(c.plan)
    \/ Variant(c, {"OpenLease"}, {"when", "lease", "expires"})
    \/ Variant(c, {"Heartbeat"}, {"inert", "when", "lease", "beats", "beat", "sequence",
                                  "healthy"})
    \/ Variant(c, {"CloseLease"}, {"when", "lease", "beats"})
    \/ Variant(c, {"RotateAttestation"}, {"attestation"}) /\ IsAttestation(c.attestation)
    \/ Variant(c, {"EvaluateDeadMan", "Finalize"}, {"when"})
    \/ Variant(c, {"Restart"}, {"when", "restart"})
    \/ Variant(c, {"ObserveAmbiguity"}, {"when", "lease", "beats", "ambiguity"})
    \/ Variant(c, {"Recover"}, {"inert", "when", "reason", "trigger", "recovery"})

Scenarios == {"CleanClose", "AttestationRotation", "DeadManExpiry", "RestartRevocation",
              "AmbiguityRecovery"}

ValidPolicy == \A f \in DOMAIN Policy : Policy[f] > 0

Initial == [plan |-> {}, attestation |-> {}, lease |-> {}, recovery |-> {}, used |-> {},
            covered |-> {}, opened |-> 0, rotations |-> 0, recoveries |-> 0, report |-> {}]

ValidUpstream(gateway, at) ==
    /\ gateway.certified /\ gateway.rejected = 0 /\ gateway.inert
    /\ at - gateway.finalized <= Policy.gatewayAge

\* valid_attestation_common.
ValidAttestation(a, plan) ==
    /\ a.gateway = plan.gateway /\ a.inert
    /\ a.observed >= plan.created /\ a.until > a.observed /\ a.until <= plan.expires
    /\ a.until <= plan.gateway.finalized + Policy.gatewayAge
    /\ a.until - a.observed <= Policy.attestationLife

ValidPlan(plan, at) ==
    /\ plan.scenarios = Scenarios
    /\ plan.created >= plan.gateway.finalized /\ plan.created <= at
    /\ plan.expires > plan.created /\ plan.expires - plan.created <= Policy.planLife
    /\ plan.attestation.epoch = 0 /\ ValidAttestation(plan.attestation, plan)

CanRegister(c) ==
    /\ c.op = "Register" /\ state.plan = {}
    /\ ValidUpstream(c.plan.gateway, c.at) /\ ValidPlan(c.plan, c.at)

Register(c) ==
    /\ CanRegister(c)
    /\ state' = [state EXCEPT !.plan = {c.plan}, !.attestation = {c.plan.attestation},
                              !.used = @ \cup {c.plan.attestation.id}]
    /\ Decide(c, "Registered")

\* Wrong variant, for mutation only: an outstanding recovery is not looked at.
CanOpenLeaseUnrecovered(c) ==
    /\ c.op = "OpenLease" /\ state.lease = {} /\ c.lease \notin state.used
    /\ \E plan \in state.plan, a \in state.attestation :
           /\ ValidUpstream(plan.gateway, c.when)
           /\ c.when <= c.at /\ c.when >= a.observed /\ c.when <= a.until
           /\ c.expires > c.when /\ c.expires <= c.when + Policy.leaseLife
           /\ c.expires <= a.until /\ c.expires <= plan.expires

CanOpenLease(c) ==
    /\ c.op = "OpenLease" /\ state.lease = {} /\ state.recovery = {}
    /\ c.lease \notin state.used
    /\ \E plan \in state.plan, a \in state.attestation :
           /\ ValidUpstream(plan.gateway, c.when)
           /\ c.when <= c.at /\ c.when >= a.observed /\ c.when <= a.until
           /\ c.expires > c.when /\ c.expires <= c.when + Policy.leaseLife
           /\ c.expires <= a.until /\ c.expires <= plan.expires

Lease(c, a) == [id |-> c.lease, attestation |-> a.epoch, opened |-> c.when, expires |-> c.expires,
                beats |-> 0, last |-> c.when]

OpenLease(c) ==
    /\ CanOpenLease(c)
    /\ state' = [state EXCEPT !.lease = {Lease(c, a) : a \in state.attestation},
                              !.used = @ \cup {c.lease}, !.opened = @ + 1]
    /\ Decide(c, "LeaseOpened")

\* revoke_for_recovery: the lease is gone and a requirement stands.
Revoked(reason, trigger, when) ==
    [state EXCEPT !.lease = {},
                  !.recovery = {[reason |-> reason, lease |-> l, trigger |-> trigger, when |-> when]
                                : l \in state.lease}]

\* A heartbeat and an ambiguity name the lease as the caller last saw it.
Holds(c) == \E l \in state.lease : l.id = c.lease /\ l.beats = c.beats

CanHeartbeat(c) ==
    /\ c.op = "Heartbeat" /\ Holds(c) /\ c.inert /\ c.beat \notin state.used
    /\ \E l \in state.lease : /\ c.sequence = l.beats + 1
                              /\ c.when > l.last /\ c.when <= l.expires /\ c.when <= c.at

Heartbeat(c) ==
    /\ CanHeartbeat(c)
    /\ IF c.healthy
       THEN /\ state' = [state EXCEPT !.used = @ \cup {c.beat},
                             !.lease = {[l EXCEPT !.beats = c.sequence, !.last = c.when] : l \in @}]
            /\ Decide(c, "HeartbeatAccepted")
       ELSE /\ state' = [Revoked("Unhealthy", c.beat, c.when) EXCEPT !.used = @ \cup {c.beat}]
            /\ Decide(c, "LeaseRevoked")

CanCloseLease(c) ==
    /\ c.op = "CloseLease" /\ Holds(c) /\ state.recovery = {}
    /\ \E l \in state.lease : c.when >= l.last /\ c.when <= l.expires /\ c.when <= c.at

CloseLease(c) ==
    /\ CanCloseLease(c)
    /\ state' = [state EXCEPT !.lease = {}, !.covered = @ \cup {"CleanClose"}]
    /\ Decide(c, "LeaseClosed")

CanRotate(c) ==
    /\ c.op = "RotateAttestation" /\ state.lease = {} /\ state.recovery = {}
    /\ state.rotations < Policy.rotations /\ c.attestation.id \notin state.used
    /\ \E plan \in state.plan, a \in state.attestation :
           /\ ValidUpstream(plan.gateway, c.at)
           /\ c.attestation.epoch = a.epoch + 1 /\ c.attestation.predecessor = a.id
           /\ c.attestation.observed >= a.observed /\ c.attestation.observed <= c.at
           /\ ValidAttestation(c.attestation, plan)

RotateAttestation(c) ==
    /\ CanRotate(c)
    /\ state' = [state EXCEPT !.attestation = {c.attestation}, !.rotations = @ + 1,
                              !.used = @ \cup {c.attestation.id},
                              !.covered = @ \cup {"AttestationRotation"}]
    /\ Decide(c, "AttestationRotated")

CanEvaluateDeadMan(c) ==
    /\ c.op = "EvaluateDeadMan" /\ c.when <= c.at
    /\ \E l \in state.lease : c.when > l.last + Policy.heartbeatAge \/ c.when > l.expires

EvaluateDeadMan(c) ==
    /\ CanEvaluateDeadMan(c)
    /\ state' = [Revoked("DeadMan", c.when, c.when) EXCEPT !.covered = @ \cup {"DeadManExpiry"}]
    /\ Decide(c, "LeaseRevoked")

CanRestart(c) ==
    /\ c.op = "Restart" /\ state.recovery = {} /\ c.restart \notin state.used
    /\ c.when <= c.at /\ \E l \in state.lease : c.when >= l.last

Restart(c) ==
    /\ CanRestart(c)
    /\ state' = [Revoked("Restart", c.restart, c.when) EXCEPT
                     !.used = @ \cup {c.restart}, !.covered = @ \cup {"RestartRevocation"}]
    /\ Decide(c, "LeaseRevoked")

CanObserveAmbiguity(c) ==
    /\ c.op = "ObserveAmbiguity" /\ Holds(c) /\ c.ambiguity \notin state.used
    /\ c.when <= c.at /\ \E l \in state.lease : c.when >= l.last

ObserveAmbiguity(c) ==
    /\ CanObserveAmbiguity(c)
    /\ state' = [Revoked("Ambiguity", c.ambiguity, c.when) EXCEPT !.used = @ \cup {c.ambiguity}]
    /\ Decide(c, "LeaseRevoked")

\* valid_recovery: evidence for this very requirement, while the attestation is valid.
CanRecover(c) ==
    /\ c.op = "Recover" /\ c.inert /\ c.recovery \notin state.used /\ c.when <= c.at
    /\ \E r \in state.recovery, a \in state.attestation :
           /\ c.reason = r.reason /\ c.trigger = r.trigger /\ c.when >= r.when
           /\ c.when <= a.until

Recover(c) ==
    /\ CanRecover(c)
    /\ state' = [state EXCEPT !.recovery = {}, !.recoveries = @ + 1, !.used = @ \cup {c.recovery},
                     !.covered = @ \cup IF c.reason = "Ambiguity" THEN {"AmbiguityRecovery"} ELSE {}]
    /\ Decide(c, "Recovered")

CanFinalize(c) ==
    /\ c.op = "Finalize" /\ state.lease = {} /\ state.recovery = {}
    /\ \E plan \in state.plan : plan.scenarios \subseteq state.covered /\ c.when >= plan.created
    /\ c.when <= c.at

Finalize(c) ==
    /\ CanFinalize(c)
    /\ state' = [state EXCEPT !.report =
           {[covered |-> state.covered, opened |-> state.opened, rotations |-> state.rotations,
             recoveries |-> state.recoveries, finalized |-> c.when]}]
    /\ Decide(c, "Finalized")

Possible(c) ==
    /\ state.report = {}
    /\ \/ CanRegister(c) \/ CanOpenLease(c) \/ CanHeartbeat(c) \/ CanCloseLease(c) \/ CanRotate(c)
       \/ CanEvaluateDeadMan(c) \/ CanRestart(c) \/ CanObserveAmbiguity(c) \/ CanRecover(c)
       \/ CanFinalize(c)

Handler(c) ==
    /\ state.report = {}
    /\ \/ Register(c) \/ OpenLease(c) \/ Heartbeat(c) \/ CloseLease(c) \/ RotateAttestation(c)
       \/ EvaluateDeadMan(c) \/ Restart(c) \/ ObserveAmbiguity(c) \/ Recover(c) \/ Finalize(c)

Apply(c) == ApplyClockFirst(c, Possible(c), Handler(c))

-----------------------------------------------------------------------------
(***************************************************************************)
(* durable.rs and report.rs                                                *)
(***************************************************************************)
Init == ValidPolicy /\ OwnerInit(Initial)

Journal(c) == JournalCommand(c, TRUE, Possible(c))
Install == InstallCommand(Apply(Last(log)))
Recovery == RecoverWith(Apply(log[cursor + 1]), Initial)
WriteCheckpoint == SaveCheckpoint
WriteReport == SaveReport(state.report)

Next ==
    \/ \E c \in Commands : Journal(c)
    \/ Install \/ SyncFails \/ Crash \/ Recovery \/ WriteCheckpoint \/ WriteReport

-----------------------------------------------------------------------------
\* How often a decision was returned, over the whole history.
Count(status) == Cardinality({p \in processed : p.status = status})

\* The report counts what happened: every lease ever opened was closed or revoked,
\* every revocation was recovered from before the report, and no scenario is covered
\* without the commands that exercise it.
ReportIsEarned ==
    \A r \in state.report :
        /\ r.opened = Count("LeaseClosed") + Count("LeaseRevoked")
        /\ r.recoveries = Count("LeaseRevoked") /\ r.recoveries = Count("Recovered")
        /\ Scenarios = r.covered

\* A lease is exclusive and never comes back: every lease that was opened is the one
\* held, was closed or was revoked, and none is held while a revocation, of a dead
\* man, a restart, an unhealthy heartbeat or an ambiguity, waits for its recovery.
LeaseIsExclusive ==
    /\ Cardinality(state.lease) + Count("LeaseClosed") + Count("LeaseRevoked") = state.opened
    /\ state.lease # {} => state.recovery = {}
=============================================================================
