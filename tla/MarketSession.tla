---------------------------- MODULE MarketSession ----------------------------
(***************************************************************************)
(* The coordinator of hourly market sessions, crates/market-session, with  *)
(* the resolution contract and oracle of crates/resolution-rules that      *)
(* every session holds.                                                    *)
(*                                                                         *)
(* A market identity is its slot (asset and hour), its condition and       *)
(* whether ResolutionContract::bind accepts it: a series, source, rule     *)
(* text and window of exactly one aligned hour.  Every reason belongs to   *)
(* one phase, so a session keeps the reason.                               *)
(***************************************************************************)
EXTENDS Integers

CONSTANTS
    Assets,       \* an asset, and the reference symbol it settles by
    Hours,        \* the hours a market may be about
    Conditions,
    HourTicks     \* clock ticks in an hour

ASSUME HoursAssumption == Hours \subseteq Nat
ASSUME HourTicksAssumption == HourTicks \in Nat \ {0}

\* An hourly candle of reference-market-data: the hour it covers and the outcome its
\* open and close give, Up when the close is not below the open.
Outcomes == {"Up", "Down"}
Candle == [hour : Hours, outcome : Outcomes]
NoCandle == [hour |-> 0, outcome |-> "None"]

Identity == [asset : Assets, hour : Hours, condition : Conditions, valid : BOOLEAN]

Reasons == {"BeforeWindow", "SupervisorNotReady", "OutcomeBooksUnavailable",
            "OracleCandleUnavailable", "Ready", "WindowEnded", "FinalEvidenceAvailable"}
SessionRecord ==
    [identity : Identity, reason : Reasons, indicative : Outcomes \cup {"None"},
     evidence : Candle \cup {NoCandle}]
HaltReasons == {"None", "ConflictingSlot", "IdentityConflict", "InvalidContract",
                "ClockRegression", "Provenance", "SessionSet", "Resolution"}

VARIABLES
    sessions,    \* a function on the slots registered
    lastNow,     \* the time of the last frame applied, -1 before one
    haltReason

sessionVars == <<sessions, lastNow, haltReason>>

Slot(i) == <<i.asset, i.hour>>
Slots == Assets \X Hours

SessionTypeOK ==
    /\ DOMAIN sessions \subseteq Slots
    /\ \A k \in DOMAIN sessions : sessions[k] \in SessionRecord /\ Slot(sessions[k].identity) = k
    /\ lastNow \in Nat \cup {-1}
    /\ haltReason \in HaltReasons

SessionInit ==
    /\ sessions = [k \in {} |-> {}]
    /\ lastNow = -1
    /\ haltReason = "None"

-----------------------------------------------------------------------------
(***************************************************************************)
(* register                                                                *)
(***************************************************************************)

\* Two identities share a condition, or their windows overlap: windows that bind
\* accepted overlap in one hour only, the slot itself.
IdentityConflict(i) == \E k \in DOMAIN sessions : sessions[k].identity.condition = i.condition

Fresh(i) == [identity |-> i, reason |-> "BeforeWindow", indicative |-> "None",
             evidence |-> NoCandle]

\* Why register halts, or "None"; the slot of an equal identity is left as it is.
RegisterVerdict(i) ==
    CASE Slot(i) \in DOMAIN sessions /\ sessions[Slot(i)].identity # i -> "ConflictingSlot"
      [] Slot(i) \notin DOMAIN sessions /\ IdentityConflict(i) -> "IdentityConflict"
      [] Slot(i) \notin DOMAIN sessions /\ ~IdentityConflict(i) /\ ~i.valid -> "InvalidContract"
      [] OTHER -> "None"

Register(i) ==
    /\ haltReason = "None"
    /\ haltReason' = RegisterVerdict(i)
    /\ \/ haltReason' # "None" /\ UNCHANGED sessions
       \/ /\ haltReason' = "None"
          /\ sessions' = [k \in DOMAIN sessions \cup {Slot(i)} |->
                             IF k \in DOMAIN sessions THEN sessions[k] ELSE Fresh(i)]
    /\ UNCHANGED lastNow

-----------------------------------------------------------------------------
(***************************************************************************)
(* evaluate                                                                *)
(*                                                                         *)
(* A frame has the time, whether the supervisor judged these very feeds at *)
(* this time (provenance) and found them ready, and for every session the  *)
(* authority of its two books and the candles of the reference feed.       *)
(***************************************************************************)

Started(r, now) == r.identity.hour * HourTicks <= now

Ended(r, now) == (r.identity.hour + 1) * HourTicks <= now

Active(r, now) == Started(r, now) /\ ~Ended(r, now)

\* validate_candle; the symbol is the one of the contract by construction.
ValidCandle(r, candle) == candle.hour = r.identity.hour

\* What assess and finalize accept.
CanStep(r, source, now) ==
    /\ Active(r, now) /\ source.inProgress # NoCandle => ValidCandle(r, source.inProgress)
    /\ Ended(r, now) /\ source.finalized # NoCandle =>
          /\ ValidCandle(r, source.finalized)
          /\ r.evidence \in {NoCandle, source.finalized}

\* evaluate_active
ActiveReason(source, ready) ==
    CASE ~ready -> "SupervisorNotReady"
      [] ready /\ ~source.books -> "OutcomeBooksUnavailable"
      [] ready /\ source.books /\ source.inProgress = NoCandle -> "OracleCandleUnavailable"
      [] OTHER -> "Ready"

Stepped(r, source, ready, now) ==
    CASE ~Started(r, now) -> [r EXCEPT !.reason = "BeforeWindow", !.indicative = "None"]
      [] Active(r, now) -> [r EXCEPT !.reason = ActiveReason(source, ready),
                                     !.indicative = source.inProgress.outcome]
      [] Ended(r, now) ->
            LET evidence == IF source.finalized = NoCandle THEN r.evidence ELSE source.finalized
            IN  [r EXCEPT !.reason = IF evidence = NoCandle
                                     THEN "WindowEnded" ELSE "FinalEvidenceAvailable",
                          !.indicative = "None",
                          !.evidence = evidence]

\* Wrong variant, for mutation only: a frame may be older than the last.
ClockRegressedNever(f) == FALSE

ClockRegressed(f) == f.now < lastNow

\* Why a frame halts the coordinator, or "None".
FrameVerdict(f) ==
    CASE ClockRegressed(f) -> "ClockRegression"
      [] ~ClockRegressed(f) /\ ~f.provenance -> "Provenance"
      [] ~ClockRegressed(f) /\ f.provenance /\ DOMAIN f.sources # DOMAIN sessions -> "SessionSet"
      [] OTHER -> IF \A k \in DOMAIN sessions : CanStep(sessions[k], f.sources[k], f.now)
                  THEN "None" ELSE "Resolution"

Evaluate(f) ==
    /\ haltReason = "None"
    /\ haltReason' = FrameVerdict(f)
    /\ \/ haltReason' # "None" /\ UNCHANGED <<sessions, lastNow>>
       \/ /\ haltReason' = "None"
          /\ sessions' = [k \in DOMAIN sessions |->
                             Stepped(sessions[k], f.sources[k], f.ready, f.now)]
          /\ lastNow' = f.now

\* The order of the phases.
Rank(reason) ==
    CASE reason = "BeforeWindow" -> 0
      [] reason = "WindowEnded" -> 2
      [] reason = "FinalEvidenceAvailable" -> 3
      [] OTHER -> 1
=============================================================================
