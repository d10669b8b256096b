------------------------------ MODULE Services ------------------------------
(***************************************************************************)
(* Seven parts of the relay that share no state, side by side: fee         *)
(* estimates, the two throttles, sponsor status, settlement health,        *)
(* statistics, the turns of the alarm's sweep and the sender nonce cache.  *)
(* The first state picks the part that runs, the others keep their initial *)
(* state.                                                                  *)
(***************************************************************************)
EXTENDS Integers, FiniteSets

CONSTANTS
    Callers, Admins, Values, Updates, Default, Infinity,    \* FeeEstimates
    Limit, RateWindow, Threshold, BlockWindow, MaxClock, MaxPerTick, \* Throttles
    FreshFor, ExpiredAfter, ConflictFor, HealFor, MaxTime,  \* SponsorStatus
    Probes, HistoryLimit, Recent,                           \* HealthChecks
    Entries, Endpoints, Tokens, DayHours, MaxHour, MaxEntries, \* Statistics
    SenderCount, MaxSweep,                                  \* HandTurns
    Submissions, Hooks, MaxNonce,                           \* SenderNonces
    None

VARIABLES
    part,
    config, cache, limited, caller, admin,                  \* FeeEstimates
    clock, bucket, strikes, accepted, malformed, blocked,    \* Throttles
    time, headroom, gapAt, syncAt, snapshot, pending, roomAt, \* SponsorStatus
    latest, history, probe, ended,                          \* HealthChecks
    hour, daily, hourly, told,                              \* Statistics
    waiting, cursor, tick,                                  \* HandTurns
    known, inFlight, sub, hook, broadcast, executed         \* SenderNonces

feeVars == <<config, cache, limited, caller, admin>>
throttleVars == <<clock, bucket, strikes, accepted, malformed, blocked>>
statusVars == <<time, headroom, gapAt, syncAt, snapshot, pending, roomAt>>
healthVars == <<latest, history, probe, ended>>
statVars == <<hour, daily, hourly, told>>
turnVars == <<waiting, cursor, tick>>
nonceVars == <<known, inFlight, sub, hook, broadcast, executed>>
vars == <<part, feeVars, throttleVars, statusVars, healthVars, statVars, turnVars, nonceVars>>

Fees == INSTANCE FeeEstimates
Throttle == INSTANCE Throttles WITH now <- clock, Window <- RateWindow, MaxTime <- MaxClock
Status == INSTANCE SponsorStatus WITH now <- time
Health == INSTANCE HealthChecks
Stats == INSTANCE Statistics WITH now <- hour
Turns == INSTANCE HandTurns
Sender == INSTANCE SenderNonces

(***************************************************************************)
(* What the code's constants and inputs are.                               *)
(***************************************************************************)
\* Hiro quotes natural numbers, clamps and updates are made of them; a floor
\* too large for a number is above every ceiling and never gets through.
ASSUME FeesAssumption ==
    /\ Values \subseteq Nat
    /\ Default \in [floor : Nat, ceiling : Nat]
    /\ Updates \subseteq [floor : Nat \cup {None}, ceiling : Nat \cup {None, Infinity}]
    /\ Infinity \notin Nat \cup {None}

\* A request is let through at all; windows are lengths of time.
ASSUME ThrottleAssumption ==
    /\ Limit \in Nat \ {0} /\ Threshold \in Nat
    /\ RateWindow \in Nat /\ BlockWindow \in Nat /\ MaxClock \in Nat

ASSUME StatusAssumption ==
    /\ FreshFor \in Nat /\ ExpiredAfter \in Nat /\ ConflictFor \in Nat /\ HealFor \in Nat
    /\ MaxTime \in Nat

\* The history is long enough for the checks the status is drawn from.
ASSUME HealthAssumption == HistoryLimit \in Nat /\ Recent \in 1..HistoryLimit

\* What callers post: only logFailure calls an error the client's.
ASSUME StatsAssumption ==
    /\ IsFiniteSet(Endpoints) /\ IsFiniteSet(Tokens)
    /\ Entries \subseteq [endpoint : Endpoints, token : Tokens, success : BOOLEAN,
                          clientError : BOOLEAN, fee : Nat \cup {None}]
    /\ \A e \in Entries : e.clientError => ~e.success
    /\ DayHours \in Nat \ {0} /\ MaxHour \in Nat /\ MaxEntries \in Nat

ASSUME NonceAssumption == MaxNonce \in Nat

\* None is no number and no entry of the throttles' maps or of the nonce cache.
ASSUME NoneAssumption ==
    /\ None \notin Nat /\ None \notin [seen : Int, confirmed : Int]
    /\ None \notin [count : Nat, resetAt : Nat] /\ None \notin [count : Nat, firstSeen : Nat]

Init ==
    /\ part \in {"fees", "throttles", "status", "health", "statistics", "turns", "nonces"}
    /\ Fees!Init /\ Throttle!Init /\ Status!Init /\ Health!Init /\ Stats!Init /\ Turns!Init
    /\ Sender!Init
    /\ part # "status" => headroom = 0

InFees == part = "fees" /\ UNCHANGED <<part, throttleVars, statusVars, healthVars, statVars,
                                      turnVars, nonceVars>>
InThrottles == part = "throttles" /\ UNCHANGED <<part, feeVars, statusVars, healthVars, statVars,
                                                turnVars, nonceVars>>
InStatus == part = "status" /\ UNCHANGED <<part, feeVars, throttleVars, healthVars, statVars,
                                          turnVars, nonceVars>>
InHealth == part = "health" /\ UNCHANGED <<part, feeVars, throttleVars, statusVars, statVars,
                                          turnVars, nonceVars>>
InStatistics == part = "statistics" /\ UNCHANGED <<part, feeVars, throttleVars, statusVars,
                                                  healthVars, turnVars, nonceVars>>
InTurns == part = "turns" /\ UNCHANGED <<part, feeVars, throttleVars, statusVars, healthVars,
                                        statVars, nonceVars>>
InNonces == part = "nonces" /\ UNCHANGED <<part, feeVars, throttleVars, statusVars, healthVars,
                                          statVars, turnVars>>

Next ==
    \/ InFees /\ Fees!Next
    \/ InThrottles /\ Throttle!Next
    \/ InStatus /\ Status!Next
    \/ InHealth /\ Health!Next
    \/ InStatistics /\ Stats!Next
    \/ InTurns /\ Turns!Next
    \/ InNonces /\ Sender!Next

\* The fairness of FeeEstimates and of HandTurns.
Spec ==
    /\ Init /\ [][Next]_vars
    /\ WF_vars(InFees /\ Fees!CacheExpires)
    /\ \A f \in Callers : WF_vars(InFees /\ \E b \in BOOLEAN : Fees!PutCache(f, b))
    /\ WF_vars(InTurns /\ Turns!Alarm)

(***************************************************************************)
(* Properties, each stated in the module of its part.                      *)
(***************************************************************************)
\* Every variable has its type.
TypeOK ==
    /\ Fees!TypeOK /\ Throttle!TypeOK /\ Status!TypeOK /\ Health!TypeOK /\ Stats!TypeOK
    /\ Sender!TypeOK

\* A stored clamp configuration that getClampConfig throws away has a ceiling
\* of null, which was sent as a number beyond the doubles.
StoredIsValid == Fees!StoredIsValid

\* Cached estimates come to respect the clamps in force.
ClampsTakeEffect == Fees!ClampsTakeEffect

\* At most twice the limit gets through in a stretch as long as the window.
TwiceTheLimitAtMost == Throttle!TwiceTheLimitAtMost

\* An address is blocked only for malformed payloads of the last window.
BlockedForRecent == Throttle!BlockedForRecent

\* canSponsor is wrong for FreshFor at most.
CanSponsorIsBacked == Status!CanSponsorIsBacked

\* The health status is what the last checks say, when each ran alone.
StatusFollowsChecks == Health!StatusFollowsChecks

\* The overview counts all that was posted in its two windows.
OverviewCountsAll == Stats!OverviewCountsAll

\* Each day's breakdowns agree with its total.
BreakdownsAddUp == Stats!BreakdownsAddUp

\* Every waiting sender gets its turn in the alarm's sweep.
GoesRoundUnaligned == Turns!GoesRoundUnaligned

\* A submission is turned away for its nonce only for what is so on the chain.
RefusalsTruthful == Sender!RefusalsTruthful
=============================================================================
