------------------------------ MODULE Throttles ------------------------------
(***************************************************************************)
(* The two in-memory counters of an isolate: the per-sender limiter of     *)
(* POST /relay (middleware/rate-limit.ts) and the tracker of malformed     *)
(* payloads (middleware/malformed-tracker.ts), here for one sender and one *)
(* address. Both windows start at the first request and do not slide.      *)
(***************************************************************************)
EXTENDS Naturals, FiniteSetsExt, Sums

CONSTANTS
    Limit,          \* RATE_LIMIT
    Window,         \* RATE_WINDOW_MS
    Threshold,      \* MALFORMED_BLOCK_THRESHOLD
    BlockWindow,    \* MALFORMED_BLOCK_WINDOW_MS
    MaxTime,        \* bound: the clock stops
    MaxPerTick,     \* bound: requests of a kind in one tick
    None

VARIABLES
    now,
    bucket,      \* rateLimitMap's entry [count, resetAt], or None
    strikes,     \* trackerMap's entry [count, firstSeen], or None
    accepted,    \* how many requests were let through in each tick
    malformed,   \* how many malformed payloads came in each tick
    blocked      \* the last malformed payload was answered with 429

vars == <<now, bucket, strikes, accepted, malformed, blocked>>

Times == 0..MaxTime

Init ==
    /\ now = 0
    /\ bucket = None
    /\ strikes = None
    /\ accepted = [t \in Times |-> 0]
    /\ malformed = [t \in Times |-> 0]
    /\ blocked = FALSE

Tick ==
    /\ now < MaxTime
    /\ now' = now + 1
    /\ UNCHANGED <<bucket, strikes, accepted, malformed, blocked>>

Fresh == bucket = None \/ now > bucket.resetAt
\* Mutant: one request too many.
FullLate == ~Fresh /\ bucket.count > Limit
Full == ~Fresh /\ bucket.count >= Limit

\* checkRateLimit(sender): a refused request changes nothing.
LetThrough ==
    /\ accepted[now] < MaxPerTick
    /\ ~Full
    /\ bucket' = IF Fresh THEN [count |-> 1, resetAt |-> now + Window]
                          ELSE [bucket EXCEPT !.count = @ + 1]
    /\ accepted' = [accepted EXCEPT ![now] = @ + 1]
    /\ UNCHANGED <<now, strikes, malformed, blocked>>

\* Mutant: nothing is pruned.
PrunedNever == strikes

\* pruneExpired, which comes first; its cap of tracked addresses is left out.
Pruned == IF strikes # None /\ strikes.firstSeen + BlockWindow < now THEN None ELSE strikes

\* checkAndRecordMalformed(ip).
Malformed ==
    /\ malformed[now] < MaxPerTick
    /\ malformed' = [malformed EXCEPT ![now] = @ + 1]
    /\ strikes' = IF Pruned = None THEN [count |-> 1, firstSeen |-> now]
                                   ELSE [Pruned EXCEPT !.count = @ + 1]
    /\ blocked' = (Pruned # None /\ strikes'.count >= Threshold)
    /\ UNCHANGED <<now, bucket, accepted>>

Next == Tick \/ LetThrough \/ Malformed

Spec == Init /\ [][Next]_vars

\* Every variable has its type.
TypeOK ==
    /\ now \in Times
    /\ bucket # None => bucket.count \in 1..Limit
    /\ strikes # None => strikes.count \in Nat /\ strikes.firstSeen \in 0..now

Between(f, from, to) == SumOf(f, {t \in Times : from <= t /\ t <= to})

\* A sender gets at most twice the limit through in any stretch as long as
\* the window: one full window may end, and the next begin, inside it.
TwiceTheLimitAtMost ==
    \A t \in Times : Between(accepted, t, t + Window) <= 2 * Limit

\* An address is blocked only for Threshold malformed payloads of the last
\* window: what it did before does not count against it.
BlockedForRecent ==
    blocked => LET last == Max({t \in Times : malformed[t] > 0})
               IN Between(malformed, IF last > BlockWindow THEN last - BlockWindow ELSE 0, last)
                  >= Threshold
=============================================================================
