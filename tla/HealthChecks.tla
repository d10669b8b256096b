---------------------------- MODULE HealthChecks ----------------------------
(***************************************************************************)
(* Settlement health: a check of Hiro by the cron handler, or by a         *)
(* dashboard request that finds no history, recorded in KV as the latest   *)
(* check and in a bounded history (services/settlement-health.ts,          *)
(* services/health-monitor.ts). Invocations overlap; any KV call may fail. *)
(***************************************************************************)
EXTENDS Naturals, Sequences, FiniteSets

CONSTANTS
    Probes,        \* invocations of checkHealth; each stands for its check
    HistoryLimit,  \* HEALTH_HISTORY_LIMIT
    Recent,        \* how many checks the status is drawn from
    None

VARIABLES
    latest,    \* <prefix>:health:latest, or None
    history,   \* <prefix>:health:history, newest first
    probe,     \* [at, result, saw, alone] of each invocation
    ended      \* the checks that were recorded, in the order of their end

vars == <<latest, history, probe, ended>>

Results == {"healthy", "degraded", "down"}

Init ==
    /\ latest = None
    /\ history = << >>
    /\ probe = [p \in Probes |-> [at |-> "idle", result |-> None, saw |-> << >>, alone |-> TRUE]]
    /\ ended = << >>

Busy == {"check", "latest", "read", "put"}

\* Whether the invocation ran beside another one is kept for the property.
Begin(p) ==
    LET others == {q \in Probes : probe[q].at \in Busy} IN
    /\ probe[p].at = "idle"
    /\ probe' = [q \in Probes |-> IF q = p THEN [probe[q] EXCEPT !.at = "check", !.alone = others = {}]
                                  ELSE [probe[q] EXCEPT !.alone = @ /\ q \notin others]]
    /\ UNCHANGED <<latest, history, ended>>

\* No wallet, a timeout and a failed request are "down"; an answer is judged
\* by its status and latency (determineCheckStatus).
Check(p, result) ==
    /\ probe[p].at = "check"
    /\ probe' = [probe EXCEPT ![p].at = "latest", ![p].result = result]
    /\ UNCHANGED <<latest, history, ended>>

PutLatest(p) ==
    /\ probe[p].at = "latest"
    /\ latest' = p
    /\ probe' = [probe EXCEPT ![p].at = "read"]
    /\ UNCHANGED <<history, ended>>

ReadHistory(p) ==
    /\ probe[p].at = "read"
    /\ probe' = [probe EXCEPT ![p].at = "put", ![p].saw = history]
    /\ UNCHANGED <<latest, history, ended>>

\* Mutants: the history is never cut, or cut one check early.
NewestUncut(p, saw) == <<p>> \o saw
NewestTooShort(p, saw) ==
    LET checks == <<p>> \o saw
    IN IF Len(checks) >= HistoryLimit THEN SubSeq(checks, 1, Len(checks) - 1) ELSE checks

\* unshift, and pop when the history is too long.
Newest(p, saw) ==
    LET checks == <<p>> \o saw
    IN IF Len(checks) > HistoryLimit THEN SubSeq(checks, 1, HistoryLimit) ELSE checks

PutHistory(p) ==
    /\ probe[p].at = "put"
    /\ history' = Newest(p, probe[p].saw)
    /\ probe' = [probe EXCEPT ![p].at = "done", ![p].saw = << >>]
    /\ ended' = Append(ended, p)
    /\ UNCHANGED latest

\* A KV call fails (it is logged), or the invocation is gone.
Stops(p) ==
    /\ probe[p].at \in Busy
    /\ probe' = [probe EXCEPT ![p].at = "stopped", ![p].saw = << >>]
    /\ UNCHANGED <<latest, history, ended>>

Next ==
    \E p \in Probes :
        \/ Begin(p) \/ PutLatest(p) \/ ReadHistory(p) \/ PutHistory(p) \/ Stops(p)
        \/ \E result \in Results : Check(p, result)

Spec == Init /\ [][Next]_vars

(***************************************************************************)
(* getStatus: the latest check beside the status of the recent ones.       *)
(***************************************************************************)
Status ==
    LET n == IF Len(history) < Recent THEN Len(history) ELSE Recent
        healthy == {i \in 1..n : probe[history[i]].result = "healthy"}
    IN IF n = 0 THEN "unknown"
       ELSE IF Cardinality(healthy) = n THEN "healthy"
       ELSE IF healthy = {} THEN "down"
       ELSE "degraded"

\* Every variable has its type.
TypeOK ==
    /\ latest \in Probes \cup {None}
    /\ history \in Seq(Probes) /\ Len(history) <= HistoryLimit
    /\ \A p \in Probes : /\ probe[p].at \in Busy \cup {"idle", "done", "stopped"}
                         /\ probe[p].result \in Results \cup {None}

LastEnded == {ended[i] : i \in {j \in 1..Len(ended) : j + Recent > Len(ended)}}

\* The status is what the last Recent checks say that ended, when each of
\* them ran alone: "healthy" if and only if all were, "down" if and only if
\* none was. Overlapping checks overwrite each other's history, and what was
\* lost so earlier, or stopped half-way, does not show.
StatusFollowsChecks ==
    Len(ended) >= Recent /\ (\A p \in LastEnded : probe[p].alone) =>
        /\ Status = "healthy" <=> \A p \in LastEnded : probe[p].result = "healthy"
        /\ Status = "down" <=> \A p \in LastEnded : probe[p].result # "healthy"
=============================================================================
