---------------------------- MODULE SponsorStatus ----------------------------
(***************************************************************************)
(* GET /sponsor-status: NonceDO keeps a snapshot of its pool, rebuilt after *)
(* most operations that touch it and at the end of an alarm cycle; the     *)
(* answer judges the snapshot by the clock of the moment it is asked        *)
(* (services/sponsor-status.ts, nonce-do.ts, endpoints/sponsor-status.ts).  *)
(* The clock ticks in units of the shortest window.                        *)
(***************************************************************************)
EXTENDS Naturals

CONSTANTS
    FreshFor,      \* SPONSOR_STATUS_SNAPSHOT_FRESH_MS, .._RECONCILIATION_FRESH_MS
    ExpiredAfter,  \* SPONSOR_STATUS_SNAPSHOT_EXPIRED_MS
    ConflictFor,   \* SPONSOR_STATUS_RECENT_CONFLICT_WINDOW_MS
    HealFor,       \* 2 * ALARM_INTERVAL_ACTIVE_MS
    MaxTime,       \* bound: the clock stops
    None

VARIABLES
    now,
    headroom,    \* walletHeadroom summed over the wallets: 0 or some
    gapAt,       \* last_gap_detected, or None
    syncAt,      \* last_hiro_sync, or None
    snapshot,    \* the stored snapshot, or None
    pending,     \* a cycle has reconciled and not yet rebuilt the snapshot
    roomAt       \* when the pool last had room, for the property

vars == <<now, headroom, gapAt, syncAt, snapshot, pending, roomAt>>

Rooms == {0, 1}
RoomSeen(h, t, last) == IF h > 0 THEN t ELSE last

Init ==
    /\ now = 0
    /\ headroom \in Rooms
    /\ gapAt = None
    /\ syncAt = None
    /\ snapshot = None
    /\ pending = FALSE
    /\ roomAt = RoomSeen(headroom, 0, None)

Within(at, age) == at # None /\ now - at <= age

\* buildSponsorStatusSnapshot, of a pool with headroom h and last gap g.
Snapshot(h, g) ==
    LET heals == g # None /\ now - g < HealFor IN
    [asOf |-> now, available |-> h, lastConflictAt |-> g, lastSuccessfulAt |-> syncAt,
     healInProgress |-> heals,
     recommendation |-> IF h = 0 \/ Within(g, ConflictFor) \/ heals
                        THEN "fallback_to_direct" ELSE None]

Tick ==
    /\ now < MaxTime
    /\ now' = now + 1
    /\ UNCHANGED <<headroom, gapAt, syncAt, snapshot, pending>>

\* /assign, /release, /broadcast-outcome, /fill-gaps, /flush-wallet and
\* /clear-pools: the headroom may move, and the snapshot is rebuilt.
PoolMoves(h) ==
    /\ headroom' = h
    /\ snapshot' = Snapshot(h, gapAt)
    /\ UNCHANGED <<now, gapAt, syncAt, pending>>

\* A run dispatched from a hand advances a head; nothing is rebuilt.
HandDispatches(h) ==
    /\ headroom > 0
    /\ headroom' = h
    /\ UNCHANGED <<now, gapAt, syncAt, snapshot, pending>>

\* The operator's clear-conflicts.
ClearConflicts ==
    /\ gapAt' = None
    /\ snapshot' = Snapshot(headroom, None)
    /\ UNCHANGED <<now, headroom, syncAt, pending>>

\* The alarm, /resync or /reset reconciles: Hiro answers or not; a gap is
\* found (and stamped) or, when /resync finds every wallet consistent, the
\* last one may be forgotten.
Reconcile(synced, gap, h) ==
    /\ ~pending
    /\ gap # gapAt => synced
    /\ pending' = TRUE
    /\ syncAt' = IF synced THEN now ELSE syncAt
    /\ gapAt' = gap
    /\ headroom' = h
    /\ UNCHANGED <<now, snapshot>>

Refresh ==
    /\ pending
    /\ pending' = FALSE
    /\ snapshot' = Snapshot(headroom, gapAt)
    /\ UNCHANGED <<now, headroom, gapAt, syncAt>>

\* A later step of the cycle throws, or the object restarts: no refresh.
FailsBeforeRefresh ==
    /\ pending
    /\ pending' = FALSE
    /\ UNCHANGED <<now, headroom, gapAt, syncAt, snapshot>>

\* getSponsorStatus builds the snapshot when there is none.
FirstAsk ==
    /\ snapshot = None
    /\ snapshot' = Snapshot(headroom, gapAt)
    /\ UNCHANGED <<now, headroom, gapAt, syncAt, pending>>

Next ==
    /\ \/ Tick \/ ClearConflicts \/ Refresh \/ FailsBeforeRefresh \/ FirstAsk
       \/ \E h \in Rooms : PoolMoves(h) \/ HandDispatches(h)
       \/ \E synced \in BOOLEAN, gap \in {now, gapAt, None}, h \in Rooms : Reconcile(synced, gap, h)
    /\ roomAt' = RoomSeen(headroom', now', roomAt)

Spec == Init /\ [][Next]_vars

(***************************************************************************)
(* The answer: toSponsorStatusResult.                                      *)
(***************************************************************************)
Freshness(at) ==
    IF Within(at, FreshFor) THEN "fresh" ELSE IF Within(at, ExpiredAfter) THEN "stale" ELSE "expired"

\* Mutant: the age of the reconciliation is not looked at.
ReconciledOnce == snapshot.lastSuccessfulAt # None
Reconciled == Within(snapshot.lastSuccessfulAt, FreshFor)

Reasons ==
    {r \in {"NO_AVAILABLE_NONCES", "RECENT_CONFLICT", "HEAL_IN_PROGRESS",
            "RECONCILIATION_STALE", "SNAPSHOT_STALE"} :
        CASE r = "NO_AVAILABLE_NONCES"  -> snapshot.available = 0
          [] r = "RECENT_CONFLICT"      -> Within(snapshot.lastConflictAt, ConflictFor)
          [] r = "HEAL_IN_PROGRESS"     -> snapshot.healInProgress
          [] r = "RECONCILIATION_STALE" -> ~Reconciled
          [] r = "SNAPSHOT_STALE"       -> Freshness(snapshot.asOf) # "fresh"}

Status ==
    IF Freshness(snapshot.asOf) = "expired" THEN "unavailable"
    ELSE IF Reasons # {} THEN "degraded" ELSE "healthy"

\* Every variable has its type.
TypeOK ==
    /\ now \in 0..MaxTime
    /\ headroom \in Rooms
    /\ {gapAt, syncAt, roomAt} \subseteq 0..now \cup {None}
    /\ pending \in BOOLEAN
    /\ snapshot # None => snapshot.asOf \in 0..now /\ snapshot.available \in Rooms

\* How wrong canSponsor may be: when it is true, the pool had room and was
\* reconciled with Hiro at some moment of the last FreshFor, and a gap that
\* is still on record and in the conflict window is no older than that. So
\* dispatches that do not rebuild the snapshot, cycles that fail before they
\* do, and refreshes that stop altogether mislead a caller no longer.
CanSponsorIsBacked ==
    snapshot # None /\ Status = "healthy" =>
        /\ Within(roomAt, FreshFor)
        /\ Within(syncAt, FreshFor)
        /\ Within(gapAt, ConflictFor) => Within(gapAt, FreshFor)
=============================================================================
