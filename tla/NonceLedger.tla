------------------------------ MODULE NonceLedger ------------------------------
(***************************************************************************)
(* The sponsor nonce ledger of NonceDO (src/src/durable-objects/nonce-do.ts),*)
(* the Workers that use it, the Stacks node and the Hiro API it reads.      *)
(*                                                                         *)
(* The relay pays the fee of other people's transactions: each needs the    *)
(* next nonce of one of its wallets.  NonceDO hands nonces out from a       *)
(* per-wallet head, learns what happened to them from calls of the Workers  *)
(* that may be lost, and repairs the rest from an alarm that compares its   *)
(* ledger with what Hiro reports, which may be stale.                       *)
(*                                                                         *)
(* Every handler of the object is one step: it runs under                   *)
(* blockConcurrencyWhile, during which the object takes no other event, or   *)
(* never awaits between its reads and writes.  What a step read from Hiro    *)
(* before it took the lock may be stale, which is why answers are.          *)
(***************************************************************************)
EXTENDS Integers, FiniteSets

CONSTANTS
    WalletCount,    \* sponsor wallets, indices 0 .. WalletCount - 1
    Requests,       \* slots for Worker invocations that hold a nonce
    MaxNonce,       \* bound: the model stops handing out nonces after this one
    ChainingLimit,  \* CHAINING_LIMIT: outstanding nonces per wallet
    SoftReject,     \* SOFT_REJECT_HEADROOM_THRESHOLD
    ReserveSlots,   \* WALLET_RESERVE_SLOTS: headroom a run leaves untouched
    MaxRun,         \* MAX_RUN_PER_DISPATCH
    MaxGapFills,    \* MAX_GAP_FILLS_PER_ALARM
    Lookahead,      \* LOOKAHEAD_GUARD_BUFFER
    HiroLag,        \* bound: blocks a Hiro replica may lag behind the node
    ForeignNonces   \* bound: nonces another user of the sponsor key may spend

ASSUME CountsAssumption ==
    /\ WalletCount \in Nat \ {0}
    /\ MaxNonce \in Nat
    /\ HiroLag \in Nat
    /\ ForeignNonces \subseteq 0 .. MaxNonce

ASSUME LimitsAssumption ==
    /\ ChainingLimit \in Nat \ {0}
    /\ SoftReject \in Nat
    /\ ReserveSlots \in Nat
    /\ MaxRun \in Nat \ {0}
    /\ MaxGapFills \in Nat
    /\ Lookahead \in Nat

Wallets == 0 .. WalletCount - 1
Nonces == 0 .. MaxNonce
Unset == -1                     \* null: a head or frontier never written
Heads == 0 .. MaxNonce + 1

\* nonce_intents.state; "none" is a nonce without a row.
IntentStates == {"none", "assigned", "broadcasted", "confirmed",
                 "conflict", "failed", "expired", "gap_fill"}

\* The calls a Worker still owes NonceDO for the nonce it used.
Calls == {"outcome_ok", "outcome_bad", "release_ok", "release_plain",
          "release_reason", "queue"}

VARIABLES
    head,       \* next nonce to hand out, per wallet (nonce_state)
    frontier,   \* highest possible_next_nonce ever observed, per wallet
    intent,     \* nonce_intents: state per wallet and nonce
    hasTxid,    \* nonces whose row has a txid, per wallet
    queued,     \* dispatch_queue rows in state 'queued', per wallet
    req,        \* Worker invocations
    executed,   \* the chain: next nonce of the wallet the node will execute
    pool        \* the chain: nonces of the wallet pending in the mempool

ledger == <<head, frontier, intent, hasTxid, queued>>
chain == <<executed, pool>>
vars == <<ledger, req, chain>>

Idle == [pc |-> "idle", w |-> 0, n |-> 0, todo |-> {}]

\* Slots of invocations that own a nonce: still signing, or still reporting.
Signing(r) == req[r].pc = "sign"
Reporting(r) == req[r].pc = "report"
Busy(r) == req[r].pc # "idle"
Owned(w) == {n \in Nonces : \E r \in Requests : Busy(r) /\ req[r].w = w /\ req[r].n = n}

Larger(a, b) == IF a >= b THEN a ELSE b
LowestOf(S, k) == {n \in S : Cardinality({m \in S : m < n}) < k}

--------------------------------------------------------------------------------
(***************************************************************************)
(* What Hiro may answer.  A replica is up to HiroLag blocks behind the node  *)
(* and shows any part of the mempool; possible_next_nonce is one past the   *)
(* highest nonce it has executed or shows as pending.                       *)
(***************************************************************************)
HiroExecuted(w) == {e \in Heads : e <= executed[w] /\ executed[w] <= e + HiroLag}
HiroPending(w, e) == {n \in Nonces : n \in pool[w] \/ (e <= n /\ n < executed[w])}
IsPossibleNext(p, e, P) ==
    \/ p = e /\ P = {}
    \/ p - 1 \in P /\ \A n \in P : n < p
PossibleNext(w) ==
    UNION {{e} \cup {n + 1 : n \in HiroPending(w, e)} : e \in HiroExecuted(w)}

--------------------------------------------------------------------------------
(* Helpers of the object that read a head, a frontier and the ledger.       *)

AdvanceFrontier(f, p) == IF f = Unset THEN p ELSE Larger(f, p)

InFlightCount(w) ==
    Cardinality({n \in Nonces : intent[w][n] \in {"assigned", "broadcasted", "confirmed"}})

\* walletHeadroom for the given heads and frontiers.
Headroom(hd, fr, w) ==
    IF fr[w] = Unset \/ hd[w] = Unset
      THEN ChainingLimit - InFlightCount(w)
      ELSE Larger(0, ChainingLimit - Larger(0, hd[w] - fr[w]))

EffectiveHeadroom(w) == Larger(0, Headroom(head, frontier, w) - ReserveSlots)

--------------------------------------------------------------------------------
(***************************************************************************)
(* assignNonce.  Nonce information was fetched before the lock for wallets   *)
(* that are unseeded or whose cache ended, or is fetched under the lock for   *)
(* an unseeded one whose first fetch failed (hiro[w], Unset when there is no  *)
(* answer).                                                                 *)
(***************************************************************************)
Answers == {hiro \in [Wallets -> Heads \cup {Unset}] :
                \A w \in Wallets : hiro[w] # Unset => hiro[w] \in PossibleNext(w)}

Unseeded == {w \in Wallets : head[w] = Unset}

\* Mutant: one past the nonce Hiro names.
SeededHeadOffByOne(hiro, k) ==
    [w \in Wallets |-> IF w < k /\ w \in Unseeded THEN hiro[w] + 1 ELSE head[w]]

\* Heads and frontiers once the wallets below k took their answer.
SeededHead(hiro, k) ==
    [w \in Wallets |-> IF w < k /\ w \in Unseeded THEN hiro[w] ELSE head[w]]
SeededFrontier(hiro, k) ==
    [w \in Wallets |-> IF w < k /\ hiro[w] # Unset
                         THEN AdvanceFrontier(frontier[w], hiro[w]) ELSE frontier[w]]

\* A wallet could be seeded neither before nor under the lock: the call throws
\* and the wallets before it keep what they took.
AssignSeedFails(r) ==
    /\ ~Busy(r)
    /\ \E hiro \in Answers, k \in Unseeded :
         /\ hiro[k] = Unset
         /\ \A w \in Unseeded : w < k => hiro[w] # Unset
         /\ head' = SeededHead(hiro, k)
         /\ frontier' = SeededFrontier(hiro, k)
    /\ UNCHANGED <<intent, hasTxid, queued, req, chain>>

\* The wallet with the most headroom, the first one of equals.
MostHeadroom(hd, fr, w) ==
    \A v \in Wallets : /\ Headroom(hd, fr, v) <= Headroom(hd, fr, w)
                       /\ v < w => Headroom(hd, fr, v) < Headroom(hd, fr, w)

\* fetchNextNonceForWallet: an answer, or null when Hiro is unreachable.  The
\* 30 s cache makes answers older; one from before an eviction may be as high
\* as the frontier.
NextAnswers(w, fr) == PossibleNext(w) \cup {fr[w], Unset}

\* The stored head, or Hiro's next nonce when that is ahead of it.
NonceToAssign(h, next) == IF next # Unset /\ h < next THEN next ELSE h

BeyondLookahead(n, next) == next # Unset /\ n > next + Lookahead

\* Mutant: an upsert of the state that keeps the other columns.
LedgerAssignUpsert(w, S) ==
    /\ intent' = [intent EXCEPT ![w] = [n \in Nonces |->
                      IF n \in S THEN "assigned" ELSE intent[w][n]]]
    /\ UNCHANGED hasTxid

\* ledgerAssign replaces the row, so the txid of an earlier use is dropped.
LedgerAssign(w, S) ==
    /\ intent' = [intent EXCEPT ![w] = [n \in Nonces |->
                      IF n \in S THEN "assigned" ELSE intent[w][n]]]
    /\ hasTxid' = [hasTxid EXCEPT ![w] = @ \ S]

Assign(r) ==
    /\ ~Busy(r)
    /\ \E hiro \in Answers, w \in Wallets :
         LET hd == SeededHead(hiro, WalletCount)
             fr == SeededFrontier(hiro, WalletCount)
         IN /\ \A v \in Unseeded : hiro[v] # Unset
            /\ MostHeadroom(hd, fr, w)
            /\ Headroom(hd, fr, w) > SoftReject
            /\ \E next \in NextAnswers(w, fr) :
                 LET n == NonceToAssign(hd[w], next)
                 IN /\ ~BeyondLookahead(n, next)
                    /\ n \in Nonces
                    /\ head' = [hd EXCEPT ![w] = n + 1]
                    /\ frontier' = [fr EXCEPT ![w] =
                                      IF next = Unset THEN @ ELSE AdvanceFrontier(@, next)]
                    /\ LedgerAssign(w, {n})
                    /\ req' = [req EXCEPT ![r] =
                                 [pc |-> "sign", w |-> w, n |-> n, todo |-> {}]]
    /\ UNCHANGED <<queued, chain>>

\* LowHeadroomError or ChainingLimitError: what was learnt from Hiro is kept.
AssignRefused(r) ==
    /\ ~Busy(r)
    /\ \E hiro \in Answers, w \in Wallets :
         LET hd == SeededHead(hiro, WalletCount)
             fr == SeededFrontier(hiro, WalletCount)
         IN /\ \A v \in Unseeded : hiro[v] # Unset
            /\ MostHeadroom(hd, fr, w)
            /\ head' = hd
            /\ \/ /\ Headroom(hd, fr, w) <= SoftReject
                  /\ frontier' = fr
               \/ /\ Headroom(hd, fr, w) > SoftReject
                  /\ \E next \in NextAnswers(w, fr) \ {Unset} :
                       /\ BeyondLookahead(NonceToAssign(hd[w], next), next)
                       /\ frontier' = [fr EXCEPT ![w] = AdvanceFrontier(@, next)]
    /\ UNCHANGED <<intent, hasTxid, queued, req, chain>>

--------------------------------------------------------------------------------
(***************************************************************************)
(* assignRunToWallet: k transactions of one sender get contiguous nonces of  *)
(* one wallet and are queued for the alarm.  The scan stops at the first     *)
(* wallet without a head; only the part of the run that fits is taken.       *)
(***************************************************************************)
Scanned(w) == \A v \in 0 .. w : head[v] # Unset

RunWallet(w) ==
    /\ Scanned(w)
    /\ EffectiveHeadroom(w) > 0
    /\ \A v \in Wallets : Scanned(v) =>
         /\ EffectiveHeadroom(v) <= EffectiveHeadroom(w)
         /\ v < w => EffectiveHeadroom(v) < EffectiveHeadroom(w)

\* Mutant: the whole run, whatever the headroom.
RunLengthUncapped(w, k) == k

RunLength(w, k) == IF EffectiveHeadroom(w) >= k THEN k ELSE EffectiveHeadroom(w)

TakeRun(w, k) ==
    LET S == head[w] .. head[w] + RunLength(w, k) - 1
    IN /\ S \subseteq Nonces
       /\ head' = [head EXCEPT ![w] = @ + RunLength(w, k)]
       /\ LedgerAssign(w, S)
       /\ queued' = [queued EXCEPT ![w] = @ \cup S]

\* /hand-submit: the caller also gets the first nonce of the run to sign with.
HandSubmit(r) ==
    /\ ~Busy(r)
    /\ \E w \in Wallets, k \in 1 .. MaxRun :
         /\ RunWallet(w)
         /\ TakeRun(w, k)
         /\ req' = [req EXCEPT ![r] = [pc |-> "sign", w |-> w, n |-> head[w], todo |-> {}]]
    /\ UNCHANGED <<frontier, chain>>

\* sweepHeldHands: the alarm dispatches a run that was held; nobody else signs.
SweepHeldRun ==
    /\ \E w \in Wallets, k \in 1 .. MaxRun : RunWallet(w) /\ TakeRun(w, k)
    /\ UNCHANGED <<frontier, req, chain>>

--------------------------------------------------------------------------------
(***************************************************************************)
(* The handlers a Worker reports to.                                        *)
(***************************************************************************)
\* ledgerBroadcastOutcome: only an assigned or broadcasted row moves; an
\* accepted transaction also takes its queue row out of 'queued'.
BroadcastOutcome(w, n, newState) ==
    IF intent[w][n] \in {"assigned", "broadcasted"}
      THEN /\ intent' = [intent EXCEPT ![w][n] = newState]
           /\ IF newState = "broadcasted"
                THEN /\ hasTxid' = [hasTxid EXCEPT ![w] = @ \cup {n}]
                     /\ queued' = [queued EXCEPT ![w] = @ \ {n}]
                ELSE UNCHANGED <<hasTxid, queued>>
      ELSE UNCHANGED <<intent, hasTxid, queued>>

\* releaseNonce: a no-op unless the row is assigned.  (A plain release also
\* marks the row failed when nonce_txids holds that number: the outcome of
\* "release_reason", which a Worker may always send here, so that table and
\* recordTxid are left out.)
ReleasedState(call) ==
    CASE call = "release_ok" -> "confirmed"
      [] call = "release_reason" -> "failed"
      [] call = "release_plain" -> "expired"

ReleaseNonce(w, n, call) ==
    IF intent[w][n] = "assigned"
      THEN /\ intent' = [intent EXCEPT ![w][n] = ReleasedState(call)]
           /\ hasTxid' = IF call = "release_ok"
                           THEN [hasTxid EXCEPT ![w] = @ \cup {n}] ELSE hasTxid
      ELSE UNCHANGED <<intent, hasTxid>>

HandleCall(w, n, call) ==
    \/ call = "outcome_ok" /\ BroadcastOutcome(w, n, "broadcasted")
    \/ call = "outcome_bad" /\ BroadcastOutcome(w, n, "conflict")
    \/ call = "outcome_bad" /\ BroadcastOutcome(w, n, "failed")
    \/ /\ call \in {"release_ok", "release_plain", "release_reason"}
       /\ ReleaseNonce(w, n, call)
       /\ UNCHANGED queued
    \/ /\ call = "queue"        \* queueDispatch replaces the row, as dispatched
       /\ queued' = [queued EXCEPT ![w] = @ \ {n}]
       /\ UNCHANGED <<intent, hasTxid>>

--------------------------------------------------------------------------------
(***************************************************************************)
(* A Worker that holds a nonce.  On success it reports the outcome, waits,   *)
(* and only then releases and queues; on failure its calls are in         *)
(* parallel and, from the queue consumer, only a release.  Every call may    *)
(* be lost (they are made with waitUntil and their errors are swallowed).    *)
(***************************************************************************)
SuccessCalls(r) ==   \* queueing matters here only while the row is still queued
    {"release_ok"} \cup (IF req[r].n \in queued[req[r].w] THEN {"queue"} ELSE {})
FailureCalls == {{"outcome_bad", "release_plain"}, {"release_plain"}, {"release_reason"}}

Owes(r, calls) ==
    req' = [req EXCEPT ![r] = IF calls = {} THEN Idle
                              ELSE [@ EXCEPT !.pc = "report", !.todo = calls]]

\* Signing failed, or the transaction did not verify: nothing was broadcast.
AbandonBeforeBroadcast(r) ==
    /\ Signing(r)
    /\ Owes(r, {"release_plain"})
    /\ UNCHANGED <<ledger, chain>>

\* The node accepts a nonce it has not executed; a pending one only when the
\* new transaction outbids it.
NodeAccepts(w, n) ==
    /\ n >= executed[w]
    /\ pool' = [pool EXCEPT ![w] = @ \cup {n}]
    /\ UNCHANGED executed

BroadcastAccepted(r) ==
    /\ Signing(r)
    /\ NodeAccepts(req[r].w, req[r].n)
    /\ Owes(r, {"outcome_ok"})
    /\ UNCHANGED <<ledger>>

\* The node took the transaction, but every answer the Worker saw was a timeout,
\* a 5xx or, on a retry, a conflict with its own first attempt.
BroadcastAckLost(r) ==
    /\ Signing(r)
    /\ NodeAccepts(req[r].w, req[r].n)
    /\ \E calls \in FailureCalls : Owes(r, calls)
    /\ UNCHANGED <<ledger>>

BroadcastRejected(r) ==
    /\ Signing(r)
    /\ \E calls \in FailureCalls : Owes(r, calls)
    /\ UNCHANGED <<ledger, chain>>

AfterCall(r, call) ==
    Owes(r, IF call = "outcome_ok" THEN SuccessCalls(r) ELSE req[r].todo \ {call})

Deliver(r) ==
    /\ Reporting(r)
    /\ \E call \in req[r].todo :
         /\ HandleCall(req[r].w, req[r].n, call)
         /\ AfterCall(r, call)
    /\ UNCHANGED <<head, frontier, chain>>

Lose(r) ==
    /\ Reporting(r)
    /\ \E call \in req[r].todo : AfterCall(r, call)
    /\ UNCHANGED <<ledger, chain>>

\* The invocation is killed: whatever it had not sent yet is never sent.
WorkerDies(r) ==
    /\ Busy(r)
    /\ req' = [req EXCEPT ![r] = Idle]
    /\ UNCHANGED <<ledger, chain>>

--------------------------------------------------------------------------------
(***************************************************************************)
(* reconcileNonceForWallet, first half: compare the ledger with one answer   *)
(* of Hiro (last executed nonce e - 1, mempool P, possible next p).          *)
(*                                                                         *)
(* Ages: an assigned row older than STALE_THRESHOLD belongs to no live       *)
(* invocation (a Worker is done long before ten minutes); whether the other  *)
(* thresholds have passed is left open.  Bound: one stuck row per pass.      *)
(***************************************************************************)
AssignedNow(w) == {n \in Nonces : intent[w][n] = "assigned"}

\* Rows with a txid that the chain passed are confirmed, whatever their state.
ChainPassed(w, e) == {n \in hasTxid[w] : n < e}

\* Old rows with a txid that Hiro shows neither executed nor pending.
RbfCandidates(w, e, P) == {n \in hasTxid[w] : n >= e /\ n \notin P}

\* What a stuck candidate turns out to be: aborted or successful needs the chain
\* to have executed it, replaced needs another transaction in its place.
RbfVerdicts(w, n) ==
    (IF n < executed[w] THEN {"aborted", "success", "replaced"} ELSE {"resent"}) \cup
    (IF n \in pool[w] THEN {"replaced"} ELSE {})
Verdicts(w, stuck) ==
    IF stuck = {} THEN {"none"} ELSE UNION {RbfVerdicts(w, n) : n \in stuck}

\* Nonces Hiro reports missing that the ledger can explain as unused.
MissingFills(w, e, p, P, oldConflicts) ==
    {n \in Nonces : /\ e <= n /\ n < p /\ n \notin P
                    /\ n \notin hasTxid[w]
                    /\ \/ intent[w][n] \in {"none", "failed", "expired"}
                       \/ n \in oldConflicts}

\* Everything from the first nonce not executed up to p that has no txid and is
\* not assigned: the nonces Hiro does not report as missing.
CorridorFills(w, e, p) ==
    IF e = 0 THEN {}
    ELSE {n \in Nonces : /\ e <= n /\ n < p /\ n < e + ChainingLimit
                         /\ n \notin hasTxid[w] /\ intent[w][n] # "assigned"}

(***************************************************************************)
(* Second half: broadcast the planned gap-fills, bump the first pending      *)
(* transaction when one was filled, then move the head.  It works on the     *)
(* rows (rows) and txids the first half left.                               *)
(***************************************************************************)
FillVerdicts(w, n) ==
    {"rejected"} \cup (IF n >= executed[w] THEN {"filled"} ELSE {})
                 \cup (IF n \in pool[w] THEN {"conflict"} ELSE {})

\* fillGapNonce writes a 'gap_fill' row when there is none; a conflict is our own
\* earlier transaction when the row has a txid, and a stranger's otherwise.
FillState(state, known, verdict) ==
    CASE verdict = "filled" -> "confirmed"
      [] verdict = "rejected" -> IF state = "none" THEN "gap_fill" ELSE state
      [] verdict = "conflict" -> IF state \in {"confirmed", "broadcasted"} THEN state
                                 ELSE IF known THEN "broadcasted" ELSE "conflict"

\* The first broadcasted row that was not just filled, replaced by a self-transfer.
HeadBumpCandidates(w, rows, filled) ==
    IF filled = {} THEN {}
    ELSE LowestOf({n \in Nonces : rows[n] = "broadcasted" /\ n \in hasTxid[w] \ filled}, 1)

\* Mutant: a reset that looks only at rows that were broadcast.
InFlightAboveBroadcastOnly(w, rows, p) ==
    {n \in Nonces : p <= n /\ n < head[w] /\ rows[n] = "broadcasted"}

\* The rows the stale reset keeps the head above.
InFlightAbove(w, rows, p) ==
    {n \in Nonces : p <= n /\ n < head[w] /\ rows[n] \in {"broadcasted", "assigned"}}

\* Nothing was assigned for STALE_THRESHOLD: no invocation is left.
SystemIdle == \A r \in Requests : ~Busy(r)

\* Mutant: a reset without the idle threshold.
HeadMovesAnyTime(w, rows, p, h) ==
    \/ p > head[w] /\ h = p
    \/ p <= head[w] /\ h = head[w]
    \/ /\ p <= h /\ h < head[w]
       /\ \A n \in InFlightAbove(w, rows, p) : n < h
       /\ h > p => h - 1 \in InFlightAbove(w, rows, p)

\* Where the head goes: forward to Hiro's value p, back to it when the system is
\* idle (but past every row in flight), or nowhere.
HeadMoves(w, rows, p, h) ==
    \/ p > head[w] /\ h = p
    \/ p <= head[w] /\ h = head[w]
    \/ /\ SystemIdle
       /\ p <= h /\ h < head[w]
       /\ \A n \in InFlightAbove(w, rows, p) : n < h
       /\ h > p => h - 1 \in InFlightAbove(w, rows, p)

FillBudget(w, fr) ==
    IF Headroom(head, fr, w) < MaxGapFills THEN Headroom(head, fr, w) ELSE MaxGapFills

\* rows and pend are the rows and the mempool after the verdicts, plan the gaps
\* to fill, resent whether a stuck transaction was replaced this time.
Repair(w, p, rows, pend, plan, resent) ==
    \E verdict \in [plan -> {"filled", "conflict", "rejected"}] :
      LET filled == {n \in plan : verdict[n] = "filled"}
          bump == HeadBumpCandidates(w, rows, filled)
      IN /\ \A n \in plan : verdict[n] \in FillVerdicts(w, n)
         /\ intent' = [intent EXCEPT ![w] = [n \in Nonces |->
              IF n \in plan THEN FillState(rows[n], n \in hasTxid[w], verdict[n])
              ELSE rows[n]]]
         /\ hasTxid' = [hasTxid EXCEPT ![w] = @ \cup filled]
         /\ \E bumped \in {{}, bump} :
              /\ \A n \in bumped : n >= executed[w]
              /\ pool' = [pool EXCEPT ![w] = pend \cup filled \cup bumped]
         /\ \E h \in Heads : /\ HeadMoves(w, intent'[w], p, h)
                             /\ resent => h >= head[w]
                             /\ head' = [head EXCEPT ![w] = h]

\* The object restarts between the two halves.
CutShort(w, rows, pend) ==
    /\ intent' = [intent EXCEPT ![w] = rows]
    /\ pool' = [pool EXCEPT ![w] = pend]
    /\ UNCHANGED <<head, hasTxid>>

\* Rows confirmed in this pass, whose queue rows go with them.
Confirmed(w, e, stuck, verdict) ==
    ChainPassed(w, e) \cup (IF verdict = "success" THEN stuck ELSE {})

RowsAfter(w, e, stale, stuck, verdict) ==
    [n \in Nonces |->
        CASE n \in Confirmed(w, e, stuck, verdict) -> "confirmed"
          [] n \in stuck /\ verdict \in {"replaced", "aborted"} -> "failed"
          [] n \in stale -> "expired"
          [] OTHER -> intent[w][n]]

\* One pass: which assigned rows are stale, which conflicts old, which row is
\* stuck, and what the stuck one turned out to be.
ReconcileWith(w, e, P, p, stale, oldConflicts, stuck, verdict) ==
    LET rows == RowsAfter(w, e, stale, stuck, verdict)
        resent == IF verdict = "resent" THEN stuck ELSE {}
        replaced == IF verdict = "replaced" THEN stuck ELSE {}
        plan == LowestOf(MissingFills(w, e, p, P, oldConflicts)
                           \cup CorridorFills(w, e, p) \cup replaced,
                         FillBudget(w, frontier'))
    IN /\ frontier' = [frontier EXCEPT ![w] = AdvanceFrontier(@, p)]
       /\ queued' = [queued EXCEPT ![w] = @ \ Confirmed(w, e, stuck, verdict)]
       /\ \/ Repair(w, p, rows, pool[w] \cup resent, plan, resent # {})
          \/ CutShort(w, rows, pool[w] \cup resent)

\* A wallet without a head takes Hiro's value, and nothing else is looked at.
SeedByReconcile(w) ==
    /\ head[w] = Unset
    /\ \E p \in PossibleNext(w) :
         /\ head' = [head EXCEPT ![w] = p]
         /\ frontier' = [frontier EXCEPT ![w] = AdvanceFrontier(@, p)]
    /\ UNCHANGED <<intent, hasTxid, queued, req, chain>>

Reconcile(w) ==
    /\ head[w] # Unset
    /\ \E e \in HiroExecuted(w) : \E P \in SUBSET HiroPending(w, e), p \in Heads :
         /\ IsPossibleNext(p, e, P)
         /\ \E stale \in SUBSET (AssignedNow(w) \ Owned(w)),
               oldConflicts \in SUBSET {n \in Nonces : intent[w][n] = "conflict"},
               stuck \in {{}} \cup {{n} : n \in RbfCandidates(w, e, P)} :
             \E verdict \in Verdicts(w, stuck) :
               ReconcileWith(w, e, P, p, stale, oldConflicts, stuck, verdict)
    /\ UNCHANGED <<req, executed>>

--------------------------------------------------------------------------------
(***************************************************************************)
(* The rest of the alarm, and operators.                                    *)
(***************************************************************************)
\* runSchemaReconcileForWallet: a pending transaction of the wallet that the
\* ledger has no txid for and whose fee Hiro does not show is quarantined.
QuarantineOrphan(w) ==
    /\ head[w] # Unset
    /\ \E n \in pool[w] \ hasTxid[w] :
         /\ intent' = [intent EXCEPT ![w][n] =
                         IF @ \in {"none", "confirmed", "failed"} THEN @ ELSE "conflict"]
         /\ head' = [head EXCEPT ![w] = IF @ <= n THEN n + 1 ELSE @]
         /\ queued' = [queued EXCEPT ![w] = @ \ {n}]
    /\ UNCHANGED <<frontier, hasTxid, req, chain>>

\* broadcastBoundedQueueEntries, one entry: accepted, retired because it can
\* never succeed, or kept for the next tick (which changes nothing, unless the
\* object restarted before it wrote down that the node accepted).
BroadcastQueued(w) ==
    /\ \E n \in queued[w] :
         \/ /\ NodeAccepts(w, n)
            /\ queued' = [queued EXCEPT ![w] = @ \ {n}]
            /\ IF intent[w][n] \in {"assigned", "broadcasted"}
                 THEN /\ intent' = [intent EXCEPT ![w][n] = "broadcasted"]
                      /\ hasTxid' = [hasTxid EXCEPT ![w] = @ \cup {n}]
                 ELSE UNCHANGED <<intent, hasTxid>>
         \/ /\ queued' = [queued EXCEPT ![w] = @ \ {n}]
            /\ ReleaseNonce(w, n, "release_reason")
            /\ UNCHANGED chain
         \/ /\ NodeAccepts(w, n)
            /\ UNCHANGED <<queued, intent, hasTxid>>
    /\ UNCHANGED <<head, frontier, req>>

\* The operator's runbook: reset and clear-pools are used only when nothing is
\* pending (docs/nonce-pool-operations.md:221).
Quiescent ==
    /\ SystemIdle
    /\ \A w \in Wallets : /\ pool[w] = {} /\ queued[w] = {}
                          /\ \A n \in Nonces : intent[w][n] \notin {"assigned", "broadcasted"}

\* performReset: back to the nonce after the last one Hiro saw executed, wallet
\* by wallet until Hiro does not answer.  A wallet whose head was cleared gets one
\* without a frontier.
Reset ==
    /\ Quiescent
    /\ head' \in [Wallets -> Heads \cup {Unset}]
    /\ \E k \in 1 .. WalletCount : \A w \in Wallets :
         IF w < k THEN head'[w] \in HiroExecuted(w) ELSE head'[w] = head[w]
    /\ UNCHANGED <<frontier, intent, hasTxid, queued, req, chain>>

\* handleClearPools: forget heads, frontiers and rows.
ClearPools ==
    /\ Quiescent
    /\ head' = [w \in Wallets |-> Unset]
    /\ frontier' = [w \in Wallets |-> Unset]
    /\ intent' = [w \in Wallets |-> [n \in Nonces |-> "none"]]
    /\ hasTxid' = [w \in Wallets |-> {}]
    /\ UNCHANGED <<queued, req, chain>>

--------------------------------------------------------------------------------
(* The chain.                                                               *)

Execute(w) ==
    /\ executed[w] \in pool[w]
    /\ executed' = [executed EXCEPT ![w] = @ + 1]
    /\ pool' = [pool EXCEPT ![w] = @ \ {executed[w]}]
    /\ UNCHANGED <<ledger, req>>

Evict(w) ==
    /\ \E n \in pool[w] : pool' = [pool EXCEPT ![w] = @ \ {n}]
    /\ UNCHANGED <<ledger, req, executed>>

\* Somebody else spends a nonce with the sponsor key.
ForeignBroadcast(w) ==
    /\ \E n \in ForeignNonces \ pool[w] : NodeAccepts(w, n)
    /\ UNCHANGED <<ledger, req>>

--------------------------------------------------------------------------------
Init ==
    /\ head = [w \in Wallets |-> Unset]
    /\ frontier = [w \in Wallets |-> Unset]
    /\ intent = [w \in Wallets |-> [n \in Nonces |-> "none"]]
    /\ hasTxid = [w \in Wallets |-> {}]
    /\ queued = [w \in Wallets |-> {}]
    /\ req = [r \in Requests |-> Idle]
    /\ executed = [w \in Wallets |-> 0]
    /\ pool = [w \in Wallets |-> {}]

WorkerNext(r) ==
    \/ AssignSeedFails(r) \/ Assign(r) \/ AssignRefused(r) \/ HandSubmit(r)
    \/ AbandonBeforeBroadcast(r) \/ BroadcastAccepted(r) \/ BroadcastAckLost(r)
    \/ BroadcastRejected(r) \/ Deliver(r) \/ Lose(r) \/ WorkerDies(r)

ObjectNext ==
    \/ \E w \in Wallets : \/ SeedByReconcile(w) \/ Reconcile(w)
                           \/ QuarantineOrphan(w) \/ BroadcastQueued(w)
    \/ SweepHeldRun \/ Reset \/ ClearPools

ChainNext == \E w \in Wallets : Execute(w) \/ Evict(w) \/ ForeignBroadcast(w)

Next == (\E r \in Requests : WorkerNext(r)) \/ ObjectNext \/ ChainNext

Spec == Init /\ [][Next]_vars

--------------------------------------------------------------------------------
(* Properties.                                                              *)

ReqType == [pc : {"idle", "sign", "report"}, w : Wallets, n : Nonces, todo : SUBSET Calls]

\* Every variable keeps its type.
TypeOK ==
    /\ head \in [Wallets -> Heads \cup {Unset}]
    /\ frontier \in [Wallets -> Heads \cup {Unset}]
    /\ intent \in [Wallets -> [Nonces -> IntentStates]]
    /\ hasTxid \in [Wallets -> SUBSET Nonces]
    /\ queued \in [Wallets -> SUBSET Nonces]
    /\ req \in [Requests -> ReqType]
    /\ executed \in [Wallets -> Heads]
    /\ pool \in [Wallets -> SUBSET Nonces]

\* Two invocations never own the same nonce of a wallet, from the assignment
\* until their last call: whatever the repairs do to the head in between, no
\* two sponsored transactions compete for a nonce and no late release takes
\* away another invocation's reservation.
NoSharedNonce ==
    \A r, s \in Requests :
        r # s /\ Busy(r) /\ Busy(s) => <<req[r].w, req[r].n>> # <<req[s].w, req[s].n>>

\* Every assigned row is below the head, so that no later assignment lands on a
\* reservation that is still held: the forward bump, the stale reset, the
\* quarantine and the runbook all have to keep this.  (A 'broadcasted' row may
\* be at or above the head: see "Observed" in the README.)
AssignedBelowHead ==
    \A w \in Wallets, n \in Nonces : intent[w][n] = "assigned" => n < head[w]

\* Reconciliation finds its rows by txid or by 'assigned': an assigned row never
\* keeps the txid of an earlier use (it would be confirmed or replaced for
\* it), and a row that was broadcast always has one (without it the corridor
\* scan would fill over a live transaction).
TxidMatchesState ==
    \A w \in Wallets, n \in Nonces :
        /\ intent[w][n] \in {"none", "assigned", "gap_fill"} => n \notin hasTxid[w]
        /\ intent[w][n] \in {"broadcasted", "confirmed"} => n \in hasTxid[w]

\* Whatever moved the head, /assign and a run hand out a new nonce only less than
\* ChainingLimit past the highest next nonce Hiro ever reported.  Before Hiro
\* reported any (a reset after clear-pools leaves a head without a frontier) the
\* rows in flight are counted instead; the assignment that first hears from Hiro
\* is held to Lookahead.
AssignWithinLimit ==
    [][\A w \in Wallets, n \in Nonces :
         intent'[w][n] = "assigned" /\ intent[w][n] # "assigned" =>
           \/ frontier'[w] # Unset /\ n < frontier'[w] + ChainingLimit
           \/ frontier'[w] # Unset /\ frontier[w] = Unset /\ n <= frontier'[w] + Lookahead
           \/ frontier'[w] = Unset /\ InFlightCount(w)' <= ChainingLimit]_vars
================================================================================
