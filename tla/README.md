# A TLA+ model of the x402 sponsor relay

The relay is a Cloudflare Worker that pays the Stacks fee of other people's
transactions. A client submits a transaction with an empty sponsor; the relay takes
the next nonce of one of its wallets, signs as sponsor, broadcasts, and follows the
transaction until it is confirmed or lost. What makes it hard is that the nonces of
a wallet are a strictly ordered resource shared by all requests: one lost nonce
blocks everything after it, one reused nonce loses a payment.

Paths and line numbers below are those of this repository's `src/`
(`nonce-do.ts` is `src/src/durable-objects/nonce-do.ts`).

## The system

| part | state | operations | hard behaviour |
|---|---|---|---|
| **Sponsor nonce ledger** (NonceDO, `nonce-do.ts`) | `nonce_state` heads and chain frontiers, `nonce_intents` rows, `dispatch_queue`, an in-memory cache of Hiro's answers | `/assign`, `/release`, `/broadcast-outcome`, `/record`, `/queue-dispatch`, run assignment, the alarm's reconcile pass per wallet, schema quarantine, queue broadcast, reset, clear-pools, fill-gaps, flush-wallet | calls of Workers may be lost, late or parallel; Hiro's answers are stale; the object restarts between awaits; operators intervene |
| **Workers** (`services/sponsor.ts`, `endpoints/relay.ts`, `endpoints/sponsor.ts`, `queue-consumer.ts`) | one invocation each | sponsor, sign, broadcast, report, release | killed at any point; report with `waitUntil` and swallow errors |
| **Sender hand** (NonceDO: `sender_state`, `sender_hand`) | per sender: frontier, held transactions | `/hand-submit`, sweep of held and expired hands, frontier repair, reseeding, recycled replays | Hiro lags or is silent; senders use their accounts elsewhere; answers are lost; rows expire while others are dispatched |
| **Dispatch and replay** (NonceDO: `dispatch_queue`, `replay_buffer`, `probe_queue`) | queue rows, flushed transactions | alarm broadcast, retirement, flush, replay, recycling, fill-gaps, flush-wallet, cancel | late reports, replay on a nonce nobody reserved, a crash between flush and replay, a cancel that holds no lock |
| **Payment lifecycle** (`rpc.ts`, `queue-consumer.ts`, `services/payment-status.ts`, the alarm's notifications, chainhook, polls) | `PaymentRecord`, artifact index, in-flight marker, txid map, all in KV | submit, consume, retry, notify, self-heal | four writers, no compare-and-swap, at-least-once delivery |
| **Sender nonces** (`services/sender-nonce.ts`, called by `rpc.ts`, `queue-consumer.ts`, chainhook) | per sender: highest nonce seen and confirmed, in KV; in-flight markers | check, seed from Hiro, note a broadcast, note a confirmation | get, work out, put by three kinds of writers; Hiro lags; a sender's nonces are many |
| **Settlement, payment ids, receipts** (`relay.ts`, `settle.ts`, `access.ts`, `services/settlement.ts`, `payment-identifier.ts`, `receipt.ts`) | dedup, cooldown, payid, tx_status and receipt entries in KV | `/relay`, `/settle`, `/access`, `/verify/:id` | check, broadcast, record; lost answers of nodes; background polling |
| **API keys** (`services/auth.ts`, `middleware/auth.ts`, `endpoints/sponsor.ts`, `provision*.ts`) | metadata, indexes and counters in KV | provision, revoke, renew, `/sponsor` with a key | every counter is a get, later a put; the three puts of a new key |
| **Throttles** (`middleware/rate-limit.ts`, `malformed-tracker.ts`) | maps in an isolate's memory | `/relay` per sender, malformed payloads per address | windows |
| **Fee service** (`services/fee.ts`, `fees-config.ts`) | cached estimates, clamps and a marker in KV | `/fees`, `/fees/config` | a change beside a fetch |
| **Sponsor status, health** (`sponsor-status.ts`, NonceDO's snapshot; `health-monitor.ts`) | snapshot in NonceDO; latest check and history in KV | `/sponsor-status`, refreshes; the cron's check | staleness; overlapping checks |
| **Statistics** (StatsDO) | rows per day, hour, endpoint | `/record`, `/error`, `/overview` | windows and pruning across midnight |
| **Verification, HTTP surface, dashboard** | none | | none |

A request goes `relay.ts`/`rpc.ts` -> `sponsor.ts` -> NonceDO `/hand-submit` (or `/assign`
when the hand is unavailable) -> sign -> `settlement.ts` -> Stacks node, then reports
back to NonceDO. NonceDO's alarm (every minute when busy) reconciles each wallet with
Hiro, replaces stuck transactions, fills gaps, broadcasts the queue and writes payment
records. The chain is seen only through Hiro, the chainhook and the transaction stream.

What makes each part correct:

- *ledger*: a nonce has one owner; no reservation at or above the head; txids agree
  with row states; nothing handed out beyond the chaining limit;
- *sender hand*: a sender's transactions leave in nonce order; a held one leaves when it is
  dispatched or expires, and not otherwise; no sender is passed over for ever;
- *dispatch and replay*: the queue says of a nonce only what node and chain did; nothing is
  sponsored again while the node still has it;
- *payment lifecycle*: callers are told the truth, messages come to an end, a payment whose
  transaction is mined does not stay pending for those who ask;
- *sender nonces*: a submission is turned away only for what is so;
- *settlement, receipts, ids*: answers and caches are true, no sponsor nonce is forgotten, no
  request retries for ever, a receipt is used up only by who got the resource;
- *keys*: an index never leads nowhere, a revoked key serves nothing, caps hold for requests
  that do not overlap, only taken transactions cost;
- *the rest*: published figures follow from what happened.

## Modules

| module | kind | proofs |
|---|---|---|
| `NonceLedger` (`MC_NonceLedger`) | component | `NonceLedger_proofs` |
| `SenderHand` (`MC_SenderHand`) with `HandTurns` | component; implements `SenderOutlet` | `SenderHand_proofs` |
| `SenderOutlet` | abstract specification of the hand | |
| `Dispatch` (`MC_Dispatch`) | component: queue, replay buffer, node and chain | `Dispatch_proofs` |
| `PaymentLifecycle` (`MC_PaymentLifecycle`) | composition around KV: rpc, queue, hand, alarm, chainhook, polls | `PaymentLifecycle_proofs` |
| `Settlement` (`MC_Settlement`) | composition around KV: two endpoints, receipts, node | `Settlement_proofs` |
| `ApiKeys` (`MC_ApiKeys`) | component | `ApiKeys_proofs` |
| `FeeEstimates`, `Throttles`, `SponsorStatus`, `HealthChecks`, `Statistics`, `SenderNonces` | components, composed in `Services` (`MC_Services`) | `Services_proofs` |
| `Sums` | the sum over a finite set, as a cardinality | `Sums_proofs` |

The runs are twelve: eight that pass and four that show a divergence. `ledger` and
`ledger_limit`, `hand`, `dispatch`, `payments`, `settlement` and `keys` ask one component each;
`services` asks seven small ones that share no state, of which the initial state picks one.

## Plan

Done: all modules of the table, and proofs of every safety property that a run checks. What
is left, most valuable first:

1. an abstract monotone payment status, to say by refinement how far the record in KV is from
   it (it is not monotone, see *Observed*);
2. `probe_queue` and the scaling of the wallet pool.

## NonceLedger

`NonceLedger.tla` is the specification, `MC_NonceLedger.tla` adds the symmetry of
requests, `NonceLedger_proofs.tla` the proofs.

State and code:

| variable | code |
|---|---|
| `head` | `nonce_state` key `wallet_next_nonce:<w>` (-1 is no row) |
| `frontier` | `nonce_state` key `chain_frontier:<w>`, only ever raised |
| `intent`, `hasTxid` | `nonce_intents.state` and whether `txid` is set |
| `queued` | `dispatch_queue` rows in state `queued` |
| `req` | Worker invocations that own a nonce, and the calls they still owe |
| `executed`, `pool` | the node: next nonce to execute, pending nonces |

Actions and code:

- `Assign`, `AssignRefused`, `AssignSeedFails`: `assignNonce` (4857-5080). Hiro is asked
  before the lock; the answer (`Answers`, `NextAnswers`) is any value a replica up to
  `HiroLag` blocks behind could give, the cached one included.
- `HandSubmit`, `SweepHeldRun`: `assignRunToWallet` as called by `/hand-submit` (the caller
  signs with the first nonce of the run) and by the alarm's sweep (nobody does).
- `AbandonBeforeBroadcast`, `BroadcastAccepted`, `BroadcastAckLost`, `BroadcastRejected`,
  `Deliver`, `Lose`, `WorkerDies`: an invocation. After a success it reports the outcome,
  waits, and then releases and queues in parallel (`nonceLifecycleOnBroadcastSuccess`);
  after a failure outcome and release go out in parallel (`relay.ts`), or only a release
  (`queue-consumer.ts`).
- `SeedByReconcile`, `Reconcile`: `reconcileNonceForWallet` (6188-6992) for one wallet. The
  first half confirms rows the chain passed, expires stale reservations, looks a stuck
  transaction up and plans gap-fills; the second broadcasts them, bumps the first pending
  transaction, and moves the head. `CutShort` is a restart between the halves.
- `QuarantineOrphan`: `runSchemaReconcileForWallet`. `BroadcastQueued`: one entry of
  `broadcastBoundedQueueEntries`. `Reset`, `ClearPools`: the operator's endpoints.
- `Execute`, `Evict`, `ForeignBroadcast`: the chain, the mempool dropping a transaction,
  another holder of the key.

Atomicity: a handler of the object is one step. It runs under `blockConcurrencyWhile`,
during which the object takes no other event, or never awaits between its reads and its
writes. What it read from Hiro before that is stale by choice of the answer.

Abstractions, each of them allowing at least what the code does:

- time: an assigned row is stale only when no invocation owns it (a Worker lives for
  seconds, `STALE_THRESHOLD` is ten minutes); the stale reset needs nothing assigned for
  that long, hence no invocation (`SystemIdle`). Other ages are nondeterministic.
- `nonce_txids` and `/record`: they only decide between `expired` and `failed` at a plain
  release; both are possible there.
- every wallet is initialised (its address stored), as after the first alarm.
- `Quiescent`: reset and clear-pools happen when nothing is pending, as the runbook demands
  (`docs/nonce-pool-operations.md`:221). This is an assumption on operators, not a guard
  of the code.
- one stuck row per reconcile pass (the code takes all, one after another).

Not in this module: fill-gaps, flush-wallet and the replay cycle (in `Dispatch`), `probe_queue`,
and mempool ghosts (Hiro showing a transaction that was already evicted).

### Runs

| run | question | bounds | states | result |
|---|---|---|---|---|
| `ledger` | one owner per nonce, heads above reservations, txids agree with states | 1 wallet, 2 requests, nonces 0-1, limit 2, lag 1, a stranger at nonce 1 | 214k | holds |
| `ledger_limit` | nothing assigned beyond the limit | 1 wallet, 1 request, nonces 0-1, limit 1, lookahead 0 | 75k | holds |

Why the bounds are enough: two invocations and two nonces give every pair of events on one
nonce and on neighbours; the limit is reached at 1 and at 2; every disjunct of `Next`
fires in `ledger`. The theorems remove the bounds for all five properties, so that seeding and
a reset that fails at a later wallet need no run of their own. The deadlock check is on: the
alarm can always run.

- `NoSharedNonce` needs that every repair of the head (forward bump, stale reset, quarantine,
  reset) respects live owners; the only thing between the stale reset and two owners is the
  idle threshold.
- `AssignedBelowHead` is what makes the next assignment safe. A `broadcasted` row may lie at
  or above the head: a late outcome can revive a row after the head moved.
- `TxidMatchesState` is what reconciliation relies on when it looks rows up by txid.
- `AssignWithinLimit` says what the head-frontier gap does bound: the distance of a new nonce
  from the highest next nonce Hiro ever reported.

Observed (no run; each is a few steps of `NonceLedger`):

- nonce-do.ts:4035 wants the chaining limit to count all pending transactions; 4607 counts the
  distance from `possible_next_nonce`, which already counts pending ones. As soon as Hiro has
  seen them they leave the gap, and a wallet may have more than `CHAINING_LIMIT` pending; the
  alarm's throttling on TooMuchChaining is the only brake left.
- nonce-do.ts:6933 wants the stale reset to stay above pending broadcasts. When the outcome
  call is lost and the release with its txid marks the row `confirmed`, the guard at 6941, which
  looks at `broadcasted` and `assigned` only, lets the head go onto the pending nonce.
- nonce-do.ts:7891 wants queued entries below the head. A reservation expires by age while
  its queue entry waits; the guard no longer sees it, and the head may go below it.

### Proofs

`NonceLedger_proofs.tla` proves, for every value of the constants that satisfies
`CountsAssumption` and `LimitsAssumption`:

| theorem | property |
|---|---|
| `TypeCorrect` | `TypeOK` |
| `NonceIsOwnedOnce` | `NoSharedNonce` |
| `AssignedRowsBelowHead` | `AssignedBelowHead` |
| `TxidsMatch` | `TxidMatchesState` |
| `AssignmentsWithinLimit` | `AssignWithinLimit` |

- *Ownership*: `NoSharedNonce` is not inductive: it needs `BusyBelowHead` (every owned nonce is
  below its wallet's head), because a new owner takes the head. The head goes down only in the
  stale reset, `Reset` and `ClearPools`, all of which need that nobody owns anything.
- *Rows*: `AssignedBelowHead` and `TxidMatchesState` are inductive together with `TypeOK`
  (`RowsInv`). `ReconcileEffect` collects what one pass may do to a row, whichever of its
  verdicts and halves happened.
- *Limit*: an action property; `RunShape` and `AssignShape` give the nonces a step assigns,
  `InFlightGrowth` bounds the count of rows when there is no frontier.

No liveness is stated for the
ledger: nothing in the code promises an assignment while Hiro is unreachable.

## SenderHand, HandTurns and SenderOutlet

A sender's transactions carry the sender's own nonces and must reach the chain in that
order, but they arrive in any order. The object keeps a *frontier* per sender and a *hand*
of transactions; the gapless run from the frontier is dispatched, up to the headroom of one
wallet, by the submission that completes it or by the alarm's sweep. The frontier is seeded
from Hiro (or, when Hiro is silent, from the first transaction), raised by a later
reseed, and repaired when everything held has lain beyond it for five minutes.

`SenderHand.tla` is the specification, `MC_SenderHand.tla` the module of its runs,
`SenderHand_proofs.tla` the proofs. `SenderOutlet.tla` is what the hand promises.
`HandTurns.tla` has the sweep's offset and slice; `SenderHand` uses its operators, and the
module has a specification of its own for the question who gets a turn.

| variable | code |
|---|---|
| `sender[s].next`, `.seeded` | `sender_state.next_expected_nonce` (-1 is no row), `.seeded_from` |
| `sender[s].tried` | a refresh was attempted within `SENDER_REFRESH_COOLDOWN`, or failed within its backoff |
| `sender[s].hand[n]` | row of `sender_hand`: absent, fresh, old enough for a repair, past `expires_at` |
| `sender[s].replay` | `replay_buffer` entries of the sender |
| `sent[s]` | sender nonces that were given a sponsor nonce (`wallet_hand`/`dispatch_queue` rows; history) |
| `cursor` | `nonce_state` key `alarm_sender_cursor` |
| `req[r]` | a Worker in `sponsorTransaction`: its transaction and the answer it got |

| action | code |
|---|---|
| `Submit` | `submitToHand` and `/hand-submit`, modes `hold` (`/relay`, RPC) and `immediate` (`/sponsor`): seed, stale check, `checkWouldDispatch`, `addToHand`, `checkAndAssignRun`, `assignRunToWallet` |
| `SubmitUnanswered` | the same call when its answer is lost, it fails part-way, or it never arrives |
| `Finish` | what the invocation does next; its sponsor nonce is `NonceLedger`'s business |
| `RepairWedge` | `repairSenderWedge`, asked for by the queue consumer |
| `Alarm` | in order: `recycleReplayBuffer`, `retrySeedFirstTxSenders`, `sweepHeldHands` with its repairs, `sweepExpiredHands` |
| `AlarmCut` | the alarm fails or the object restarts between two senders of the sweep |
| `Age`, `RefreshReady` | time |
| `FlushToReplay`, `ReplayDone` | an entry comes into the replay buffer, or leaves it without the hand |

Atomicity: `/hand-submit`, the wedge repair and the alarm hold `blockConcurrencyWhile` from
the first read to the last write, with their calls of Hiro inside it, so each is one step.
What can interrupt a step is a restart; what was written before it stays (`AlarmCut`, the
part of `SubmitUnanswered` that has only seeded).

Abstractions:

- headroom: a dispatch takes any number of transactions from none to `MaxRun`; which wallet
  and how much headroom is in `NonceLedger`.
- Hiro answers with any value of `HiroAnswers`, or not at all: replicas lag, and senders use
  their accounts outside the relay.
- time is the age of a row. A row that is past `expires_at` stays until the alarm's last step
  takes it, and is not part of a run. The cooldown and the backoff are one flag.
- `LIMIT`s of five reseeds and recycled entries and of a hundred expired rows per alarm are
  not reached with so few senders and nonces; the sweep's limit of five senders is the
  subject of `HandTurns`.

Not modelled: the log of recently expired nonces (wording of answers), the seeding by the
schema migration, and `recoverInvalidRun`, which nothing calls: hence `advanceSenderNonce` is
never reached, and the frontier is moved by seeding, reseeding and repair only. So a
dispatched nonce may be submitted and dispatched again while the frontier is below it. The
model has this; `sent` is a set, and no at-most-once property is stated, for the code has none.

The order is that of leaving the hand. Two ways out pass the hand by: the legacy path, when
the Worker gets no answer or an error (a 4xx such as a stale nonce too: `submitToHand` throws
it inside its own `try`, whose `catch` returns null, although sponsor.ts:599-601 means it to
reach the caller), and `processReplayBuffer`, which sponsors an entry again itself.

### Runs

| run | question | bounds | states | result |
|---|---|---|---|---|
| `hand` | types, order of leaving (refines `SenderOutlet`), no active row dropped | 1 sender, nonces 0-2, 1 invocation, runs of at most 2, Hiro silent, 0, 2 or 3, all ages, replay of nonce 1 | 58k | holds |
| `hand_signs` | a dispatched answer's sponsor nonce is for the caller's own transaction | nonces 0-1 | | violated |
| `services` (part *turns*) | every waiting sender gets its turn, unless their number is a multiple of the slice | 4 senders, slice of 2 | | holds |

Why the bounds are enough: senders share nothing but the sweep's cursor, which `services`
explores with more senders than a slice holds, up to twice as many (with one sender a sweep can be
cut before it only; cuts between senders are covered by the theorems); three nonces give a run, a
gap, a cut run, and a row below, at and beyond a frontier; Hiro's answers include one that
lags, one inside the hand, and one beyond it. The theorems remove the bounds. The deadlock
check is on.

- `LeavesInOrder` is about runs that are cut by headroom, rows that expire in front of others,
  repairs and reseeds that raise the frontier, and replays that come back below it. It fails
  if a lagging answer of Hiro were taken as it is, or a run went on over a gap.
- `KeepsActive` is about the pruning of a repair. The target is the lowest active row, not
  Hiro's nonce; with Hiro's, transactions the sender still waits for would vanish unnoticed.
- `GoesRoundUnaligned` assumes weak fairness of `Alarm` and nothing of the environment: the
  alarm's handler sets the next alarm on every way out, also after an error. `tick` only makes
  an alarm that changes nothing a step, so that fairness can speak of it. The condition on
  the number is needed: the slice does not wrap, and the offset advances by the slice modulo
  that number, so that every offset is reached exactly when the slice, five in the code and two
  in the run, a prime both times, does not divide it.

The divergence `hand_signs`: nonce 0 is held for lack of headroom, nonce 1 arrives and
completes a run that has headroom now. The answer carries the sponsor nonce of nonce 0, the
first of the run, and the invocation signs its own transaction, nonce 1, with it.

Observed:

- nonce-do.ts:9694 wants refused submissions of `/sponsor` to leave the hand alone.
  `checkWouldDispatch` looks at gaps only; without headroom the transaction has already been
  inserted when the dispatch fails, `/sponsor` refuses it, and a later sweep dispatches it.
- nonce-do.ts:7653 says that no sender is always skipped. One alarm finds four waiting senders
  and leaves the offset (0+5)%4 = 1. Then five wait, and (1+5)%5 = 1: the slice is always the
  last four, and the first sender is never swept.

### Proofs

`SenderHand_proofs.tla` proves, for every value of the constants that satisfies
`HandAssumption`:

| theorem | property |
|---|---|
| `TypeCorrect` | `TypeOK` |
| `OrderOfLeaving` | `LeavesInOrder`: `SenderHand` implements `SenderOutlet` |
| `NoHoleInWhatWasSent` | at or above the frontier, what was sent is contiguous from it |
| `ActiveRowsKept` | `KeepsActive` |

- *Order*: a step is made of small changes of one sender's record: seeding, adding, recycling,
  reseeding, repairing, dispatching, expiring. Each is shown either *quiet* (the frontier does
  not fall, and no active row vanishes) or *orderly* (as a dispatch is: what leaves is a run from
  the frontier). A handler is a few quiet changes and at most one orderly one, and their
  composition is a step of `SenderOutlet` under the mapping `base <- Frontier`, `sent <- sent`.
- *Repair*: the target is the minimum of the active rows. That it exists for any set of nonces
  is `LowestRow`, from the well-foundedness of `<` on the naturals.
- *No hole*: an invariant of `SenderOutlet`, carried over by the refinement. It needs that the base
  rises: a frontier that moves beyond a sent nonce drops it from the claim.
- *Cursor*: `TypeOK` contains that the offset is below `SenderCount`; it follows from the number of
  waiting senders being at most that, by cardinality of subsets.

Only model-checked: the sweep's turns, a liveness property.

## Dispatch

`Dispatch.tla` follows senders' transactions through `dispatch_queue` and `replay_buffer`,
beside a node and a chain of its own; `MC_Dispatch.tla` is the module of its run.

| variable | code |
|---|---|
| `row[<<w, n>>]` | row of `dispatch_queue`, keyed by wallet and sponsor nonce |
| `intent` | `nonce_intents.state`; *free* stands for no row and for the states that hold nothing |
| `head`, `hand`, `buffer` | `wallet_next_nonce`, `sender_hand`, `replay_buffer` oldest first |
| `alarm` | where the alarm is and which entries its part has left |
| `worker`, `cancel` | a Worker with a signed transaction; a cancel that waits for the node |
| `mempool`, `executed`, `mined`, `sent` | node and chain; `sent` is history |
| `upsets` | counts steps of `Upset`, for the bound |

| action | code |
|---|---|
| `Submit` | `/hand-submit` or `/assign`: the transaction waits (202), or the run it completes is put in the queue (`Runs`, `AssignRun`), or it gets a nonce without a row. The caller of a run gets the nonce of the run's *first* transaction and signs its own with it (9650) |
| `WorkerBroadcasts` to `WorkerSkips` | broadcast, outcome, release beside queue-dispatch; each call may be lost |
| `Recycle` | `recycleReplayBuffer`, first part of the alarm |
| `Confirm`, `ReplaceStuck`, `ExpireAssigned`, `FillGaps`, `FlushStuck` | the verdicts of `reconcileNonceForWallet` and `runFlushAndReplayCycle`, per nonce |
| `MoveHead` | its forward bump and its stale reset |
| `Sweep`, `ExpireHeld` | `sweepHeldHands`, `sweepExpiredHands` |
| `Broadcast`, `Replay`, `NextPart` | `broadcastBoundedQueueEntries`, `processReplayBuffer`, per entry |
| `Crash` | the object dies between two entries |
| `FillGaps`, `FlushWallet`, `Reset`, `ClearPools`, `Cancel`, `CancelEnds` | the routes of operators and agents, at any time the lock is free |

The head goes up and down: a nonce is handed out again while rows of its earlier use are
still there, queued, retired or on their way. `Next` has two parts. `Upset` is what goes against
the ordinary course: an expired hold, an eviction, a cancel, a head that is moved, an operator's
command, a lost call, a crash; `Ordinary` is the rest.

Atomicity: the alarm, `/hand-submit`, fill-gaps, flush-wallet, reset and clear-pools hold the lock, so
nothing else of the object runs meanwhile (`Unlocked`), but the node does and a crash keeps what was
written: the alarm is one step per entry. A part that has nothing to do takes no step (only the node
moves between two parts, and nothing there depends on it). The cancel route reads, waits for the node
without a lock, and deletes what is there then.

Abstractions: a refused flush changes nothing and is no step. Which verdict a nonce gets (age,
Hiro's view) is nondeterministic among those its ledger state allows; the txid column of the ledger is
not kept. A run is any gapless part of the hand from its lowest nonce on: where the sender's frontier
is, is `SenderHand`'s business. Fees are reduced to who outbids: the alarm's broadcasts never, flushes
always, Workers maybe. A refusal of the node is one of eleven outcomes, and `ActionOf` is the code's
table from outcomes to actions. One Worker at a time. `probe_queue` is left out.

| run | question | bounds | states | result |
|---|---|---|---|---|
| `dispatch` | the queue says what node and chain did; flushed before replayed | 1 wallet, nonces 0-1, 1 sender with 2 transactions, every `LIMIT` 1, 2 waiting, 1 upset, cancels and evictions of nonce 0 | 4.07M | holds |

Why the bounds are enough: two transactions of one sender and two nonces give a run of two, whose
caller signs with the other one's nonce, an entry that takes the slot of another, a replay onto the
head beside a fresh assignment, and queries cut by their `LIMIT`; two that wait are both
transactions, or one of them twice in the buffer. Cancels and evictions of one of the two nonces
meet every state of a row. One upset is enough for each to meet every ordinary state, lowered heads
included (`MaxUpsets`); two of them together are left to the theorems, which hold for any number. The
deadlock check is off: the bounded nonces run out.

- `DispatchedWasSent`: rows are written by late reports, by the caller that signed with the nonce of
  another one's row, by replays on a nonce in use, and over each other after the head went
  down. Still no slot is flushed as stuck for which nothing was ever sent. It is about the slot:
  that the *row's own* transaction was sent is not so (see *Observed*).
- `ConfirmedIsExecuted`: the same for the chain, although a row is moved without a look at its
  old state.
- `FlushedBeforeReplayed`: a transaction is sponsored again only when the node no longer has it
  for its old nonce; a flush whose answer was lost or refused does not count.

### Proofs

`Dispatch_proofs.tla` proves, for every value of the constants that satisfies
`DispatchAssumption` (finitely many senders and nonces, at least one wallet, natural numbers as
bounds, limits of recycling and broadcast that are not zero, and `None` and `Self` no transactions):

| theorem | property |
|---|---|
| `TypeCorrect` | `TypeOK` |
| `DispatchedSent` | `DispatchedWasSent` |
| `ConfirmedExecuted` | `ConfirmedIsExecuted` |
| `ReplayedAfterFlush` | `FlushedBeforeReplayed` |

None of the invariants is inductive: what a row says depends on who may still write it.
`Knowledge`, which does it, says of each writer what makes its next write true:

- *the Worker* (`WorkerKnows`): from its broadcast on, the node has taken a transaction with the
  nonce it will report, whatever row is there by then;
- *the alarm* (`AlarmKnows`): the rows in the list it took at its start are still there when it comes
  to them; nothing that runs between two entries removes one;
- *rows* (`RowKnows`): the two invariants themselves. That they last is that the node forgets nothing it
  took and the chain nothing it executed; nothing is assumed of the head.

`TablesGo` collects what any step may do to a row, an intent, a head and the chain, so that the actions
are looked at once. That a row exists when the alarm comes to it, and that a list of rows in the
order of the query exists, are facts about finite sets and sequences.

Observed:

- nonce-do.ts:4305 marks the row of the nonce that was reported. The caller of a run (9650) signed its own
  transaction with that nonce, so the row of the first transaction of the run, which was not sent,
  becomes dispatched. When it is flushed as stuck, *its* transaction goes to the replay buffer, and the
  one that the node held is gone.
- nonce-do.ts:6933, 7146 and 8545 lower the head; the next run takes the nonce of a row that is
  still queued or retired and replaces it (`INSERT OR REPLACE`): the transaction of a queued one is
  lost without a trace.
- nonce-do.ts:9598: the cancel of a replaying row removes it and its buffer entry; when
  `recycleReplayBuffer` has taken the entry to the hand, the transaction is sponsored all the same.
- nonce-do.ts:9611 answers `cancelled: true` for rows that are confirmed or retired, where it
  removes nothing; and 9591 deletes whatever row is there after the await, a new one too.
- a replacement whose answer is lost leaves the row as it was; when the transfer is executed
  the row becomes confirmed, though the sender's transaction is not on chain.
- a bounded broadcast whose answer is lost is tried again, refused as `BadNonce`, and retired,
  though its transaction was executed.
- when the write to KV fails after a replay's broadcast, the entry stays in the buffer and is
  sponsored once more.
- nonce-do.ts:7863: the query takes the lowest wallets first. A wallet that is throttled and has
  ten queued rows takes the whole tick, and higher wallets wait as long as it does.

## PaymentLifecycle

One payment artifact on its way through RPC, queue, hand and node, and the writers that tell
its record in KV what became of it. KV has no compare-and-swap: each reads a record, decides, and
puts a whole record back later.

| variable | code |
|---|---|
| `record`, `artifact`, `marker`, `txidMap`, `replacedTx` | the KV entries `payment:`, `payment_artifact:`, `sender_inflight:`, `txid_map:`, `replaced_tx:` |
| `sub`, `msg`, `cons` | `submitPayment`, the queue message, the consumer |
| `late` | a put that the alarm, or chainhook and polls, have decided on and not made |
| `inDO`, `event` | where NonceDO has the transaction; `nonce_events` |
| `tx`, `owner` | the chain: what became of each sponsored transaction; *lost* is one whose sponsor nonce another transaction used |

| action | code |
|---|---|
| `Admit` ... `EnqueueFails`, `SubmitDies`, `TurnAway` | `submitPayment` between its awaits; it may die at each |
| `AckUnread`, `Take` ... `ConsumerNotes`, `ConsumerDies` | `processPaymentMessage`, at-least-once: a death delivers the message again, up to the dead-letter queue |
| `SweepHeld`, `HandExpires`, `AlarmBroadcasts`, `AlarmRetires` | the alarm's syncs of payment records |
| `Reconcile`, `NotifyConfirmation`, `Replace`, `NotifyReplacement` | what reconciliation notes, and the two notification passes |
| `Chainhook`, `SelfHeal`, `LatePut` | the chainhook's handler; the poll that heals a record; the put of either |
| `Mine`, `Evict`, `SlotTaken` | node and chain; another transaction is executed at the sponsor nonce of one of these |

Abstractions: the sponsor's answer is any of those `sponsorTransaction` can give (`SenderHand`
and `NonceLedger` say which), and the nonce check's answer any of its own (`SenderNonces` says when);
reads of KV are current, without KV's delay of up to a minute between locations; the time to live of a day passes only
when no invocation is at work (`Quiet`). Chainhook and polls share one slot of `late`, for
they decide the same; a replacement happens when no consumer holds its payment.

| run | question | bounds | states | result |
|---|---|---|---|---|
| `payments` | callers are told the truth; messages end; a mined payment is noticed | 1 payment, 2 transactions, 2 attempts (3 deliveries) | 1.07M | holds |
| `payments_abort` | a confirmed payment succeeded | 1 payment, 1 transaction, 1 attempt | | violated |

Why the bounds are enough: the records of different payments share nothing but the artifact's
index and the sender's marker, and those are read once. Two transactions give
a replacement and a replay; three deliveries a death, a retry and the dead-letter queue. The deadlock
check is off: a payment ends.

Fairness: an invocation that runs goes on or dies and the queue delivers (`ConsumerStep`: Cloudflare
Queues, `max_retries` in `wrangler.jsonc`), a put that was decided is made (`LatePut`), and a client
polls until it is told the end (`SelfHeal`: what the docs tell clients to do). Nothing is
assumed of the alarm, the chainhook or the chain.

- `AnswersTruthful`: no interleaving of the four writers shows a caller a txid the node did not
  take for that payment, an abort that did not happen, or a confirmation before the sponsor nonce of
  one of its transactions was used up. It needs that late puts write back what they read with *their*
  verdict only. Of a confirmation no more is true: reconciliation confirms every broadcast row at or below
  the last executed nonce (nonce-do.ts:6292, 6554), whatever its result and whichever transaction
  was executed there (`Spent`).
- `MessageSettles`: holds for capacity are retried whatever the attempt, so the end of a message
  rests on the queue's own limit.
- `MinedIsNoticed`: chainhook and alarm may miss everything; a poll that heals is enough.

The divergence `payments_abort`: reconciliation marks every nonce at or below the last executed
one as confirmed (nonce-do.ts:6282) before its transaction's result is known, and the
notification makes that the status of a payment that was aborted, or whose nonce went to another
transaction.

### Proofs

`PaymentLifecycle_proofs.tla` proves, for every value of the constants that satisfies
`PaymentsAssumption` and `BoundsAssumption`, `TypeCorrect` (`TypeOK`) and `AnswersTrue`
(`AnswersTruthful`).

A record lies in several places at once: in KV, with the consumer that read it, and in the put a
writer has decided on. `AnswersTruthful` speaks of the first only and is not inductive; `Knowledge`
says of every place that what it holds is true of the chain. The chain, in turn, only adds to what is
true (`Lasting`: no owner, no execution and no nonce used up is forgotten), so a put that comes late, over another
one, still writes a truth, if perhaps an old one. This is why no compare-and-swap is needed for
truth; that the *last* word stays is not promised (see *Observed*).

Observed:

- nonce-do.ts:4797: the sweep's sync moves a record to `queued` whatever it was, so a record
  that the consumer, or a poll, made terminal is pending once more.
- rpc.ts:176: two submissions of one artifact that both look before either has put its index both
  get an id; the second's transaction is refused later.

## Settlement

The requests that settle one and the same signed payment, by `/relay` (sponsored or self-pay)
or `/settle`, the caches that are to make them idempotent, the receipts, and `/access`.

| variable | code |
|---|---|
| `dedup`, `cooldown`, `payid`, `txStatus`, `receipts` | the KV entries of `settlement.ts`, `relay.ts`, `payment-identifier.ts`, `receipt.ts` |
| `h`, `answer`, `background` | handlers, what clients were told, the polling `/settle` leaves behind |
| `nonce` | what NonceDO was told of a sponsor nonce |
| `acc`, `served` | accesses |
| `pool`, `chain`, `accepted` | the node |

A step is what a handler does between two awaits, in the order of the code: payment id,
dedup and liveness, cooldown, sponsor, verify, send (each attempt on each node), await, receipt,
dedup, tx status. A node that answers 5xx or not at all may have taken the transaction
(`SendFails`). `Dies` is a Worker that ends anywhere. `BackgroundSees` and `BackgroundPuts` are
the polling after the answer, `Mine`, `Evict` and the `Expires` actions the environment.

Abstractions: one payment is one dedup key, and each sponsoring of it a version of its own
(request and round). The second round does not fail verification: what was verified of the first
is unchanged. `waitUntil` puts of cooldown and payid happen with the answer or never. `markConsumed`
is one step, and its access counter is left out. `verifyTxidAlive` may call any pending
entry dead: Hiro may not have seen it. `RelayTurnsAway` and its like stand for all checks that
refuse before anything was written. An exception nobody expects (the outermost `catch`,
relay.ts:844, which answers 500 and releases nothing) is `Dies`: the nonce is left to its expiry.

| run | question | bounds | states | result |
|---|---|---|---|---|
| `settlement` | answers and caches are true; no sponsor nonce forgotten; no request for ever; receipts used up by who got the resource | 2 requests, 1 access, 2 attempts, ids for one payload and for two | 1.51M | holds |
| `settle_exhausted` | "broadcast failed" means that all attempts were used up | 1 request, 3 attempts | | violated |

Why the bounds are enough: two requests of any two endpoints give every race on the shared entries,
with an entry that expired or aged between them; two attempts give an answer lost before
a success and after it; both rounds of sponsoring happen. Accesses meet only in their receipt. The
deadlock check is off: requests end.

- `RecordsTruthful` and `AnswersTruthful`: whoever writes last, an entry from which later
  requests are answered names a transaction that a node took, and calls it confirmed or failed only
  when it was.
- `EveryNonceReported`: on each of the many ways out of the two handlers the nonce was released
  or its broadcast reported; a forgotten one blocks its wallet until it is stale.
- `NearerToTheAnswer`: a bound on the steps to the answer that every step lowers, through
  resync and second sponsoring. It says more than an eventuality, and needs no fairness.
- `ConsumedWasServed`: a downstream failure leaves the payer's receipt intact.

The divergence `settle_exhausted`: `lastBroadcastError` is set by a failed attempt and not
cleared by a later one that succeeds; the check after the loop (settlement.ts:1031) then reports the
failure, for a transaction that a node took. The sponsor nonce is released with it.

### Proofs

`Settlement_proofs.tla` proves, for every value of the constants that satisfies
`IdentsAssumption` (payload identifiers are numbers), `TriesAssumption` (at least one attempt) and
`NoneAssumption` (`None` is no request and no transaction):

| theorem | property | from |
|---|---|---|
| `TypeCorrect` | `TypeOK` | `Knowledge` |
| `AnswersTrue` | `AnswersTruthful` | `Knowledge` |
| `RecordsTrue` | `RecordsTruthful` | `Knowledge` |
| `AnswerComesNearer` | `NearerToTheAnswer` | `Knowledge`, for the types |
| `NoncesReported` | `EveryNonceReported` | `Knowledge` and `Leases` |
| `ConsumedIsServed` | `ConsumedWasServed` | `Knowledge` and `Accessed` |

- *Truth*: `Knowledge` says of every place where a transaction is written down (handler, polling,
  caches, receipt, answer) that what is said of it is so. Writers race, but each writes what it knows,
  and nodes forget nothing they took.
- *Nonces*: `Leases` says where a handler is while a nonce is lent to it and that it still holds the
  transaction signed with it; every step off that way tells NonceDO.
- *Nearer*: `Rank` counts the second round, if it is still to come, at the length of a whole one, plus
  the steps and attempts left in this one. Each step of the handler is shown to lower it; the one that
  starts over does so because it takes the round with it.
- *Receipts*: `Accessed` relates an access that is past the service to the count of those served.

Observed:

- access.ts:127: two accesses that both read the receipt before either consumes it both get the
  resource, though README.md:224 has a receipt used once.
- receipts that were stored as pending are never updated; the dedup key is the transaction
  alone, so a repeated request with other payment requirements gets the first one's answer.
- docs/agent-payment-guide.md:352 and routes/discovery.ts:577 have `RECEIPT_CONSUMED` as a 409;
  access.ts:130 answers 400.

## ApiKeys

Keys from their provisioning to the records of their use. Each KV get and put is a step, and any
invocation may stop after any of them.

| variable | code |
|---|---|
| `meta`, `byId`, `index` | `key:<hash>`, `keyId:<id>`, and `app:`/`btc:`/`stx:` entries |
| `usage`, `minute`, `day` | `usage:daily:`, `usage:minute:` |
| `prov`, `req`, `admin` | invocations: provisioning, `/sponsor`, the operator's CLI |

`ProvisionLooks` to `StoreIndex` are `provisionKeyByAddress` and `createKey`; `Revoked` and `Renewed`
what the operator's command puts over what it read; `Authenticate`, `TurnAway`, `CheckLimits`,
`CountMinute`, `CheckCap`, `Sponsor`, `Send`, `Ended`, `ReadUsage`, `PutFee`, `PutUse` the path of
`/sponsor`.

Abstractions: one operator's command at a time. Reads of KV are current: the delay of up to a minute until
a put or a delete is seen at another location is left out, in which a revoked key is still served. The standard tier behaves like the free one, with
other numbers. A request's estimate is any of the set `Estimates`, and its fee any of `Fees`: the code takes
50 microSTX per byte and at least 10,000 (endpoints/sponsor.ts:264) and does not compare that with the
fee, which comes from Hiro and clamps. `shared` and
`revoked` are history: whether another request of the key ran beside this one, and whether it
came after a revocation. Volumes and fee statistics of a key are left out.

| run | question | bounds | states | result |
|---|---|---|---|---|
| `keys` | indexes lead to keys; revoked keys serve nothing; cap and charges | 1 key, 2 names, 2 provisions, 2 requests, estimate 2, fees 1 and 4, cap 4, limits 1 and 2, two days | 2.29M | holds |
| `keys_fees` | fees are counted once | 1 provision, one day | | violated |

Why the bounds are enough: counters belong to a key, so one key and two requests give every
lost update; fees lie below and above the estimate, the cap is met and exceeded, within a day and across
midnight (a fee of 1 and then one of 4 are 5 in all); two
provisions race on one name. Provisions that generate two keys are covered by the theorem
`KeysAlwaysResolve`, which has no bounds. The deadlock check is off: invocations end.

- `KeysResolve`: wherever the three puts of a new key stop, an index never leads nowhere, and
  who was told a key can be found to revoke it.
- `RevokedNotServed`: through renewals, expiries and races, a request after a revocation ends at
  its authentication.
- `SpentAloneWithinCap`: the cap cannot hold for requests that overlap, as the counters are
  read and put. For those that do not, it holds up to what the last of them costs beyond its
  estimate: without that one, a free key's spending leaves room for the estimate.
- `ChargedForTaken`: refusals cost nothing.

The divergence `keys_fees`: `recordFeeSpent` (auth.ts:423) and `recordUsage` (277) both add the fee
(endpoints/sponsor.ts:452 and 471), so a key has half its cap.

Observed:

- `requests` counts successes only, so failing requests never reach the daily limit.
- when the answer is lost after the index was put, the address has a key nobody knows, and is
  refused another.
- two provisions of one address that look before either puts create two keys; the index has the
  last. `renewKey` puts back what it read, so that a key which another operator revoked
  meanwhile is active again (the run has one command at a time).

## FeeEstimates, Throttles, SponsorStatus, HealthChecks, Statistics, SenderNonces

Six small components that share no state with each other. `Services.tla` composes them, and
`HandTurns`: the first state picks the one that runs, so that the run's states are the sum of
theirs. Windows, limits, quotes and posts are its constants, with an assumption for each part;
`MC_Services.tla` gives them values, `Services_proofs.tla` reasons about any.

| module | code | state |
|---|---|---|
| `FeeEstimates` | `getEstimates` per KV call, `POST /fees/config`, expiries | clamps, cached fee, rate-limit marker, callers and operators |
| `Throttles` | `checkRateLimit`, `checkAndRecordMalformed` in one isolate | a window's count, an address's strikes, and history of both |
| `SponsorStatus` | `buildSponsorStatusSnapshot`, who refreshes it and who does not, `toSponsorStatusResult` | headroom, last gap, last sync, the snapshot |
| `HealthChecks` | `checkHealth`, `recordCheck` per KV call, `getStatus` | latest, history, the checks |
| `Statistics` | `/record`, `/error`, pruning, `/overview` with its windows | daily and hourly rows; history |
| `SenderNonces` | `checkSenderNonce` with its seeding, `markInFlight`, `updateSenderNonceOnBroadcast`, `updateSenderNonceOnConfirm`, between their gets and puts | one sender's entry and markers, submissions with their messages, chainhook calls, what the sender broadcast and the chain executed |

| run | part | bounds | question |
|---|---|---|---|
| `services` | fees | 2 callers, 2 operators, values 1 and 5 around clamps 2 to 4, two updates valid only one by one, and a ceiling beyond the numbers | a stored configuration is valid, or was stored without its ceiling; clamps take effect in the end |
| | throttles | limit 2, window 2, time to 4 | at most twice the limit in any window's length; blocked for recent strikes only |
| | status | windows 2 and 4, time to 5 | `canSponsor` is backed by room and a reconciliation not long ago |
| | health | 3 checks, a history of 2 | the status follows the last checks that ran alone |
| | statistics | 3 entries of 5 kinds, a client's and a relay's failure among them, 3 endpoints, days of 2 hours, time to 4 | the overview counts all, breakdowns add up |
| | turns | 4 senders, slice of 2 | see *SenderHand* |
| | nonces | 2 submissions, 1 chainhook call, nonces 0-1 | a submission is turned away only for what is so |

The run has 299,383 states. Each window spans several steps of the clock, which passes its end and a
midnight; clamps are crossed on both sides, and three checks give two that overlap beside one alone. Two nonces
give one below the last seen, and two submissions with a chainhook call every overlap of two puts and of
a put with a check. The deadlock check is off: clocks end.

Fairness, in `FeeEstimates`: a cached entry expires (KV's own time to live) and an invocation that has
clamped goes on to its put or is gone. In `HandTurns`: see *SenderHand*.

Abstractions: fees are of one transaction type and one priority. `MAX_TRACKED_IPS`, which drops
strikes, is left out. Headroom is none or some. A day has two hours, and the window of the
overview is a day. The backfill of the statistics and the transaction log are left out. Reads of KV are
current. Hiro answers `SenderNonces` with any last executed nonce up to the real one and any next nonce
after one that was broadcast; the sender also broadcasts outside the relay. A payment that is held and
broadcast by the alarm notes nothing, as one whose consumer dies. `lastCheck` of the health record is
not part of what `StatusFollowsChecks` says.

- `ClampsTakeEffect`: a fetch that read the old clamps may put its result after the delete, and a
  delete may fail; neither outlives the time to live. fee.ts:110 has it "immediately",
  which neither respects.
- `TwiceTheLimitAtMost`: windows are fixed, so the factor is real: a limit as such does not hold.
- `CanSponsorIsBacked`: run dispatches do not rebuild the snapshot, an alarm may fail before it
  does; the answer's windows bound how long that misleads.
- `StatusFollowsChecks`: the history is read and put; overlapping checks lose each other's entry.
- `OverviewCountsAll`: windows cross midnight and pruning removes hours; nothing posted within is
  missed or counted twice.
- `RefusalsTruthful`: seeds, notes and chainhooks put over each other, so what the relay knows goes up and
  down; still a nonce it calls confirmed was executed, the last one seen was broadcast, and one
  it calls in flight lies below one that was. A level that ran ahead would lock a sender out.

Observed:

- fees-config.ts:147-161: a ceiling of `1e999` is `Infinity` once parsed and passes for one above every
  floor. `JSON.stringify` (fee.ts:108) stores it as `null`, so that `getClampConfig` (fee.ts:75-87)
  throws away the whole configuration, the floors of all types included, for the defaults, while the
  operator was answered 200. The model has such an update; `StoredIsValid` says that nothing else
  makes a stored configuration be thrown away.
- sender-nonce.ts:217-226: `lastSeen` is the highest of a sender's nonces, and each nonce between it and
  the last confirmed one is told to be "already in-flight" though it may never have been broadcast: the
  sender that closes a gap is turned away. rpc.ts:279 tells the same submission that its nonce is "already
  confirmed on-chain".
- sponsor-status.ts: `SNAPSHOT_STALE` never decides alone, since a stale snapshot has a stale
  reconciliation; the condition of `ALL_WALLETS_DEGRADED` is contained in that of
  `NO_AVAILABLE_NONCES`; the refresh of a resync is outside its lock.
- stats-do.ts:1274: `/record` drops `terminalReason` and `walletIndex`. services/stats.ts:148 has the
  first increment a column, and no row per wallet and hour is ever written.
- hourly token counts go by the caller's timestamp and totals by the object's clock, so they need not
  add up in an hour; a backfill that runs twice doubles the transaction log.

## Proofs of ApiKeys

| theorem | property | assumption |
|---|---|---|
| `KeysAlwaysResolve` | `KeysResolve` | `KeyAssumption`: `None` is no key and no record; `KeyLife`, `MaxDay` are naturals |
| `RevokedKeysServeNothing` | `RevokedNotServed` | the same |
| `TypeCorrect` | `TypeOK` | and `RequestAssumption`: finitely many requests; fees, estimates, cap and minute limit are naturals |
| `ChargedTwiceAtMost` | `ChargedForTaken` | both |
| `AloneWithinCap` | `SpentAloneWithinCap` | both |

- *Keys*: `KeysResolve` is not inductive: it needs that the puts of a provision went in order, so that a
  provision at its second put has its metadata stored (`PutsInOrder`), the shapes of what
  is stored (`Shapes`), and that the operator's command puts back the record of a key that has one
  (`ReadIsCurrent`). `Kept` states what every step keeps: a stored key stays stored, a revoked one
  revoked.
- *Revocation*: from the same invariant, and `RefusalInv`: a request marked as coming after a
  revocation has failed, or is at its authentication and its key is still stored and still revoked
  (`Refused`); the step that could break it is another one's, which `Kept` excludes.
- *Sums*: what a set of requests owes is the cardinality of its units (`SumOf`), not a recursion over
  the set, so that the theorems about finite sets apply: more requests owe no less (`SumGrows`), and
  one more adds its fee (`SumAdds`). These are in `Sums_proofs`.
- *Counts*: `TypeOK` bounds a record's count by the number of requests. The invariant
  (`CountsAnswered`) bounds it, and every copy of it in flight, by the number of requests answered,
  which the put that adds one raises.
- *Charges*: a copy of a record that a request holds may be put back over later ones, so
  `ChargedForTaken` needs the same of every copy; and a request must have charged only as often as it
  has come by a put. `Due` is what the requests of a key have had the occasion to charge, once
  and twice; no record and no copy exceeds it (`NothingUndue`), and it only grows.
- *Cap*: that today's record holds every fee that requests spent alone, and every copy about to be
  put back as well (`Covered`); that a request past the check, alone on its key, still finds room for
  its estimate (`RoomLeft`); that requests of a key in flight at once know of each other
  (`SideBySide`), so that nothing else of the key answers meanwhile. A request that is answered alone
  is thus the last, whose estimate there was room for (`LastAnswered`).

## Proofs of the small services

| theorem | property | assumption |
|---|---|---|
| `ClampsStayValid` | `StoredIsValid` | `FeesAssumption`: quotes, default clamps and updates are naturals, an update may leave out either or have a ceiling of `Infinity`; `NoneAssumption`: `None` is none of these |
| `TwiceAtMost` | `TwiceTheLimitAtMost` | `ThrottleAssumption`: limits and windows are naturals, and the limit is not zero |
| `BlocksAreRecent` | `BlockedForRecent` | the same |
| `HealthyIsBacked` | `CanSponsorIsBacked` | `StatusAssumption`: windows are naturals |
| `ChecksTell` | `StatusFollowsChecks` | `HealthAssumption`: the history holds the checks that the status is drawn from |
| `OverviewComplete` | `OverviewCountsAll` | `StatsAssumption`: endpoints and tokens are finite sets, days have hours, an error of the client is no success |
| `BreakdownsAgree` | `BreakdownsAddUp` | the same |
| `RefusalsTrue` | `RefusalsTruthful` | `NonceAssumption`: the highest nonce is a natural; `NoneAssumption`: `None` is no entry |
| `TypeCorrect` | `TypeOK` | all of these |
| `PartsAsSpecified` | | |

All are theorems of `Services!Spec`; the assumptions are in `Services.tla`. That a client's error is
no success is what services/stats.ts:150-169 says: `logFailure` alone sets the mark, and it posts a
failure.

A step of the whole is for each part a step of its own or none (`PartsStep`), so each part has an
invariant of its own, shown from that part's `Init` and `Next` only: it holds of the part by itself
as well. `PartsAsSpecified` says that the composition adds nothing to a part: whatever it does
there, the part's own specification allows.

- *Clamps*: the value an operator is about to put was validated as a whole, after the merge; the JSON
  round trip keeps it or takes its ceiling away (`StoredValid`).
- *Throttles*: a window of the code is aligned with its first request, a stretch of the property
  with nothing. The invariant (`BucketInv`) names the tick the window began at: what came in since is
  no more than the bucket counts, what came in before it, in a stretch that reaches it, no more
  than the limit. A stretch is part of two windows at most, and each adds a limit at most.
  The property looks ahead, to ticks that have not come; there nothing has been let in yet.
  Strikes (`StrikesInv`) are no more than the payloads since the first of them, which is dropped by
  its age.
- *Status*: the snapshot may be older than the pool it describes. The invariant (`NotOutdated`) says
  that what it says was so at `asOf`, and what happened since is no older than `asOf`; a fresh snapshot
  misleads for `FreshFor` at most.
- *Health*: the code gives no order to the puts of overlapping checks. The invariant (`Aligned`) says
  that the history agrees with the checks as they ended, from the newest back as far as every one ran
  alone, and no further; one that runs alone puts what it read, since nobody
  else is there to put in between (`AloneIsAlone`). Cutting the history at its length loses only the
  oldest.
- *Statistics*: a day's row agrees with itself (`RowAgrees`), which needs no history: each post
  adds one to the total and to one place of each breakdown. An hour's row agrees with what was
  posted in that hour (`HourAgrees`), as long as it is kept; what pruning has removed is out of both
  windows for good, since the clock only advances. The overview adds rows up, so a sum of
  counts has to be the count of the union, and a sum of sums the sum over the union
  (`SumOfCounts`, `SumOfSums` over disjoint classes, in `Sums_proofs`). The day's fees, which stand in
  for a window without any, do so only when they are zero too: the hours of today lie in the
  window (`ZeroPaid`).

- *Sender nonces*: what an entry says is so (`TrueEntry`), in KV and in every copy about to be put, since
  each is made of a true one, of an answer of Hiro's, of a broadcast or of an execution; the larger of
  two true levels is true. The chain forgets neither, so a late put is an old truth. A marker is known by
  the submission that made it.

`Throttles` and `Statistics` sum by `SumOf`, as `ApiKeys` does: the provers cannot unfold a fold over a
set of unknown size.

## What is only model-checked, and what is not modelled

Only model-checked:

- every liveness property (`MessageSettles`, `MinedIsNoticed`, `ClampsTakeEffect`,
  `GoesRoundUnaligned`): TLAPS does not reason about liveness under fairness or about `ENABLED`, nor
  by induction over data;
- the four divergences, which are counterexamples.

Every invariant and every action property of the passing runs is a theorem, for any values of the
constants that the named assumptions allow.

Not modelled:

- `probe_queue` (ghost eviction), the scaling of the wallet pool and the surge log: they write
  rows of their own, and reach the ledger only through transfers that `Dispatch` has anyway;
- transaction verification (`verifyPaymentParams`, token contracts): pure, without state, about
  bytes and signatures; its verdict is nondeterministic where a handler asks for it;
- the HTTP surface, discovery documents and the dashboard: no state;
- the statistics' backfill and transaction log; volumes;
- parsing of the transaction stream: what it can say is in `Settlement` (`Streamed`).
