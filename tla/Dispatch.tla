------------------------------- MODULE Dispatch -------------------------------
(***************************************************************************)
(* dispatch_queue, replay_buffer and what moves sender transactions through *)
(* them: NonceDO's alarm, its admin and cancel routes                        *)
(* (src/src/durable-objects/nonce-do.ts), and the Worker that reports what it *)
(* broadcast (src/src/services/sponsor.ts).                                  *)
(*                                                                         *)
(* Sponsor nonces are per wallet.  A row of dispatch_queue is keyed by wallet *)
(* and sponsor nonce and holds a sender's transaction.  The alarm broadcasts  *)
(* queued rows, flushes the slots of stuck ones with a transfer of the wallet *)
(* to itself, and gets the flushed transactions going again: back through     *)
(* the sender's hand (recycleReplayBuffer) or at once with another sponsor    *)
(* nonce (processReplayBuffer).                                              *)
(*                                                                         *)
(* The alarm, /hand-submit, fill-gaps and flush-wallet hold the object's lock;*)
(* nothing else of the object runs meanwhile, but the node and the Workers do, *)
(* and a crash keeps what was written up to the last await: the alarm is one  *)
(* step per entry.  The cancel route holds no lock while it waits for the node. *)
(* Of the ledger (NonceLedger) this keeps the states; a row of it may name a   *)
(* txid or not.  The head of a wallet goes up and down, so that a nonce is handed *)
(* out again while rows of its earlier use are still there.                     *)
(***************************************************************************)
EXTENDS Integers, Sequences, SequencesExt, FiniteSets

CONSTANTS
    Senders,        \* accounts whose transactions are sponsored
    SenderNonces,   \* bound: nonces of their transactions
    WalletCount,    \* sponsor wallets
    MaxNonce,       \* bound: highest sponsor nonce of a wallet
    RecycleLimit,   \* entries recycleReplayBuffer takes in a tick (5)
    ReplayLimit,    \* maxPerCycle of processReplayBuffer (5)
    BroadcastLimit, \* MAX_BROADCASTS_PER_TICK (10)
    MaxWaiting,     \* bound: transactions held, and entries of replay_buffer
    MaxUpsets,      \* bound: steps against the ordinary course (Upset)
    Disturbed,      \* bound: sponsor nonces agents cancel and the node forgets
    None,
    Self            \* the transfer that fills or flushes a slot

Nonces == 0 .. MaxNonce
Txs == Senders \X SenderNonces     \* sender transactions

ASSUME DispatchAssumption ==
    /\ WalletCount \in Nat \ {0}
    /\ {MaxNonce, MaxWaiting, MaxUpsets} \subseteq Nat
    /\ {RecycleLimit, BroadcastLimit} \subseteq Nat \ {0}
    /\ ReplayLimit \in Nat
    /\ Disturbed \subseteq Nonces
    /\ SenderNonces \subseteq Nat
    /\ IsFiniteSet(Senders) /\ IsFiniteSet(SenderNonces)
    /\ {None, Self} \cap Txs = {}

Wallets == 0 .. WalletCount - 1
Heads == 0 .. MaxNonce + 1
Slots == Wallets \X Nonces

RowStates == {"queued", "dispatched", "replaying", "retired", "confirmed"}
NoRow == [tx |-> None, st |-> "none"]
Rows == {NoRow} \cup [tx : Txs, st : RowStates]

\* "free" stands for no row and for failed, conflict, expired and gap_fill.
IntentStates == {"free", "assigned", "broadcasted", "confirmed"}
Entries == [tx : Txs, slot : Slots]

VARIABLES
    row,        \* dispatch_queue
    intent,     \* nonce_intents: the state of each slot
    head,       \* next nonce of each wallet
    hand,       \* sender_hand
    buffer,     \* replay_buffer, oldest first
    alarm,      \* pc, and in its later parts what is left to do and the wallets to skip
    worker,     \* a Worker with a sponsored transaction
    cancel,     \* the slot of a cancel that waits for the node, if there is one
    mempool,    \* the node: what it holds for each slot
    executed,   \* the chain: next nonce of each wallet
    mined,      \* sender transactions on chain
    sent,       \* observer: slots the node has taken a sender transaction for
    upsets      \* bound: counts steps against the ordinary course

tables == <<row, intent, head, hand, buffer>>
chain == <<mempool, executed, mined, sent>>
vars == <<tables, alarm, worker, cancel, chain, upsets>>

At(pc, todo) == [pc |-> pc, todo |-> todo, skip |-> {}]
Idle == At("idle", <<>>)
NoWork == [pc |-> "idle", tx |-> None, slot |-> <<0, 0>>]
NoCancel == {}

Unlocked == alarm.pc = "idle"
Waiting == Cardinality(hand) + Len(buffer)
Buffered(t) == \E i \in DOMAIN buffer : buffer[i].tx = t
Known(t) == \/ Buffered(t) \/ t \in hand \/ t \in mined
            \/ \E s \in Slots : row[s].tx = t \/ mempool[s] = t
Active(s) == row[s].st \in {"queued", "dispatched"}
Before(r, s) == r[1] < s[1] \/ (r[1] = s[1] /\ r[2] < s[2])

\* ORDER BY: the one listing of S in which Lt increases.
Listings(S, Lt(_, _)) ==
    {f \in [1 .. Cardinality(S) -> S] : \A i, j \in DOMAIN f : i < j => Lt(f[i], f[j])}

--------------------------------------------------------------------------------
(***************************************************************************)
(* The node.  It takes x for a slot that is free, or that x outbids.  The fee *)
(* of the alarm's broadcasts is the lowest; flushes and Workers may outbid.   *)
(* A sender transaction is in one slot at a time.                             *)
(***************************************************************************)
Takes(s, x, outbids) ==
    /\ executed[s[1]] <= s[2]
    /\ x \notin mined
    /\ mempool[s] \in {None, x} \/ outbids
    /\ x = Self \/ outbids \/ \A r \in Slots \ {s} : mempool[r] # x

Place(s, x) ==
    /\ mempool' = [r \in Slots |-> IF r = s THEN x
                                   ELSE IF x # Self /\ mempool[r] = x THEN None
                                   ELSE mempool[r]]
    /\ sent' = IF x = Self THEN sent ELSE sent \cup {s}
    /\ UNCHANGED <<executed, mined>>

Mine(w) ==
    /\ executed[w] <= MaxNonce
    /\ mempool[<<w, executed[w]>>] # None
    /\ LET x == mempool[<<w, executed[w]>>] IN
       /\ executed' = [executed EXCEPT ![w] = @ + 1]
       /\ mined' = IF x = Self THEN mined ELSE mined \cup {x}
       /\ mempool' = [mempool EXCEPT ![<<w, executed[w]>>] = None]
    /\ UNCHANGED <<tables, alarm, worker, cancel, sent>>

Evict(s) ==
    /\ s[2] \in Disturbed /\ mempool[s] # None
    /\ mempool' = [mempool EXCEPT ![s] = None]
    /\ UNCHANGED <<tables, alarm, worker, cancel, executed, mined, sent>>

--------------------------------------------------------------------------------
(* Helpers of the object.                                                   *)

\* Mutant: reconcile ends with executed instead of the last executed nonce.
PassedInclusive(s) == s[2] <= executed[s[1]]

\* nonce <= last_executed_tx_nonce.
Passed(s) == s[2] < executed[s[1]]

\* ledgerAssign replaces the row.
Assign(s) == intent' = [intent EXCEPT ![s] = "assigned"]

\* ledgerRelease with a reason.
Release(s) == intent' = [intent EXCEPT ![s] = IF @ = "assigned" THEN "free" ELSE @]

\* Mutant: a row is written where there is none.
MovedBlindly(rows, s, st) == [rows EXCEPT ![s].st = st]

\* transitionQueueEntry updates the row, if there is one, whatever its state was.
Moved(rows, s, st) == IF rows[s] = NoRow THEN rows ELSE [rows EXCEPT ![s].st = st]

Open(s) == intent[s] \in {"assigned", "broadcasted"}

\* ledgerBroadcastOutcome of an accepted broadcast, on the rows it finds.
Outcome(rows, s) ==
    /\ intent' = [intent EXCEPT ![s] = IF Open(s) THEN "broadcasted" ELSE @]
    /\ row' = IF Open(s) THEN Moved(rows, s, "dispatched") ELSE rows

\* What may leave the hand H of a sender at once: its lowest transactions, up to a gap
\* or the headroom of a wallet.
Held(H, sender) == Listings({t \in H : t[1] = sender}, LAMBDA t, u : t[2] < u[2])
Runs(H, sender) == UNION {{SubSeq(held, 1, n) : n \in DOMAIN held} : held \in Held(H, sender)}

\* assignRunToWallet: consecutive nonces from the head, whatever rows are there.
AssignRun(run, w) ==
    LET n == Len(run)
        InRun(s) == s[1] = w /\ head[w] <= s[2] /\ s[2] < head[w] + n
    IN /\ n > 0 /\ head[w] + n \in Heads
       /\ head' = [head EXCEPT ![w] = @ + n]
       /\ intent' = [s \in Slots |-> IF InRun(s) THEN "assigned" ELSE intent[s]]
       /\ row' = [s \in Slots |-> IF InRun(s) THEN [tx |-> run[s[2] - head[w] + 1], st |-> "queued"]
                                   ELSE row[s]]

\* broadcastRbfForNonce, likewise fillGapNonce: the node took the transfer, whether or
\* not the caller heard of it; or it was refused, capped and so on, and nothing changes.
Flushes(s) == Takes(s, Self, TRUE) /\ Place(s, Self)
FlushFails(s) == UNCHANGED chain \/ Flushes(s)

\* What the node's refusals are read as; of a conflict and of too much chaining it says
\* whether the sender's or the sponsor's nonce is meant.
Refusals ==
    {"origin_conflict", "nonce_conflict", "origin_chaining", "chaining_limit", "nonce_too_low",
     "fee_too_low", "insufficient_funds", "invalid_transaction", "rate_limited", "server_error",
     "temporarily_blacklisted"}

\* decideBroadcastAction.
ActionOf ==
    [o \in Refusals |->
       CASE o \in {"origin_conflict", "origin_chaining", "invalid_transaction"} -> "report_to_agent"
         [] o \in {"nonce_conflict", "nonce_too_low", "insufficient_funds"}   -> "skip_nonce"
         [] o = "chaining_limit" -> "wait_for_confirmations"
         [] o = "fee_too_low"    -> "retry_with_higher_fee"
         [] OTHER                -> "retry_after_delay"]

\* LIMIT of the queries.
Batch(seq, limit) == SubSeq(seq, 1, IF limit < Len(seq) THEN limit ELSE Len(seq))

Retracted(s) == Append(buffer, [tx |-> row[s].tx, slot |-> s])

\* i is the oldest entry of the buffer among those in I, and it is deleted.
DropOldest(I) ==
    \E i \in I : (\A j \in I : i <= j) /\ buffer' = RemoveAt(buffer, i)

--------------------------------------------------------------------------------
(***************************************************************************)
(* Workers.  A transaction goes to the hand, where it stays (202) or has a run *)
(* put in the queue, or it takes a nonce from /assign; in the last two cases    *)
(* the Worker signs it, broadcasts it, and reports: the outcome first, then     *)
(* the release and the queue row.  It may die anywhere.                         *)
(***************************************************************************)
Working(pc, t, s) == worker' = [pc |-> pc, tx |-> t, slot |-> s]

\* checkAndAssignRun answers with the nonce of the first transaction of the run, and
\* the Worker signs its own with it, which may be a later one of the run or not in it.
Submit(t) ==
    /\ Unlocked /\ ~Known(t) /\ worker = NoWork
    /\ \/ /\ Waiting < MaxWaiting
          /\ hand' = hand \cup {t}
          /\ UNCHANGED <<row, intent, head, worker>>
       \/ \E w \in Wallets, run \in Runs(hand \cup {t}, t[1]) :
            /\ AssignRun(run, w)
            /\ hand' = (hand \cup {t}) \ ToSet(run)
            /\ Working("sign", t, <<w, head[w]>>)
       \/ \E w \in Wallets :
            /\ head[w] <= MaxNonce
            /\ head' = [head EXCEPT ![w] = @ + 1]
            /\ Assign(<<w, head[w]>>)
            /\ Working("sign", t, <<w, head[w]>>)
            /\ UNCHANGED <<row, hand>>
    /\ UNCHANGED <<buffer, alarm, cancel, chain>>

\* Mutant: the row is written before the node has answered.
WorkerBroadcastsLate ==
    /\ worker.pc = "sign"
    /\ Working("report", worker.tx, worker.slot)
    /\ UNCHANGED <<tables, alarm, cancel, chain>>

WorkerBroadcasts ==
    /\ worker.pc = "sign"
    /\ \E outbids \in BOOLEAN : Takes(worker.slot, worker.tx, outbids)
    /\ Place(worker.slot, worker.tx)
    /\ Working("outcome", worker.tx, worker.slot)
    /\ UNCHANGED <<tables, alarm, cancel>>

\* The node refused it: outcome and release with the reason.
WorkerRefused ==
    /\ worker.pc = "sign" /\ Unlocked
    /\ intent' = [intent EXCEPT ![worker.slot] = IF Open(worker.slot) THEN "free" ELSE @]
    /\ worker' = NoWork
    /\ UNCHANGED <<row, head, hand, buffer, alarm, cancel, chain>>

WorkerTellsOutcome ==
    /\ worker.pc = "outcome" /\ Unlocked
    /\ Outcome(row, worker.slot)
    /\ Working("report", worker.tx, worker.slot)
    /\ UNCHANGED <<head, hand, buffer, alarm, cancel, chain>>

\* Two calls at once, either of which may be lost: releaseNonce with a txid, which acts
\* on an assigned nonce only, and queueDispatch, which writes whatever is there.
WorkerReports ==
    /\ worker.pc = "report" /\ Unlocked
    /\ \/ intent' = [intent EXCEPT ![worker.slot] = IF @ = "assigned" THEN "confirmed" ELSE @]
       \/ UNCHANGED intent
    /\ \/ row' = [row EXCEPT ![worker.slot] = [tx |-> worker.tx, st |-> "dispatched"]]
       \/ UNCHANGED row
    /\ worker' = NoWork
    /\ UNCHANGED <<head, hand, buffer, alarm, cancel, chain>>

\* A call that is lost, or the Worker is gone.
WorkerSkips ==
    /\ worker # NoWork
    /\ \/ worker' = NoWork
       \/ worker.pc = "outcome" /\ Working("report", worker.tx, worker.slot)
    /\ UNCHANGED <<tables, alarm, cancel, chain>>

--------------------------------------------------------------------------------
(***************************************************************************)
(* The alarm: recycle, reconcile wallet by wallet, sweep the hands, broadcast *)
(* what is queued, replay what is buffered.                                  *)
(***************************************************************************)
\* recycleReplayBuffer: the oldest entries leave for the hand, whose own row wins if
\* there is one.
Recycle ==
    /\ Unlocked
    /\ hand' = hand \cup {buffer[i].tx : i \in DOMAIN Batch(buffer, RecycleLimit)}
    /\ buffer' = SubSeq(buffer, RecycleLimit + 1, Len(buffer))
    /\ alarm' = At("reconcile", <<>>)
    /\ UNCHANGED <<row, intent, head, worker, cancel, chain>>

Reconciling == alarm.pc = "reconcile"
AlarmOnly == UNCHANGED <<alarm, worker, cancel>>

\* ledgerMarkConfirmedByReconcile for a ledger row that names a txid, with an answer
\* of Hiro's no fresher than the chain.
Confirm(s) ==
    /\ Reconciling /\ Passed(s)
    /\ intent[s] # "confirmed" \/ row[s].st # "confirmed"
    /\ intent' = [intent EXCEPT ![s] = "confirmed"]
    /\ row' = Moved(row, s, "confirmed")
    /\ UNCHANGED <<head, hand, buffer, chain>>
    /\ AlarmOnly

\* A broadcast nonce Hiro does not show, or the head bump after a gap fill: a
\* transfer takes the slot, and the row keeps its state.  An aborted or replaced
\* transaction fails the nonce.
ReplaceStuck(s) ==
    /\ Reconciling /\ intent[s] \in {"broadcasted", "confirmed"}
    /\ \/ Flushes(s) /\ UNCHANGED intent
       \/ intent' = [intent EXCEPT ![s] = "free"] /\ UNCHANGED chain
    /\ UNCHANGED <<row, head, hand, buffer>>
    /\ AlarmOnly

\* An assigned nonce that is old expires.
ExpireAssigned(s) ==
    /\ Reconciling /\ intent[s] = "assigned"
    /\ intent' = [intent EXCEPT ![s] = "free"]
    /\ UNCHANGED <<row, head, hand, buffer, chain>>
    /\ AlarmOnly

\* fillGapNonce for a nonce without a live row; a refusal may end as a conflict.
FillGap(s) ==
    /\ Flushes(s)
    /\ intent' \in {intent, [intent EXCEPT ![s] = "confirmed"]}

FillGaps(s) ==
    /\ Reconciling \/ Unlocked          \* the alarm, or /fill-gaps
    /\ s[2] < head[s[1]]
    /\ intent[s] = "free"
    /\ FillGap(s)
    /\ UNCHANGED <<row, head, hand, buffer>>
    /\ AlarmOnly

\* Mutant: the entry is retracted whether or not the flush was taken.
FlushStuckAnyway(s) ==
    /\ Reconciling /\ row[s].st = "dispatched" /\ Waiting < MaxWaiting
    /\ FlushFails(s)
    /\ row' = Moved(row, s, "replaying")
    /\ buffer' = Retracted(s)
    /\ UNCHANGED <<intent, head, hand>>
    /\ AlarmOnly

\* runFlushAndReplayCycle, for a row that was dispatched STUCK_TX_AGE_MS ago.
FlushStuck(s) ==
    /\ Reconciling /\ row[s].st = "dispatched" /\ Waiting < MaxWaiting
    /\ Flushes(s)
    /\ \/ row' = Moved(row, s, "replaying") /\ buffer' = Retracted(s)
       \/ UNCHANGED <<row, buffer>>      \* the answer is lost
    /\ UNCHANGED <<intent, head, hand>>
    /\ AlarmOnly

\* What Hiro may say is the next nonce of w: what the chain has or had for it, or the
\* one after a transaction the node holds.
Shown(w) == {n \in Heads : n <= executed[w] \/ \E m \in Nonces : n = m + 1 /\ mempool[<<w, m>>] # None}

\* The forward bump, and the stale reset: down to what Hiro shows, but not below a row
\* that is assigned or broadcasted.  What else is there keeps its state.
MoveHead(w) ==
    /\ Reconciling
    /\ \E n \in Heads :
         /\ \/ n > head[w] /\ n \in Shown(w)
            \/ /\ n < head[w]
               /\ \A m \in n .. head[w] - 1 : ~Open(<<w, m>>)
               /\ n \in Shown(w) \/ (n > 0 /\ Open(<<w, n - 1>>))
         /\ head' = [head EXCEPT ![w] = n]
    /\ UNCHANGED <<row, intent, hand, buffer, chain>>
    /\ AlarmOnly

\* sweepHeldHands.
Sweep(sender) ==
    /\ alarm.pc = "sweep"
    /\ \E w \in Wallets, run \in Runs(hand, sender) :
         /\ AssignRun(run, w)
         /\ hand' = hand \ ToSet(run)
    /\ UNCHANGED <<buffer, chain>>
    /\ AlarmOnly

\* sweepExpiredHands.
ExpireHeld(t) ==
    /\ alarm.pc = "sweep" /\ t \in hand
    /\ hand' = hand \ {t}
    /\ UNCHANGED <<row, intent, head, buffer, chain>>
    /\ AlarmOnly

QueuedRows == {s \in Slots : row[s].st = "queued"}

\* A part with nothing to do is over at once, and so is one after its last entry.
StartReplay == IF Batch(buffer, ReplayLimit) = <<>> THEN Idle
               ELSE At("replay", Batch(buffer, ReplayLimit))

\* What a tick takes of the queue, by wallet and nonce.
StartBroadcast ==
    IF QueuedRows = {} THEN alarm' = StartReplay
    ELSE \E queue \in Listings(QueuedRows, Before) :
           alarm' = At("broadcast", Batch(queue, BroadcastLimit))

NextPart ==
    /\ \/ Reconciling /\ hand = {} /\ StartBroadcast
       \/ Reconciling /\ hand # {} /\ alarm' = At("sweep", <<>>)
       \/ alarm.pc = "sweep" /\ StartBroadcast
    /\ UNCHANGED <<tables, worker, cancel, chain>>

\* Wallets to skip after this entry; the replay starts from the buffer as it is now.
AlarmTail(skip) ==
    \/ /\ Len(alarm.todo) > 1
       /\ alarm' = [pc |-> alarm.pc, todo |-> Tail(alarm.todo), skip |-> alarm.skip \cup skip]
    \/ /\ Len(alarm.todo) <= 1
       /\ alarm' = IF alarm.pc = "broadcast" THEN StartReplay ELSE Idle

\* broadcastBoundedQueueEntries, one entry.
Broadcast ==
    /\ alarm.pc = "broadcast"
    /\ LET s == Head(alarm.todo)
           t == row[s].tx
       IN \/ /\ s[1] \in alarm.skip
             /\ AlarmTail({})
             /\ UNCHANGED <<row, intent, chain>>
          \/ /\ s[1] \notin alarm.skip
             /\ Takes(s, t, FALSE) /\ Place(s, t)
             /\ \/ Outcome(Moved(row, s, "dispatched"), s)
                \/ UNCHANGED <<row, intent>>      \* the answer is lost
             /\ AlarmTail({})
          \/ /\ s[1] \notin alarm.skip
             /\ \E action \in {ActionOf[o] : o \in Refusals} \cup {"log"} :   \* or an exception
                  /\ \/ /\ action \in {"report_to_agent", "skip_nonce"}
                        /\ row' = Moved(row, s, "retired")
                        /\ Release(s)
                     \/ /\ action \notin {"report_to_agent", "skip_nonce"}
                        /\ UNCHANGED <<row, intent>>
                  /\ AlarmTail(IF action = "wait_for_confirmations" THEN {s[1]} ELSE {})
             /\ UNCHANGED chain
    /\ UNCHANGED <<head, hand, buffer, worker, cancel>>

\* processReplayBuffer, one entry: the nonce is the head of a wallet with headroom,
\* and the head stays.  After an accepted broadcast the payment is written to KV,
\* which may fail and leave the entry; an exception leaves the nonce assigned.
Replay ==
    /\ alarm.pc = "replay"
    /\ LET e == Head(alarm.todo) IN
       \/ UNCHANGED <<row, intent, buffer, chain>>      \* no headroom
       \/ \E w \in Wallets :
            LET s == <<w, head[w]>>
                again == [row EXCEPT ![s] = [tx |-> e.tx, st |-> "dispatched"]]
            IN /\ head[w] <= MaxNonce
               /\ \/ /\ Takes(s, e.tx, FALSE) /\ Place(s, e.tx)
                     /\ \/ /\ row' = again
                           /\ intent' = [intent EXCEPT ![s] = "broadcasted"]
                           /\ \/ DropOldest({i \in DOMAIN buffer : buffer[i] = e})
                              \/ UNCHANGED buffer
                        \/ Assign(s) /\ UNCHANGED <<row, buffer>>
                  \/ /\ intent' \in {[intent EXCEPT ![s] = i] : i \in {"assigned", "free"}}
                     /\ UNCHANGED <<row, buffer, chain>>
    /\ AlarmTail({})
    /\ UNCHANGED <<head, hand, worker, cancel>>

\* The object dies: the alarm and a waiting cancel are gone, the tables stay.
Crash ==
    /\ ~Unlocked \/ cancel # NoCancel
    /\ alarm' = Idle
    /\ cancel' = NoCancel
    /\ UNCHANGED <<tables, worker, chain>>

--------------------------------------------------------------------------------
(***************************************************************************)
(* The admin's and the agents' routes.                                       *)
(***************************************************************************)
\* handleFlushWallet.  Of the range from the last executed nonce to the head, F is
\* what the node let through; rows of F in the queue are retracted in nonce order.
\* MAX_ADMIN_GAP_FILLS (50) lies beyond the headroom of a wallet, so the head stays.
FlushWallet(w) ==
    /\ Unlocked
    /\ \E F \in SUBSET {s \in Slots : /\ s[1] = w /\ executed[w] <= s[2] /\ s[2] < head[w]
                                       /\ Takes(s, Self, TRUE)} :
       \E back \in Listings({s \in F : Active(s)}, Before) :
       /\ Waiting + Len(back) <= MaxWaiting
       /\ mempool' = [s \in Slots |-> IF s \in F THEN Self ELSE mempool[s]]
       /\ row' = [s \in Slots |-> IF s \in F /\ Active(s) THEN [row[s] EXCEPT !.st = "replaying"]
                                  ELSE row[s]]
       /\ buffer' = buffer \o [i \in DOMAIN back |-> [tx |-> row[back[i]].tx, slot |-> back[i]]]
       /\ \E filled \in {F, {s \in F : row[s].st \in {"none", "retired", "confirmed"}}} :
             intent' = [s \in Slots |-> IF s \in filled THEN "confirmed" ELSE intent[s]]
    /\ UNCHANGED <<head, hand, alarm, worker, cancel, executed, mined, sent>>

\* performReset: the head goes to what the chain has, or had, as its next nonce.
Reset(w) ==
    /\ Unlocked
    /\ \E n \in 0 .. executed[w] : head' = [head EXCEPT ![w] = n]
    /\ UNCHANGED <<row, intent, hand, buffer, alarm, worker, cancel, chain>>

\* handleClearPools: the ledger is forgotten, queue, hand and buffer are not, and the
\* heads are seeded from Hiro.
ClearPools ==
    /\ Unlocked
    /\ intent' = [s \in Slots |-> "free"]
    /\ head' \in {h \in [Wallets -> Heads] : \A w \in Wallets : h[w] \in Shown(w)}
    /\ UNCHANGED <<row, hand, buffer, alarm, worker, cancel, chain>>

BufferOf(s) == {i \in DOMAIN buffer : buffer[i].slot = s}

\* DELETE /queue-sender by the owner of the entry.
Cancel(s) ==
    /\ Unlocked /\ cancel = NoCancel /\ s[2] \in Disturbed
    /\ \/ /\ row[s] # NoRow /\ row[s].st # "dispatched"
          /\ row' = IF row[s].st \in {"queued", "replaying"} THEN [row EXCEPT ![s] = NoRow]
                                                             ELSE row
          /\ IF row[s].st # "replaying" THEN UNCHANGED buffer
             ELSE \E kept \in Listings(DOMAIN buffer \ BufferOf(s), LAMBDA i, j : i < j) :
                    buffer' = [i \in DOMAIN kept |-> buffer[kept[i]]]
          /\ UNCHANGED cancel
       \/ /\ row[s].st = "dispatched"
          /\ cancel' = {s}
          /\ UNCHANGED <<row, buffer>>
       \/ /\ row[s] = NoRow
          /\ DropOldest(BufferOf(s))
          /\ UNCHANGED <<row, cancel>>
    /\ UNCHANGED <<intent, head, hand, alarm, worker, chain>>

\* The flush was tried; the row that is there now goes.
CancelEnds ==
    /\ Unlocked
    /\ \E s \in cancel : FlushFails(s) /\ row' = [row EXCEPT ![s] = NoRow]
    /\ cancel' = NoCancel
    /\ UNCHANGED <<intent, head, hand, buffer, alarm, worker>>

--------------------------------------------------------------------------------
Init ==
    /\ row = [s \in Slots |-> NoRow]
    /\ intent = [s \in Slots |-> "free"]
    /\ head = [w \in Wallets |-> 0]
    /\ hand = {}
    /\ buffer = <<>>
    /\ alarm = Idle
    /\ worker = NoWork
    /\ cancel = NoCancel
    /\ mempool = [s \in Slots |-> None]
    /\ executed = [w \in Wallets |-> 0]
    /\ mined = {}
    /\ sent = {}
    /\ upsets = 0

Worker ==
    \/ WorkerBroadcasts \/ WorkerRefused \/ WorkerTellsOutcome \/ WorkerReports

AlarmSlot(s) == Confirm(s) \/ ReplaceStuck(s) \/ ExpireAssigned(s) \/ FillGaps(s) \/ FlushStuck(s)

Ordinary ==
    \/ \E t \in Txs : Submit(t)
    \/ \E sender \in Senders : Sweep(sender)
    \/ \E s \in Slots : AlarmSlot(s)
    \/ \E w \in Wallets : Mine(w)
    \/ Worker \/ Recycle \/ NextPart \/ Broadcast \/ Replay \/ CancelEnds

Upset ==
    \/ \E t \in Txs : ExpireHeld(t)
    \/ \E s \in Slots : Evict(s) \/ Cancel(s)
    \/ \E w \in Wallets : MoveHead(w) \/ FlushWallet(w) \/ Reset(w)
    \/ ClearPools \/ WorkerSkips \/ Crash

Next ==
    \/ Ordinary /\ UNCHANGED upsets
    \/ upsets < MaxUpsets /\ Upset /\ upsets' = upsets + 1

Spec == Init /\ [][Next]_vars

--------------------------------------------------------------------------------
(* Properties.                                                              *)

\* The tables, the alarm, the Worker and the chain have their types.
TypeOK ==
    /\ row \in [Slots -> Rows]
    /\ intent \in [Slots -> IntentStates]
    /\ head \in [Wallets -> Heads]
    /\ hand \subseteq Txs
    /\ buffer \in Seq(Entries)
    /\ alarm.pc \in {"idle", "reconcile", "sweep", "broadcast", "replay"}
    /\ worker.tx \in Txs \cup {None} /\ worker.slot \in Slots
    /\ cancel \subseteq Slots
    /\ mempool \in [Slots -> Txs \cup {None, Self}]
    /\ executed \in [Wallets -> Heads]
    /\ mined \subseteq Txs
    /\ sent \subseteq Slots
    /\ upsets \in 0 .. MaxUpsets

\* A transaction comes into the replay buffer only when the node does not hold it any
\* more for the sponsor nonce it had: it is never re-sponsored beside itself.
FlushedBeforeReplayed ==
    [][\A i \in DOMAIN buffer' :
         Len(buffer) < i => mempool'[buffer'[i].slot] # buffer'[i].tx]_vars

\* The queue calls a nonce dispatched only when the node has taken a sender transaction
\* for it, so that nothing else is ever flushed as stuck: the caller that signs with the
\* nonce of another one's row, late reports, nonces handed out again after the head went
\* down, overwritten rows and replays on a nonce in use included.  That it was the row's
\* own transaction cannot be said.
DispatchedWasSent ==
    \A s \in Slots : row[s].st = "dispatched" => s \in sent

\* A row is confirmed only when the chain has executed its sponsor nonce.
ConfirmedIsExecuted ==
    \A s \in Slots : row[s].st = "confirmed" => s[2] < executed[s[1]]
=============================================================================
