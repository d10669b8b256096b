---------------------------- MODULE PaymentLifecycle ----------------------------
(***************************************************************************)
(* One payment artifact (a signed sender transaction) on its way through the *)
(* relay: rpc.submitPayment, the PAYMENT_QUEUE consumer, the sender hand and *)
(* the replay buffer of NonceDO, and the four places that learn what became  *)
(* of it (consumer, alarm, chainhook, a client's poll).                     *)
(*                                                                         *)
(* All of them share RELAY_KV, which has no compare-and-swap: each reads a   *)
(* record, decides, and puts a whole record back later.  A step here is what  *)
(* a process does between two awaits on KV, the queue or the node.           *)
(***************************************************************************)
EXTENDS Integers, FiniteSets

CONSTANTS
    Payments,       \* payment ids rpc.submitPayment may generate for the artifact
    None,           \* no payment
    MaxTx,          \* bound: sponsored transactions made of the artifact
    MaxAttempts     \* MAX_ATTEMPTS of the queue consumer

ASSUME PaymentsAssumption == None \notin Payments
ASSUME BoundsAssumption == MaxTx \in Nat /\ MaxAttempts \in Nat \ {0}

\* max_retries of the queue is MAX_ATTEMPTS, so there is one delivery more.
MaxDeliveries == MaxAttempts + 1
Txs == 1 .. MaxTx

\* PaymentRecord.status; "none" is a key that is absent.
Terminal == {"confirmed", "failed", "replaced"}
Statuses == {"none", "queued", "broadcasting", "mempool"} \cup Terminal

\* A PaymentRecord: its txid (0 for none), holdReason, and whether its
\* terminalReason is chain_abort.
Record == [status : Statuses, txid : 0 .. MaxTx,
           hold : {"no", "gap", "capacity"}, abort : BOOLEAN]
Absent == [status |-> "none", txid |-> 0, hold |-> "no", abort |-> FALSE]

\* Where the payment's transaction is inside NonceDO.
Places == {"no", "held", "dispatched"}

\* Everyone but the consumer who puts a record it read before: the alarm, and one of
\* the chainhook and the polls (bound: one at a time, they decide the same).
Writers == {"alarm", "observer"}

VARIABLES
    record,     \* KV payment:<id>
    artifact,   \* KV payment_artifact:<hash>
    marker,     \* KV sender_inflight:<signer>:<nonce>
    txidMap,    \* transactions with a KV txid_map:<txid> entry
    replacedTx, \* transactions with a KV replaced_tx:<txid> entry
    sub,        \* submitPayment invocation that generates the id
    msg,        \* queue message: attempt it waits with, 0 for none
    cons,       \* consumer invocation that works on the message
    late,       \* put that a writer has decided on and not yet made
    inDO,       \* the artifact as held, dispatched or replayed by NonceDO
    event,      \* nonce_events row of a transaction, until the alarm reads it
    tx,         \* the chain: state of every transaction made of the artifact
    owner       \* payment a transaction was made for

kv == <<record, artifact, marker, txidMap, replacedTx>>
chain == <<tx, owner>>
vars == <<kv, sub, msg, cons, late, inDO, event, chain>>

IdleConsumer == [pc |-> "idle", n |-> 0, rec |-> Absent, next |-> "ack"]
NoPut == [p |-> None, rec |-> Absent, map |-> 0]

Active(rec) == rec.status \notin Terminal \cup {"none"}
Free(w) == late[w] = NoPut
Executed(t) == tx[t] \in {"ok", "abort"}

\* The sponsor nonce of t was used up on the chain, by t or by another transaction.
Spent(t) == Executed(t) \/ tx[t] = "lost"

--------------------------------------------------------------------------------
(* transitionPayment: the hold fields survive only a transition that sets them. *)

Transition(rec, s) == [rec EXCEPT !.status = s, !.hold = "no"]
HeldRecord(rec, h) == [rec EXCEPT !.status = "queued", !.hold = h]
ToMempool(rec, t) == [Transition(rec, "mempool") EXCEPT !.txid = t]
FailedRecord(rec, aborted) == [Transition(rec, "failed") EXCEPT !.abort = aborted]

\* What a writer that found the transaction executed makes of the record.
Finalised(rec, ok) == IF ok THEN Transition(rec, "confirmed") ELSE FailedRecord(rec, TRUE)

--------------------------------------------------------------------------------
(***************************************************************************)
(* The node: the artifact has one sender nonce, so at most one of its        *)
(* transactions is pending or executed.                                     *)
(***************************************************************************)
NodeTakesIt == \A t \in Txs : tx[t] # "pending" /\ ~Executed(t)
NextTx(t) == tx[t] = "unused" /\ \A u \in Txs : u < t => tx[u] # "unused"

\* The node accepts transaction t, made for payment p.
Accept(t, p) ==
    /\ NodeTakesIt /\ NextTx(t)
    /\ tx' = [tx EXCEPT ![t] = "pending"]
    /\ owner' = [owner EXCEPT ![t] = p]

--------------------------------------------------------------------------------
(* rpc.submitPayment *)

\* getReusablePaymentRecord answers with the active payment of the artifact.
Reusable == artifact # None /\ Active(record[artifact])

\* The checks let the submission pass: no active payment, no in-flight marker, and a
\* nonce that is next, leaves a gap or is unknown (SenderNonces).  A stale artifact
\* index was deleted.
Admit(p) ==
    /\ sub[p] = "idle" /\ ~Reusable
    /\ ~marker
    /\ artifact' = None
    /\ sub' = [sub EXCEPT ![p] = "mark"]
    /\ UNCHANGED <<record, marker, txidMap, replacedTx>>
    /\ UNCHANGED <<msg, cons, late, inDO, event, chain>>

\* The nonce check rejects, by the marker or by what SenderNonces says, before an id
\* is generated.
TurnAway ==
    /\ ~Reusable
    /\ artifact' = None
    /\ UNCHANGED <<record, marker, txidMap, replacedTx>>
    /\ UNCHANGED <<sub, msg, cons, late, inDO, event, chain>>

\* markInFlight
Mark(p) ==
    /\ sub[p] = "mark"
    /\ marker' = TRUE
    /\ sub' = [sub EXCEPT ![p] = "record"]
    /\ UNCHANGED <<record, artifact, txidMap, replacedTx>>
    /\ UNCHANGED <<msg, cons, late, inDO, event, chain>>

\* createPaymentRecord, transitionPayment, putPaymentRecord
CreateRecord(p) ==
    /\ sub[p] = "record"
    /\ record' = [record EXCEPT ![p] = Transition(Absent, "queued")]
    /\ sub' = [sub EXCEPT ![p] = "index"]
    /\ UNCHANGED <<artifact, marker, txidMap, replacedTx>>
    /\ UNCHANGED <<msg, cons, late, inDO, event, chain>>

\* putPaymentArtifact
IndexArtifact(p) ==
    /\ sub[p] = "index"
    /\ artifact' = p
    /\ sub' = [sub EXCEPT ![p] = "send"]
    /\ UNCHANGED <<record, marker, txidMap, replacedTx>>
    /\ UNCHANGED <<msg, cons, late, inDO, event, chain>>

Enqueue(p) ==
    /\ sub[p] = "send"
    /\ msg' = [msg EXCEPT ![p] = 1]
    /\ sub' = [sub EXCEPT ![p] = "accepted"]
    /\ UNCHANGED <<kv, cons, late, inDO, event, chain>>

\* queue.send throws: the marker is cleared, the payment failed.
EnqueueFails(p) ==
    /\ sub[p] = "send"
    /\ marker' = FALSE
    /\ record' = [record EXCEPT ![p] = FailedRecord(@, FALSE)]
    /\ sub' = [sub EXCEPT ![p] = "over"]
    /\ UNCHANGED <<artifact, txidMap, replacedTx>>
    /\ UNCHANGED <<msg, cons, late, inDO, event, chain>>

\* The Worker dies, or a KV put throws, between two of these.
SubmitDies(p) ==
    /\ sub[p] \in {"mark", "record", "index", "send"}
    /\ sub' = [sub EXCEPT ![p] = "over"]
    /\ UNCHANGED <<kv, msg, cons, late, inDO, event, chain>>

--------------------------------------------------------------------------------
(***************************************************************************)
(* processPaymentMessage.  The invocation carries the record it read and     *)
(* every put overwrites the one in KV.                                      *)
(***************************************************************************)
\* Put rec, then go on with next.
Putting(n, rec, next) == [pc |-> "put", n |-> n, rec |-> rec, next |-> next]
At(p, pc) == cons[p].pc = pc
Goes(p, c) == cons' = [cons EXCEPT ![p] = c]
MayRetry(p) == cons[p].n < MaxAttempts

\* The message is acked at once: no record, or a terminal one.
AckUnread(p) ==
    /\ msg[p] > 0 /\ At(p, "idle")
    /\ ~Active(record[p])
    /\ msg' = [msg EXCEPT ![p] = 0]
    /\ UNCHANGED <<kv, sub, cons, late, inDO, event, chain>>

\* A record with a txid was broadcast by an earlier delivery; any other one
\* goes to broadcasting.
Take(p) ==
    /\ msg[p] > 0 /\ At(p, "idle")
    /\ Active(record[p])
    /\ Goes(p, IF record[p].txid # 0
                 THEN Putting(msg[p], Transition(record[p], "mempool"), "ack")
                 ELSE Putting(msg[p], Transition(record[p], "broadcasting"), "sponsor"))
    /\ msg' = [msg EXCEPT ![p] = 0]
    /\ UNCHANGED <<kv, sub, late, inDO, event, chain>>

\* Mutant: retried without end.
ConsumerPutsUnlimited(p) ==
    /\ At(p, "put")
    /\ record' = [record EXCEPT ![p] = cons[p].rec]
    /\ IF cons[p].next \in {"ack", "retry"}
         THEN Goes(p, IdleConsumer)
         ELSE Goes(p, [cons[p] EXCEPT !.pc = cons[p].next])
    /\ msg' = [msg EXCEPT ![p] = IF cons[p].next = "retry" THEN cons[p].n + 1 ELSE 0]
    /\ UNCHANGED <<artifact, marker, txidMap, replacedTx>>
    /\ UNCHANGED <<sub, late, inDO, event, chain>>

\* Mutant: the attempt is taken from the message body, which retry() never raises.
ConsumerPutsBodyAttempt(p) ==
    /\ At(p, "put")
    /\ record' = [record EXCEPT ![p] = cons[p].rec]
    /\ IF cons[p].next \in {"ack", "retry"}
         THEN Goes(p, IdleConsumer)
         ELSE Goes(p, [cons[p] EXCEPT !.pc = cons[p].next])
    /\ msg' = [msg EXCEPT ![p] = IF cons[p].next = "retry" THEN cons[p].n ELSE 0]
    /\ UNCHANGED <<artifact, marker, txidMap, replacedTx>>
    /\ UNCHANGED <<sub, late, inDO, event, chain>>

\* putPaymentRecord, and message.ack or message.retry when nothing follows; a
\* message retried too often goes to the dead-letter queue.
ConsumerPuts(p) ==
    /\ At(p, "put")
    /\ record' = [record EXCEPT ![p] = cons[p].rec]
    /\ IF cons[p].next \in {"ack", "retry"}
         THEN Goes(p, IdleConsumer)
         ELSE Goes(p, [cons[p] EXCEPT !.pc = cons[p].next])
    /\ msg' = [msg EXCEPT ![p] =
                 IF cons[p].next = "retry" /\ cons[p].n < MaxDeliveries
                   THEN cons[p].n + 1 ELSE 0]
    /\ UNCHANGED <<artifact, marker, txidMap, replacedTx>>
    /\ UNCHANGED <<sub, late, inDO, event, chain>>

\* sponsorTransaction answers "held": a gap is acked and left to NonceDO, a lack of
\* capacity is retried however often it was delivered.
SponsorHolds(p) ==
    /\ At(p, "sponsor")
    /\ inDO[p] # "dispatched"
    /\ inDO' = [inDO EXCEPT ![p] = "held"]
    /\ \/ Goes(p, Putting(cons[p].n, HeldRecord(cons[p].rec, "gap"), "ack"))
       \/ Goes(p, Putting(cons[p].n, HeldRecord(cons[p].rec, "capacity"), "retry"))
    /\ UNCHANGED <<kv, sub, msg, late, event, chain>>

\* Contention (RATE_LIMIT_EXCEEDED, LOW_HEADROOM, ...) before, or a conflict or
\* too much chaining at the broadcast: queued again while attempts are left.
TriesAgain(p) ==
    /\ At(p, "sponsor") \/ At(p, "send")
    /\ MayRetry(p)
    /\ Goes(p, Putting(cons[p].n, Transition(cons[p].rec, "queued"), "retry"))
    /\ UNCHANGED <<kv, sub, msg, late, inDO, event, chain>>

\* A terminal answer of either: the marker is cleared, then the record failed.
GivesUp(p) ==
    /\ At(p, "sponsor") \/ At(p, "send")
    /\ marker' = FALSE
    /\ Goes(p, Putting(cons[p].n, FailedRecord(cons[p].rec, FALSE), "ack"))
    /\ UNCHANGED <<record, artifact, txidMap, replacedTx>>
    /\ UNCHANGED <<sub, msg, late, inDO, event, chain>>

\* The transaction is signed.  It left the hand, unless the sponsor service went
\* around the hand to /assign.
SponsorSigns(p) ==
    /\ At(p, "sponsor")
    /\ Goes(p, [cons[p] EXCEPT !.pc = "send"])
    /\ inDO' \in {inDO, [inDO EXCEPT ![p] = IF @ = "held" THEN "no" ELSE @]}
    /\ UNCHANGED <<kv, sub, msg, late, event, chain>>

\* The node accepts; NonceDO is told, then the record is put with the txid.
Broadcasts(p) ==
    /\ At(p, "send")
    /\ \E t \in Txs :
         /\ Accept(t, p)
         /\ Goes(p, Putting(cons[p].n, ToMempool(cons[p].rec, t), "map"))
    /\ UNCHANGED <<kv, sub, msg, late, inDO, event>>

\* The node accepts and its answer is lost: a terminal broadcast failure.
BroadcastAckLost(p) ==
    /\ At(p, "send")
    /\ \E t \in Txs : Accept(t, p)
    /\ marker' = FALSE
    /\ Goes(p, Putting(cons[p].n, FailedRecord(cons[p].rec, FALSE), "ack"))
    /\ UNCHANGED <<record, artifact, txidMap, replacedTx>>
    /\ UNCHANGED <<sub, msg, late, inDO, event>>

\* txid_map; a put that fails is only logged.
ConsumerMaps(p) ==
    /\ At(p, "map")
    /\ txidMap' \in {txidMap, txidMap \cup {cons[p].rec.txid}}
    /\ Goes(p, [cons[p] EXCEPT !.pc = "note"])
    /\ UNCHANGED <<record, artifact, marker, replacedTx>>
    /\ UNCHANGED <<sub, msg, late, inDO, event, chain>>

\* clearInFlight, ack; updateSenderNonceOnBroadcast between the two is SenderNonces'.
ConsumerNotes(p) ==
    /\ At(p, "note")
    /\ marker' = FALSE
    /\ Goes(p, IdleConsumer)
    /\ UNCHANGED <<record, artifact, txidMap, replacedTx>>
    /\ UNCHANGED <<sub, msg, late, inDO, event, chain>>

\* The invocation dies or throws: it is delivered again, at most MaxDeliveries
\* times; handlePaymentQueue itself drops what throws on its last attempt.
ConsumerDies(p) ==
    /\ cons[p].pc # "idle"
    /\ Goes(p, IdleConsumer)
    /\ \E n \in {0, cons[p].n + 1} :
         /\ n = 0 => ~MayRetry(p)
         /\ n <= MaxDeliveries
         /\ msg' = [msg EXCEPT ![p] = n]
    /\ UNCHANGED <<kv, sub, late, inDO, event, chain>>

--------------------------------------------------------------------------------
(* NonceDO: one alarm, so one of these is between its read and its put.      *)

\* Writer w decides on a put of rec for payment p; map is a transaction it then
\* also maps to p.
Decides(w, p, rec, map) == late' = [late EXCEPT ![w] = [p |-> p, rec |-> rec, map |-> map]]

\* The sweep dispatches a held transaction: syncPaymentsAfterQueueAssignment.
SweepHeld(p) ==
    /\ Free("alarm") /\ inDO[p] = "held"
    /\ inDO' = [inDO EXCEPT ![p] = "dispatched"]
    /\ IF Active(record[p])
         THEN Decides("alarm", p, [record[p] EXCEPT !.hold = "no"], 0)
         ELSE UNCHANGED late
    /\ UNCHANGED <<kv, sub, msg, cons, event, chain>>

\* sweepExpiredHands: the row goes, the record stays as it is.
HandExpires(p) ==
    /\ inDO[p] = "held"
    /\ inDO' = [inDO EXCEPT ![p] = "no"]
    /\ UNCHANGED <<kv, sub, msg, cons, late, event, chain>>

\* broadcastBoundedQueueEntries or processReplayBuffer gets it through:
\* syncPaymentAfterBroadcast, which maps the txid whatever the record is.
AlarmBroadcasts(p) ==
    /\ Free("alarm") /\ inDO[p] = "dispatched"
    /\ inDO' = [inDO EXCEPT ![p] = "no"]
    /\ \E t \in Txs :
         /\ Accept(t, p)
         /\ Decides("alarm", p, IF Active(record[p]) THEN ToMempool(record[p], t) ELSE Absent, t)
    /\ UNCHANGED <<kv, sub, msg, cons, event>>

\* The entry is retired after its last attempt.
AlarmRetires(p) ==
    /\ inDO[p] = "dispatched"
    /\ inDO' = [inDO EXCEPT ![p] = "no"]
    /\ UNCHANGED <<kv, sub, msg, cons, late, event, chain>>

\* Reconciliation found the sponsor nonce at or below the last executed one, whatever
\* the transaction's own status and whichever transaction used the nonce, or (a stale
\* view of it) looked an abort up.
Reconcile(t) ==
    /\ event[t] = "none" /\ Spent(t)
    /\ \E e \in {"confirmed", "aborted"} :
         /\ e = "aborted" => tx[t] = "abort"
         /\ event' = [event EXCEPT ![t] = e]
    /\ UNCHANGED <<kv, sub, msg, cons, late, inDO, chain>>

\* processConfirmationNotifications reads the event; the cursor passes it even
\* when the txid is not mapped yet.
NotifyConfirmation(t) ==
    /\ Free("alarm") /\ event[t] \in {"confirmed", "aborted"}
    /\ event' = [event EXCEPT ![t] = "read"]
    /\ LET p == owner[t] IN
         IF t \in txidMap /\ Active(record[p])
           THEN Decides("alarm", p, Finalised(record[p], event[t] = "confirmed"), 0)
           ELSE UNCHANGED late
    /\ UNCHANGED <<kv, sub, msg, cons, inDO, chain>>

\* A stuck transaction is replaced by a self-transfer of the sponsor: by the RBF
\* pass and the head bump (told: replaced_tx is written, unless that put fails), by
\* the flush cycle (replay: the artifact goes to the replay buffer), or by both.  A
\* stuck transaction is older than any consumer that made it.
Replace(t, told, replay) ==
    /\ Free("alarm") /\ tx[t] \in {"pending", "gone"}
    /\ At(owner[t], "idle")
    /\ tx' = [tx EXCEPT ![t] = "replaced"]
    /\ replacedTx' = IF told THEN replacedTx \cup {t} ELSE replacedTx
    /\ inDO' = IF replay THEN [inDO EXCEPT ![owner[t]] = "dispatched"] ELSE inDO
    /\ UNCHANGED <<record, artifact, marker, txidMap>>
    /\ UNCHANGED <<sub, msg, cons, late, event, owner>>

\* processReplacementNotifications: the entry goes whether or not it matched.
NotifyReplacement(t) ==
    /\ Free("alarm") /\ t \in replacedTx
    /\ replacedTx' = replacedTx \ {t}
    /\ LET p == owner[t] IN
         IF t \in txidMap /\ Active(record[p])
           THEN Decides("alarm", p, Transition(record[p], "replaced"), 0)
           ELSE UNCHANGED late
    /\ UNCHANGED <<record, artifact, marker, txidMap>>
    /\ UNCHANGED <<sub, msg, cons, inDO, event, chain>>

--------------------------------------------------------------------------------
(* The chainhook, the client's poll, and the puts that were decided.          *)

\* POST /webhook/chainhook for an executed transaction, once, again or never.
Chainhook(t) ==
    /\ Free("observer") /\ Executed(t)
    /\ LET p == owner[t] IN
         IF t \in txidMap /\ Active(record[p])
           THEN Decides("observer", p, Finalised(record[p], tx[t] = "ok"), 0)
           ELSE UNCHANGED late
    /\ UNCHANGED <<record, artifact, marker, txidMap, replacedTx>>
    /\ UNCHANGED <<sub, msg, cons, inDO, event, chain>>

\* Mutant: every answer that is not a success fails the payment.
SelfHealAnyStatus(p) ==
    /\ Free("observer") /\ record[p].status = "mempool" /\ record[p].txid # 0
    /\ Decides("observer", p, Finalised(record[p], tx[record[p].txid] = "ok"), 0)
    /\ UNCHANGED <<kv, sub, msg, cons, inDO, event, chain>>

\* Mutant: only a success heals.
SelfHealSuccessOnly(p) ==
    /\ Free("observer") /\ record[p].status = "mempool" /\ record[p].txid # 0
    /\ tx[record[p].txid] = "ok"
    /\ Decides("observer", p, Finalised(record[p], TRUE), 0)
    /\ UNCHANGED <<kv, sub, msg, cons, inDO, event, chain>>

\* selfHealMempoolRecord, from GET /payment/:id or checkPayment.
SelfHeal(p) ==
    /\ Free("observer") /\ record[p].status = "mempool" /\ record[p].txid # 0
    /\ Executed(record[p].txid)
    /\ Decides("observer", p, Finalised(record[p], tx[record[p].txid] = "ok"), 0)
    /\ UNCHANGED <<kv, sub, msg, cons, inDO, event, chain>>

\* A poll first has NonceDO repair and dispatch a payment held for a gap.
Poll(p) ==
    \/ record[p].status = "queued" /\ record[p].hold = "gap" /\ SweepHeld(p)
    \/ SelfHeal(p)

\* projectPaymentRecord: the terminal reason is shown with a terminal status only.
Projected(rec) == [rec EXCEPT !.abort = @ /\ rec.status \in Terminal]

\* What checkPayment and GET /payment/:id answer of the record they read.
Answer(p) ==
    IF record[p] = Absent THEN [Absent EXCEPT !.status = "not_found"]
    ELSE Projected(record[p])

LatePut(w) ==
    /\ ~Free(w)
    /\ record' = IF late[w].rec = Absent THEN record
                 ELSE [record EXCEPT ![late[w].p] = late[w].rec]
    /\ txidMap' = txidMap \cup ({late[w].map} \cap Txs)
    /\ late' = [late EXCEPT ![w] = NoPut]
    /\ UNCHANGED <<artifact, marker, replacedTx>>
    /\ UNCHANGED <<sub, msg, cons, inDO, event, chain>>

--------------------------------------------------------------------------------
(* The chain, and the TTLs: 24 hours for a record, refreshed by every put.    *)

Mine(t, outcome) ==
    /\ tx[t] = "pending"
    /\ tx' = [tx EXCEPT ![t] = outcome]
    /\ UNCHANGED <<kv, sub, msg, cons, late, inDO, event, owner>>

Evict(t) ==
    /\ tx[t] = "pending"
    /\ tx' = [tx EXCEPT ![t] = "gone"]
    /\ UNCHANGED <<kv, sub, msg, cons, late, inDO, event, owner>>

\* Another transaction is executed at the sponsor nonce of t: a flush, a gap fill, a
\* replacement, or a transaction that was given the nonce after a reset; a pending t
\* is dropped first.
SlotTaken(t) ==
    /\ tx[t] \in {"gone", "replaced"}
    /\ tx' = [tx EXCEPT ![t] = "lost"]
    /\ UNCHANGED <<kv, sub, msg, cons, late, inDO, event, owner>>

\* A day passes: nothing that lives for minutes (an invocation, a message with its
\* retries, a put that was decided, a held transaction) is under way.
Quiet ==
    /\ \A p \in Payments :
         /\ sub[p] \in {"idle", "accepted", "over"}
         /\ msg[p] = 0 /\ At(p, "idle") /\ inDO[p] # "held"
    /\ \A w \in Writers : Free(w)
    /\ ~marker

ExpireRecord(p) ==
    /\ Quiet /\ record[p] # Absent
    /\ record' = [record EXCEPT ![p] = Absent]
    /\ UNCHANGED <<artifact, marker, txidMap, replacedTx>>
    /\ UNCHANGED <<sub, msg, cons, late, inDO, event, chain>>

\* The index is put once and lives 24 hours from then.
ExpireIndex ==
    /\ Quiet /\ artifact # None
    /\ artifact' = None
    /\ UNCHANGED <<record, marker, txidMap, replacedTx>>
    /\ UNCHANGED <<sub, msg, cons, late, inDO, event, chain>>

\* sender_inflight lives five minutes.
ExpireMarker ==
    /\ marker /\ marker' = FALSE
    /\ UNCHANGED <<record, artifact, txidMap, replacedTx>>
    /\ UNCHANGED <<sub, msg, cons, late, inDO, event, chain>>

--------------------------------------------------------------------------------
Init ==
    /\ record = [p \in Payments |-> Absent]
    /\ artifact = None /\ marker = FALSE
    /\ txidMap = {} /\ replacedTx = {}
    /\ sub = [p \in Payments |-> "idle"]
    /\ msg = [p \in Payments |-> 0]
    /\ cons = [p \in Payments |-> IdleConsumer]
    /\ late = [w \in Writers |-> NoPut]
    /\ inDO = [p \in Payments |-> "no"]
    /\ event = [t \in Txs |-> "none"]
    /\ tx = [t \in Txs |-> "unused"]
    /\ owner = [t \in Txs |-> None]

Submit(p) ==
    \/ Admit(p) \/ Mark(p) \/ CreateRecord(p) \/ IndexArtifact(p)
    \/ Enqueue(p) \/ EnqueueFails(p) \/ SubmitDies(p)

ConsumerStep(p) ==
    \/ AckUnread(p) \/ Take(p) \/ ConsumerPuts(p) \/ SponsorHolds(p) \/ TriesAgain(p)
    \/ GivesUp(p) \/ SponsorSigns(p) \/ Broadcasts(p) \/ BroadcastAckLost(p)
    \/ ConsumerMaps(p) \/ ConsumerNotes(p)

Alarm ==
    \/ \E p \in Payments : SweepHeld(p) \/ HandExpires(p) \/ AlarmBroadcasts(p) \/ AlarmRetires(p)
    \/ \E t \in Txs : Reconcile(t) \/ NotifyConfirmation(t) \/ NotifyReplacement(t)
    \/ \E t \in Txs, told, replay \in BOOLEAN : Replace(t, told, replay)

Environment ==
    \/ \E t \in Txs : Mine(t, "ok") \/ Mine(t, "abort") \/ Evict(t) \/ SlotTaken(t)
    \/ ExpireIndex \/ ExpireMarker
    \/ \E p \in Payments : ExpireRecord(p)

Next ==
    \/ \E p \in Payments : Submit(p) \/ ConsumerStep(p) \/ ConsumerDies(p) \/ Poll(p)
    \/ TurnAway
    \/ \E t \in Txs : Chainhook(t)
    \/ \E w \in Writers : LatePut(w)
    \/ Alarm
    \/ Environment

\* The queue delivers what waits, an invocation goes on or dies, a put that was
\* decided is made, and a client polls a payment until it is terminal.  Nothing is
\* assumed of the alarm, the chainhook or the chain.
Fairness ==
    /\ \A p \in Payments : WF_vars(ConsumerStep(p)) /\ WF_vars(SelfHeal(p))
    /\ \A w \in Writers : WF_vars(LatePut(w))

Spec == Init /\ [][Next]_vars /\ Fairness
--------------------------------------------------------------------------------
(* Properties *)

\* Type correctness of the KV entries, the processes and the chain.
TypeOK ==
    /\ record \in [Payments -> Record]
    /\ artifact \in Payments \cup {None}
    /\ marker \in BOOLEAN
    /\ txidMap \subseteq Txs /\ replacedTx \subseteq Txs
    /\ sub \in [Payments -> {"idle", "mark", "record", "index", "send", "accepted", "over"}]
    /\ msg \in [Payments -> 0 .. MaxDeliveries]
    /\ cons \in [Payments -> [pc : {"idle", "put", "sponsor", "send", "map", "note"},
                              n : 0 .. MaxDeliveries, rec : Record,
                              next : {"ack", "retry", "sponsor", "map"}]]
    /\ late \in [Writers -> [p : Payments \cup {None}, rec : Record, map : 0 .. MaxTx]]
    /\ inDO \in [Payments -> Places]
    /\ event \in [Txs -> {"none", "confirmed", "aborted", "read"}]
    /\ tx \in [Txs -> {"unused", "pending", "ok", "abort", "gone", "replaced", "lost"}]
    /\ owner \in [Txs -> Payments \cup {None}]

\* Whatever the writers of a record do to each other, a caller is never shown a txid
\* the node did not take for that payment, an abort where there was none, or a
\* confirmation before the chain used the sponsor nonce of one of its transactions up.
\* No more can be said of a confirmation: ledgerMarkConfirmedByReconcile goes by the
\* nonce, so that the transaction may have aborted, or another one have taken its place.
Truthful(p, rec) ==
    /\ rec.txid # 0 => owner[rec.txid] = p
    /\ rec.abort => \E t \in Txs : owner[t] = p /\ tx[t] = "abort"
    /\ rec.status = "confirmed" => \E t \in Txs : owner[t] = p /\ Spent(t)
AnswersTruthful == \A p \in Payments : Truthful(p, Answer(p))

\* A message does not go round for ever: holds for capacity are retried without a
\* look at the attempt, and still every message ends acked or dead-lettered.
MessageSettles == \A p \in Payments : []<>(msg[p] = 0 /\ At(p, "idle"))

\* No payment stays in the mempool for ever after its transaction was executed, even if
\* chainhook and alarm missed it: a client that polls heals it.
MinedIsNoticed ==
    \A p \in Payments :
        []<>~(record[p].status = "mempool" /\ record[p].txid # 0 /\ Executed(record[p].txid))

\* Refuted by the code: a payment none of whose transactions succeeded on the chain is
\* not confirmed (payment-status.ts:32, "failed: terminal failure (abort_*, ...)").
ConfirmedMeansSuccess ==
    \A p \in Payments : record[p].status = "confirmed"
        => \E t \in Txs : owner[t] = p /\ tx[t] = "ok"
================================================================================
