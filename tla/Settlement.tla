------------------------------- MODULE Settlement -------------------------------
(***************************************************************************)
(* Requests that settle one and the same signed payment: POST /relay         *)
(* (sponsored, or self-pay) and POST /settle (auto-sponsored, or signed by    *)
(* its sponsor already), the caches in RELAY_KV that make a repeated request  *)
(* idempotent, the receipts, and POST /access that spends one.               *)
(*                                                                         *)
(* The payment is the key of the dedup cache: all requests here send the same *)
(* transaction hex.  A step is what a handler does between two awaits on KV,  *)
(* on NonceDO or on the node.                                               *)
(***************************************************************************)
EXTENDS Naturals, FiniteSets

CONSTANTS
    Requests,       \* requests that send the payment
    Accesses,       \* requests that spend one of its receipts
    Idents,         \* which payload each request's payment-identifier stands for, 0
                    \* without one: the assignments to consider
    None,           \* no transaction
    MaxTries        \* bound: BROADCAST_MAX_ATTEMPTS times the number of nodes

ASSUME IdentsAssumption == Idents \subseteq [Requests -> Nat]
ASSUME TriesAssumption == MaxTries \in Nat \ {0}

Modes == {"relay", "settle"}

\* The transactions made of the payment: as it was sent, when it needs no sponsor;
\* otherwise one for each time a request had it sponsored.
Plain == <<None, 1>>
Versions == {Plain} \cup (Requests \X {1, 2})

ASSUME NoneAssumption == None \notin Requests \cup Versions

VARIABLES
    mode,       \* the endpoint each request calls
    sponsorable,\* the payment has an empty sponsor slot
    ident,      \* payload of each request's payment-identifier
    pool,       \* transaction in the mempool
    chain,      \* transaction executed, and with what result
    accepted,   \* history: transactions a node ever took
    dedup,      \* KV dedup:<hash of the payment>
    cooldown,   \* KV conflict:<sender>
    payid,      \* KV payid:settle:<id>
    txStatus,   \* KV tx_status:<txid>
    receipts,   \* KV receipt:<id>, one id per request
    nonce,      \* what NonceDO was told of a version's sponsor nonce
    h,          \* handler of each request
    answer,     \* what the client was told
    background, \* confirmation polling /settle leaves behind
    acc,        \* handler of each access
    served      \* receipts' accesses that got the resource

node == <<pool, chain, accepted>>
kv == <<dedup, cooldown, payid, txStatus, receipts>>
process == <<h, answer, nonce, background>>
access == <<acc, served>>
given == <<mode, sponsorable, ident>>
vars == <<node, kv, process, access, given>>

\* What a handler holds: where it is, which sponsoring and which broadcast attempt it
\* is at, whether lastBroadcastError is set, the version, and what is known of it.
Handler == [pc : {"new", "dedup", "liveness", "cooldown", "sponsor", "verify", "send",
                  "await", "receipt", "record", "status", "done", "dead"},
            round : {1, 2}, try : 1 .. MaxTries, failed : BOOLEAN,
            tx : Versions, status : {"pending", "confirmed"}]
Answer == [kind : {"none", "ok", "held", "conflict", "refused", "unsent", "aborted"},
           tx : Versions \cup {None}, status : {"pending", "confirmed"}]

NoEntry == [tx |-> None, status |-> "pending", old |-> FALSE]
NoReceipt == [tx |-> None, status |-> "pending", consumed |-> FALSE]
NoPayId == [tx |-> None, hash |-> 0]
NotPolling == [tx |-> None, sees |-> "nothing"]
NoAnswer == [kind |-> "none", tx |-> None, status |-> "pending"]

\* A handler that starts, and one that is over: all that is kept of it is the attempt it
\* was at.
Empty(pc, try) == [pc |-> pc, round |-> 1, try |-> try, failed |-> FALSE, tx |-> Plain,
                   status |-> "pending"]
Start == Empty("new", 1)
Over(r, pc) == h' = [h EXCEPT ![r] = Empty(pc, h[r].try)]

At(r, pc) == h[r].pc = pc
Goes(r, pc) == h' = [h EXCEPT ![r].pc = pc]
Finish(r, kind, tx, status) ==
    /\ Over(r, "done")
    /\ answer' = [answer EXCEPT ![r] = [kind |-> kind, tx |-> tx, status |-> status]]
Refuse(r, kind) == Finish(r, kind, None, "pending")

\* releaseNonceDO or nonceLifecycleOnBroadcastSuccess by waitUntil, for a sponsored version.
Tell(r, what) == IF sponsorable THEN [nonce EXCEPT ![h[r].tx] = what] ELSE nonce

--------------------------------------------------------------------------------
(* The node and Hiro's index. *)

\* The versions share the sender's nonce: none is taken once one was executed; a later
\* one may replace an earlier one by its fee.
Takes(v) == chain.tx = None
Accept(v) == Takes(v) /\ pool' = v /\ accepted' = accepted \cup {v} /\ UNCHANGED chain

Executed(v, ok) == chain.tx = v /\ chain.ok = ok

\* tx_status values that Hiro may give for v; its index may lag, and a transaction in
\* the mempool may be shown as dropped.
HiroSays(v) ==
    {"not_found", "pending"}
    \cup (IF v \in accepted /\ chain.tx = None THEN {"dropped"} ELSE {})
    \cup (IF Executed(v, TRUE) THEN {"success", "success_without_height"} ELSE {})
    \cup (IF Executed(v, FALSE) THEN {"abort"} ELSE {})

\* Mutant: a status that is not known is passed on as it is.
InterpretAsIs(s) ==
    CASE s = "success" -> "confirmed"
      [] s = "abort" -> "aborted"
      [] OTHER -> s

\* Mutant: a dropped transaction is taken for a failed one.
InterpretDropped(s) ==
    CASE s = "success" -> "confirmed"
      [] s \in {"abort", "dropped"} -> "aborted"
      [] OTHER -> "pending"

\* interpretHiroStatus: only success with a height and abort_* are terminal.
Interpret(s) ==
    CASE s = "success" -> "confirmed"
      [] s = "abort" -> "aborted"
      [] OTHER -> "pending"

\* What the transaction stream ends with, "pending" if it ends before a terminal update;
\* and what the polls of the rest of the budget end with.
Streamed(v) == {Interpret(s) : s \in HiroSays(v)}
Polled(v) == {Interpret(s) : s \in HiroSays(v)}

\* awaitConfirmationPublic: the polls follow a stream that did not find out.
Awaited(v) == (Streamed(v) \ {"pending"}) \cup Polled(v)

--------------------------------------------------------------------------------
(* Before the broadcast. *)

\* /relay: validation or the rate limit ends the request.
RelayTurnsAway(r) ==
    /\ At(r, "new") /\ mode[r] = "relay" /\ sponsorable
    /\ Refuse(r, "refused")
    /\ UNCHANGED <<nonce, background, node, kv, access, given>>

\* The same of a transaction that pays its own fee.
SelfPayTurnsAway(r) ==
    /\ At(r, "new") /\ mode[r] = "relay" /\ ~sponsorable
    /\ Refuse(r, "refused")
    /\ UNCHANGED <<nonce, background, node, kv, access, given>>

\* /settle: the request does not validate.
SettleTurnsAway(r) ==
    /\ At(r, "new") /\ mode[r] = "settle"
    /\ Refuse(r, "refused")
    /\ UNCHANGED <<nonce, background, node, kv, access, given>>

\* Only /settle looks at the payment-identifier.
Identified(r) == mode[r] = "settle" /\ ident[r] # 0

\* checkPaymentId: a hit repeats the response, another payload is a
\* conflict; a KV error is a miss.
CheckPaymentId(r) ==
    /\ At(r, "new")
    /\ \/ Identified(r) /\ payid.hash = ident[r] /\ Finish(r, "ok", payid.tx, "pending")
       \/ Identified(r) /\ payid.hash \notin {0, ident[r]} /\ Refuse(r, "conflict")
       \/ Goes(r, "dedup") /\ UNCHANGED answer
    /\ UNCHANGED <<nonce, background, node, kv, access, given>>

\* Where a request goes on that found no dedup entry.
AfterDedup(r) ==
    CASE ~sponsorable -> "verify"
      [] sponsorable /\ mode[r] = "relay" -> "cooldown"
      [] OTHER -> "sponsor"

\* /settle looks at the transaction only after both caches: malformed hex, or a
\* transaction that may not be sponsored.
SettleRejects(r) ==
    /\ At(r, "dedup") /\ mode[r] = "settle"
    /\ Refuse(r, "refused")
    /\ UNCHANGED <<nonce, background, node, kv, access, given>>

\* checkDedup: a hit is answered, unless the entry is pending and older than
\* DEDUP_LIVENESS_AGE_MS; a KV error is a miss.
CheckDedup(r) ==
    /\ At(r, "dedup")
    /\ \/ Goes(r, AfterDedup(r)) /\ UNCHANGED answer
       \/ /\ dedup # NoEntry
          /\ IF dedup.status = "pending" /\ dedup.old
               THEN /\ h' = [h EXCEPT ![r].pc = "liveness", ![r].tx = dedup.tx]
                    /\ UNCHANGED answer
               ELSE Finish(r, "ok", dedup.tx, dedup.status)
    /\ UNCHANGED <<nonce, background, node, kv, access, given>>

\* verifyTxidAlive: Hiro says abort_*, or not found, or 429/502/503 (it may say so of
\* any transaction): the key is deleted, whatever is in it by now.
CheckLiveness(r) ==
    /\ At(r, "liveness")
    /\ \/ Finish(r, "ok", h[r].tx, "pending") /\ UNCHANGED dedup
       \/ /\ dedup' = NoEntry
          /\ h' = [h EXCEPT ![r].pc = AfterDedup(r), ![r].tx = Plain]
          /\ UNCHANGED answer
    /\ UNCHANGED <<nonce, background, node, cooldown, payid, txStatus, receipts, access, given>>

\* A sender in its conflict cooldown is turned away.
CheckCooldown(r) ==
    /\ At(r, "cooldown")
    /\ IF cooldown THEN Refuse(r, "conflict") ELSE Goes(r, "sponsor") /\ UNCHANGED answer
    /\ UNCHANGED <<nonce, background, node, kv, access, given>>

\* The request ends with a conflict; /relay also starts the sender's cooldown (by
\* waitUntil: the put may be lost).
EndConflict(r) ==
    /\ Refuse(r, "conflict")
    /\ cooldown' \in IF mode[r] = "relay" THEN {cooldown, TRUE} ELSE {cooldown}

\* sponsorTransaction signs: a sponsor nonce of NonceDO is leased to this version.
Sponsor(r) ==
    /\ At(r, "sponsor")
    /\ h' = [h EXCEPT ![r].pc = "verify", ![r].tx = <<r, h[r].round>>]
    /\ nonce' = [nonce EXCEPT ![<<r, h[r].round>>] = "leased"]
    /\ UNCHANGED <<answer, background, node, kv, access, given>>

\* It fails or holds.  The re-sponsoring of round 2 then ends with the conflict
\* of round 1, except that /relay passes a hold on.
SponsorFails(r) ==
    /\ At(r, "sponsor")
    /\ \/ h[r].round = 1 /\ Refuse(r, "refused") /\ UNCHANGED cooldown
       \/ (h[r].round = 1 \/ mode[r] = "relay") /\ Refuse(r, "held") /\ UNCHANGED cooldown
       \/ h[r].round = 2 /\ EndConflict(r)
    /\ UNCHANGED <<nonce, background, node, dedup, payid, txStatus, receipts, access, given>>

\* Mutant: the nonce of a transaction that does not verify stays leased.
VerifyLeaks(r) ==
    /\ At(r, "verify")
    /\ \/ /\ h' = [h EXCEPT ![r].pc = "send", ![r].try = 1, ![r].failed = FALSE]
          /\ UNCHANGED <<answer, nonce>>
       \/ h[r].round = 1 /\ Refuse(r, "refused") /\ UNCHANGED nonce
    /\ UNCHANGED <<background, node, kv, access, given>>

\* verifyPaymentParams: a mismatch releases the nonce.  Round 2 has the same payload
\* and requirements, so it verifies.
Verify(r) ==
    /\ At(r, "verify")
    /\ \/ /\ h' = [h EXCEPT ![r].pc = "send", ![r].try = 1, ![r].failed = FALSE]
          /\ UNCHANGED <<answer, nonce>>
       \/ h[r].round = 1 /\ Refuse(r, "refused") /\ nonce' = Tell(r, "released")
    /\ UNCHANGED <<background, node, kv, access, given>>

--------------------------------------------------------------------------------
(***************************************************************************)
(* broadcastAndConfirm.  Every error makes the caller record the outcome and *)
(* release the nonce.                                                      *)
(***************************************************************************)

\* An error of the broadcast that is no conflict: round 2 still answers the conflict.
EndError(r, kind) ==
    /\ nonce' = Tell(r, "released")
    /\ IF h[r].round = 2 THEN EndConflict(r) ELSE Refuse(r, kind) /\ UNCHANGED cooldown

\* The node takes the transaction and says so.  lastBroadcastError, set by an
\* earlier attempt, is returned all the same.
SendAccepted(r) ==
    /\ At(r, "send")
    /\ Accept(h[r].tx)
    /\ IF h[r].failed THEN EndError(r, "unsent")
       ELSE /\ Goes(r, IF mode[r] = "relay" THEN "await" ELSE "record")
            /\ nonce' = IF mode[r] = "settle" THEN Tell(r, "used") ELSE nonce
            /\ UNCHANGED <<answer, cooldown>>
    /\ UNCHANGED <<background, dedup, payid, txStatus, receipts, access, given>>

\* Mutant: an attempt that failed is not counted.
SendFailsUncounted(r, taken) ==
    /\ At(r, "send")
    /\ IF taken THEN Accept(h[r].tx) ELSE UNCHANGED node
    /\ h' = [h EXCEPT ![r].failed = TRUE]
    /\ UNCHANGED <<answer, nonce, cooldown>>
    /\ UNCHANGED <<background, dedup, payid, txStatus, receipts, access, given>>

\* 5xx, a timeout or a network error, whether or not the node took it: the
\* next attempt, on this node or on the next, until none is left.
SendFails(r, taken) ==
    /\ At(r, "send")
    /\ IF taken THEN Accept(h[r].tx) ELSE UNCHANGED node
    /\ IF h[r].try < MaxTries
         THEN /\ h' = [h EXCEPT ![r].try = @ + 1, ![r].failed = TRUE]
              /\ UNCHANGED <<answer, nonce, cooldown>>
         ELSE EndError(r, "unsent")
    /\ UNCHANGED <<background, dedup, payid, txStatus, receipts, access, given>>

\* A nonce conflict, or too much chaining: with a sponsor nonce of the relay, the pool
\* is resynced and the payment sponsored once more.
SendConflict(r) ==
    /\ At(r, "send") /\ sponsorable
    /\ nonce' = Tell(r, "released")
    /\ IF h[r].round = 1
         THEN h' = [h EXCEPT ![r].pc = "sponsor", ![r].round = 2] /\ UNCHANGED <<answer, cooldown>>
         ELSE EndConflict(r)
    /\ UNCHANGED <<background, node, dedup, payid, txStatus, receipts, access, given>>

\* Without one, it is the client's to sort out.
SendConflictPlain(r) ==
    /\ At(r, "send") /\ ~sponsorable
    /\ Refuse(r, "refused")
    /\ UNCHANGED <<nonce, cooldown>>
    /\ UNCHANGED <<background, node, dedup, payid, txStatus, receipts, access, given>>

\* Any other 4xx.
SendRejected(r) ==
    /\ At(r, "send")
    /\ EndError(r, "refused")
    /\ UNCHANGED <<background, node, dedup, payid, txStatus, receipts, access, given>>

\* /relay waits for the confirmation within its budget.
Await(r) ==
    /\ At(r, "await")
    /\ \E s \in Awaited(h[r].tx) :
         IF s = "aborted" THEN EndError(r, "aborted")
         ELSE /\ h' = [h EXCEPT ![r].pc = "receipt", ![r].status = s]
              /\ nonce' = Tell(r, "used")
              /\ UNCHANGED <<answer, cooldown>>
    /\ UNCHANGED <<background, node, dedup, payid, txStatus, receipts, access, given>>

--------------------------------------------------------------------------------
(* After the broadcast.  A KV put that fails is only logged. *)

\* storeReceipt (relay).
StoreReceipt(r) ==
    /\ At(r, "receipt")
    /\ receipts' \in {receipts, [receipts EXCEPT ![r] =
                        [tx |-> h[r].tx, status |-> h[r].status, consumed |-> FALSE]]}
    /\ Goes(r, "record")
    /\ UNCHANGED <<answer, nonce, background, node, dedup, cooldown, payid, txStatus, access, given>>

\* recordDedup
PutDedup(v, status) == dedup' \in {dedup, [tx |-> v, status |-> status, old |-> FALSE]}

RecordDedup(r) ==
    /\ At(r, "record")
    /\ PutDedup(h[r].tx, h[r].status)
    /\ IF mode[r] = "relay" THEN Finish(r, "ok", h[r].tx, h[r].status)
       ELSE Goes(r, "status") /\ UNCHANGED answer
    /\ UNCHANGED <<nonce, background, node, cooldown, payid, txStatus, receipts, access, given>>

\* recordPaymentId, for a request that has a payment-identifier.
PutPayId(r) == payid' \in {payid} \cup
    (IF Identified(r) THEN {[tx |-> h[r].tx, hash |-> ident[r]]} ELSE {})

\* recordTxStatus (settle); then the answer, the polling and the payment-identifier,
\* the last two by waitUntil.
RecordTxStatus(r) ==
    /\ At(r, "status")
    /\ txStatus' \in {txStatus, [txStatus EXCEPT ![h[r].tx] = "broadcast"]}
    /\ Finish(r, "ok", h[r].tx, "pending")
    /\ background' = [background EXCEPT ![r] = [tx |-> h[r].tx, sees |-> "nothing"]]
    /\ PutPayId(r)
    /\ UNCHANGED <<nonce, node, dedup, cooldown, receipts, access, given>>

\* The Worker dies.
Dies(r) ==
    /\ h[r].pc \notin {"done", "dead"}
    /\ Over(r, "dead")
    /\ UNCHANGED <<answer, nonce, background, node, kv, access, given>>

\* The polling learns something, or its budget ends.
BackgroundSees(r) ==
    /\ background[r] # NotPolling /\ background[r].sees = "nothing"
    /\ \E s \in Awaited(background[r].tx) : background' = [background EXCEPT ![r].sees = s]
    /\ UNCHANGED <<h, answer, nonce, node, kv, access, given>>

\* Mutant: the dedup entry is updated whatever the polling saw.
BackgroundPutsAnyway(r) ==
    /\ background[r].sees # "nothing"
    /\ LET v == background[r].tx
           s == IF background[r].sees = "aborted" THEN "failed" ELSE background[r].sees
       IN /\ txStatus' \in {txStatus} \cup (IF txStatus[v] = "none" THEN {}
                                            ELSE {[txStatus EXCEPT ![v] = s]})
          /\ PutDedup(v, "confirmed")
    /\ background' = [background EXCEPT ![r] = NotPolling]
    /\ UNCHANGED <<h, answer, nonce, node, cooldown, payid, receipts, access, given>>

\* updateTxStatus, which leaves an expired record alone, and after a confirmation
\* recordDedup.
BackgroundPuts(r) ==
    /\ background[r].sees # "nothing"
    /\ LET v == background[r].tx
           s == IF background[r].sees = "aborted" THEN "failed" ELSE background[r].sees
       IN /\ txStatus' \in {txStatus} \cup (IF txStatus[v] = "none" THEN {}
                                            ELSE {[txStatus EXCEPT ![v] = s]})
          /\ IF s = "confirmed" THEN PutDedup(v, s) ELSE UNCHANGED dedup
    /\ background' = [background EXCEPT ![r] = NotPolling]
    /\ UNCHANGED <<h, answer, nonce, node, cooldown, payid, receipts, access, given>>

BackgroundDies(r) ==
    /\ background[r] # NotPolling
    /\ background' = [background EXCEPT ![r] = NotPolling]
    /\ UNCHANGED <<h, answer, nonce, node, kv, access, given>>

--------------------------------------------------------------------------------
(* POST /access *)

NoAccess == [pc |-> "idle", r |-> None]

\* The receipt is there, not consumed, and for this resource.
AccessReads(a, r) ==
    /\ acc[a].pc = "idle"
    /\ receipts[r] # NoReceipt /\ ~receipts[r].consumed
    /\ acc' = [acc EXCEPT ![a] = [pc |-> "passed", r |-> r]]
    /\ UNCHANGED <<served, node, kv, process, given>>

\* A bad URL, or a service that answers an error: the receipt is not consumed.
AccessRefused(a) ==
    /\ acc[a].pc = "passed"
    /\ acc' = [acc EXCEPT ![a] = NoAccess]
    /\ UNCHANGED <<served, node, kv, process, given>>

\* The downstream service, or the relay itself, gives the resource.
AccessServed(a) ==
    /\ acc[a].pc = "passed"
    /\ acc' = [acc EXCEPT ![a].pc = "served"]
    /\ served' = [served EXCEPT ![acc[a].r] = @ + 1]
    /\ UNCHANGED <<node, kv, process, given>>

\* Mutant: consumed before the service has answered.
MarkConsumedEarly(a) ==
    /\ acc[a].pc = "passed"
    /\ acc' = [acc EXCEPT ![a].pc = "served"]
    /\ receipts' \in {receipts} \cup
         (IF receipts[acc[a].r] = NoReceipt THEN {}
          ELSE {[receipts EXCEPT ![acc[a].r].consumed = TRUE]})
    /\ UNCHANGED <<served, node, dedup, cooldown, payid, txStatus, process, given>>

\* markConsumed reads and puts; a KV failure leaves the receipt as it is.
MarkConsumed(a) ==
    /\ acc[a].pc = "served"
    /\ acc' = [acc EXCEPT ![a].pc = "over"]
    /\ receipts' \in {receipts} \cup
         (IF receipts[acc[a].r] = NoReceipt THEN {}
          ELSE {[receipts EXCEPT ![acc[a].r].consumed = TRUE]})
    /\ UNCHANGED <<served, node, dedup, cooldown, payid, txStatus, process, given>>

--------------------------------------------------------------------------------
(* What anyone may read. *)

\* GET /settle/:txid answers the record as it is, or 404.
StatusAnswer(v) == IF txStatus[v] = "none" THEN "not_found" ELSE txStatus[v]

\* GET /verify/:receiptId
ReceiptAnswer(r) ==
    IF receipts[r] = NoReceipt THEN "not_found"
    ELSE IF receipts[r].consumed THEN "consumed" ELSE "valid"

--------------------------------------------------------------------------------
(* The chain, and the TTLs. *)

Mine(ok) ==
    /\ pool # None
    /\ chain' = [tx |-> pool, ok |-> ok]
    /\ pool' = None
    /\ UNCHANGED <<accepted, kv, process, access, given>>

Evict ==
    /\ pool # None
    /\ pool' = None
    /\ UNCHANGED <<chain, accepted, kv, process, access, given>>

DedupAges ==
    /\ dedup # NoEntry /\ ~dedup.old
    /\ dedup' = [dedup EXCEPT !.old = TRUE]
    /\ UNCHANGED <<cooldown, payid, txStatus, receipts, node, process, access, given>>

\* DEDUP_TTL_SECONDS and the payment-identifier's TTL are five minutes each; a
\* cooldown lives seconds.
DedupExpires ==
    /\ dedup.old
    /\ dedup' = NoEntry
    /\ UNCHANGED <<cooldown, payid, txStatus, receipts, node, process, access, given>>

PayIdExpires ==
    /\ payid # NoPayId
    /\ payid' = NoPayId
    /\ UNCHANGED <<dedup, cooldown, txStatus, receipts, node, process, access, given>>

CooldownExpires ==
    /\ cooldown /\ cooldown' = FALSE
    /\ UNCHANGED <<dedup, payid, txStatus, receipts, node, process, access, given>>

--------------------------------------------------------------------------------
Init ==
    /\ mode \in [Requests -> Modes]
    /\ sponsorable \in BOOLEAN
    /\ ident \in Idents
    /\ pool = None /\ chain = [tx |-> None, ok |-> FALSE] /\ accepted = {}
    /\ dedup = NoEntry /\ cooldown = FALSE /\ payid = NoPayId
    /\ txStatus = [v \in Versions |-> "none"]
    /\ receipts = [r \in Requests |-> NoReceipt]
    /\ nonce = [v \in Versions |-> "free"]
    /\ h = [r \in Requests |-> Start]
    /\ answer = [r \in Requests |-> NoAnswer]
    /\ background = [r \in Requests |-> NotPolling]
    /\ acc = [a \in Accesses |-> NoAccess]
    /\ served = [r \in Requests |-> 0]

HandlerStep(r) ==
    \/ RelayTurnsAway(r) \/ SelfPayTurnsAway(r) \/ SettleTurnsAway(r) \/ SettleRejects(r)
    \/ CheckPaymentId(r) \/ CheckDedup(r) \/ CheckLiveness(r)
    \/ CheckCooldown(r) \/ Sponsor(r) \/ SponsorFails(r) \/ Verify(r)
    \/ SendAccepted(r) \/ SendFails(r, TRUE) \/ SendFails(r, FALSE)
    \/ SendConflict(r) \/ SendConflictPlain(r) \/ SendRejected(r) \/ Await(r)
    \/ StoreReceipt(r) \/ RecordDedup(r) \/ RecordTxStatus(r)

Background(r) == BackgroundSees(r) \/ BackgroundPuts(r) \/ BackgroundDies(r)
Access(a) ==
    \/ \E r \in Requests : AccessReads(a, r)
    \/ AccessRefused(a) \/ AccessServed(a) \/ MarkConsumed(a)
Environment ==
    \/ Mine(TRUE) \/ Mine(FALSE) \/ Evict \/ DedupAges \/ DedupExpires \/ PayIdExpires
    \/ CooldownExpires

Next ==
    \/ \E r \in Requests : HandlerStep(r) \/ Dies(r) \/ Background(r)
    \/ \E a \in Accesses : Access(a)
    \/ Environment

Spec == Init /\ [][Next]_vars
--------------------------------------------------------------------------------
(* Properties *)

\* Type correctness of the caches, the processes and the chain.
TypeOK ==
    /\ mode \in [Requests -> Modes] /\ sponsorable \in BOOLEAN /\ ident \in [Requests -> Nat]
    /\ pool \in Versions \cup {None} /\ accepted \subseteq Versions
    /\ chain \in [tx : Versions \cup {None}, ok : BOOLEAN]
    /\ dedup \in [tx : Versions \cup {None}, status : {"pending", "confirmed"}, old : BOOLEAN]
    /\ cooldown \in BOOLEAN
    /\ payid \in [tx : Versions \cup {None}, hash : Nat]
    /\ txStatus \in [Versions -> {"none", "broadcast", "pending", "confirmed", "failed"}]
    /\ receipts \in [Requests -> [tx : Versions \cup {None}, status : {"pending", "confirmed"},
                                  consumed : BOOLEAN]]
    /\ nonce \in [Versions -> {"free", "leased", "released", "used"}]
    /\ h \in [Requests -> Handler]
    /\ answer \in [Requests -> Answer]
    /\ background \in [Requests -> [tx : Versions \cup {None},
                                    sees : {"nothing", "pending", "confirmed", "aborted"}]]
    /\ acc \in [Accesses -> [pc : {"idle", "passed", "served", "over"}, r : Requests \cup {None}]]
    /\ served \in [Requests -> Nat]

\* tx was taken by a node, and is executed with success when it is called confirmed.
Holds(tx, status) ==
    /\ tx \in accepted
    /\ status = "confirmed" => Executed(tx, TRUE)

\* Whatever path a request took (cache, retry, a lost answer), a client told of a
\* success is told of a transaction a node took, a confirmation is of one that
\* succeeded, and a payment is called failed on-chain only when it was aborted.
AnswersTruthful ==
    \A r \in Requests :
        /\ answer[r].kind = "ok" => Holds(answer[r].tx, answer[r].status)
        /\ answer[r].kind = "aborted" => chain.tx # None /\ ~chain.ok

\* The caches that later requests are answered from say only what node and chain did,
\* although writers of the same key race and put what they saw before.
RecordsTruthful ==
    /\ dedup # NoEntry => Holds(dedup.tx, dedup.status)
    /\ payid # NoPayId => payid.tx \in accepted
    /\ \A r \in Requests : receipts[r] # NoReceipt => Holds(receipts[r].tx, receipts[r].status)
    /\ \A v \in Versions :
         /\ StatusAnswer(v) # "not_found" => v \in accepted
         /\ StatusAnswer(v) = "confirmed" => Executed(v, TRUE)
         /\ StatusAnswer(v) = "failed" => Executed(v, FALSE)

\* No request that ended leaves a sponsor nonce behind of which NonceDO was not told:
\* on each way out the nonce was released or its broadcast reported.
EveryNonceReported ==
    \A r \in Requests : At(r, "done") =>
        \A n \in {1, 2} : nonce[<<r, n>>] # "leased"

\* A receipt is used up only by an access that got the resource: a payer whose access
\* failed downstream keeps it.
ConsumedWasServed ==
    \A r \in Requests : ReceiptAnswer(r) = "consumed" => served[r] > 0

\* How far a handler is from its answer, at most.
Rank(x) ==
    IF x.pc \in {"done", "dead"} THEN 0
    ELSE (2 - x.round) * (MaxTries + 7)
         + (CASE x.pc = "status" -> 1 [] x.pc = "record" -> 2
              [] x.pc = "receipt" -> 3 [] x.pc = "await" -> 4
              [] x.pc = "send" -> 5 + MaxTries - x.try
              [] x.pc = "verify" -> 5 + MaxTries [] x.pc = "sponsor" -> 6 + MaxTries
              [] x.pc = "cooldown" -> 7 + MaxTries [] x.pc = "liveness" -> 8 + MaxTries
              [] x.pc = "dedup" -> 9 + MaxTries [] OTHER -> 10 + MaxTries)

\* Every request is answered, unless its Worker dies: through the retries over nodes and
\* the second sponsoring, each step of its handler brings it nearer to the end.
NearerToTheAnswer ==
    [][\A r \in Requests : h'[r] # h[r] => Rank(h'[r]) < Rank(h[r])]_vars

\* Refuted by the code: a request is told that its broadcast failed when "all nodes and
\* all attempts" are "exhausted" (settlement.ts:1030).  A later attempt that a node
\* took is reported as the failure of the earlier one.
UnsentWasExhausted ==
    \A r \in Requests : answer[r].kind = "unsent" => h[r].try = MaxTries
================================================================================
