----------------------------- MODULE SenderNonces -----------------------------
(***************************************************************************)
(* What the relay knows of one sender's nonces: the KV entry                *)
(* sender_nonce:<signer>, which submitPayment checks a submission against,   *)
(* and the in-flight markers.  The entry is seeded from Hiro, raised by the  *)
(* queue consumer after a broadcast and by the chainhook after an execution: *)
(* each gets it, works out a new one and puts it later, without a            *)
(* compare-and-swap.  A step is what a process does between two awaits.      *)
(***************************************************************************)
EXTENDS Integers, FiniteSetsExt

CONSTANTS
    Submissions,    \* calls of submitPayment, each with the message it queues
    Hooks,          \* calls of the chainhook that overlap
    MaxNonce,       \* bound: highest nonce of the sender
    None            \* no entry

VARIABLES
    known,      \* KV sender_nonce:<signer>
    inFlight,   \* nonces with a KV sender_inflight:<signer>:<nonce>
    sub,        \* a submission, then the consumer of its message
    hook,       \* the entry a chainhook call has worked out and not yet put
    broadcast,  \* the chain: nonces the sender has broadcast at some time
    executed    \* the chain: last executed nonce, -1 for none

chain == <<broadcast, executed>>
vars == <<known, inFlight, sub, hook, chain>>

Nonces == 0 .. MaxNonce
\* SenderNonceCache
Entry == [seen : -1 .. MaxNonce, confirmed : -1 .. MaxNonce]
Nothing == [seen |-> -1, confirmed |-> -1]
Existing == IF known = None THEN Nothing ELSE known

\* What submitPayment says; "marked" and "duplicate" are SENDER_NONCE_DUPLICATE,
\* "stale" and "inFlight" SENDER_NONCE_STALE.
Answers == {"none", "admitted", "marked", "duplicate", "stale", "inFlight"}
Submission == [pc : {"idle", "marker", "check", "seed", "putSeed", "mark", "queued",
                     "clear", "note", "putNote", "over"},
               nonce : Nonces, seeded : BOOLEAN, entry : Entry, answer : Answers]
Fresh == [pc |-> "idle", nonce |-> 0, seeded |-> FALSE, entry |-> Nothing, answer |-> "none"]

At(s, pc) == sub[s].pc = pc
Goes(s, pc) == sub' = [sub EXCEPT ![s].pc = pc]
Replies(s, answer, pc) ==
    sub' = [sub EXCEPT ![s].answer = answer, ![s].pc = pc, ![s].seeded = FALSE]
WillPut(s, entry, pc) == sub' = [sub EXCEPT ![s].entry = entry, ![s].pc = pc]

\* The entry that s has worked out is put, and s goes on.
Puts(s, pc) ==
    /\ known' = sub[s].entry
    /\ WillPut(s, Nothing, pc)
    /\ UNCHANGED <<inFlight, hook, chain>>

--------------------------------------------------------------------------------
(* The three ways to raise an entry. *)

\* updateSenderNonceOnBroadcast
Noted(e, n) == [e EXCEPT !.seen = Max({@, n})]

\* updateSenderNonceOnConfirm
Mined(e, n) == [seen |-> Max({e.seen, n}), confirmed |-> Max({e.confirmed, n})]

\* Mutant: what is pending counts as confirmed.
SeededPendingCounts(e, a) ==
    LET confirmed == Max({e.confirmed, a.next - 1}) IN
    [seen |-> Max({e.seen, confirmed}), confirmed |-> confirmed]

\* seedSenderNonceFromHiro
Seeded(e, a) ==
    LET confirmed == Max({e.confirmed, a.executed}) IN
    [seen |-> Max({e.seen, confirmed, a.next - 1}), confirmed |-> confirmed]

\* Hiro's last_executed_tx_nonce and possible_next_nonce, which counts what is pending;
\* a replica that lags gives older ones.
HiroAnswers ==
    {a \in [executed : -1 .. executed, next : {n + 1 : n \in broadcast \cup {-1}}] :
        a.next > a.executed}

--------------------------------------------------------------------------------
(* rpc.submitPayment, as far as the sender's nonce goes. *)

\* checkSenderNonce once no marker was found.
Outcome(n) ==
    CASE known = None -> "unknown"
      [] known # None /\ n <= known.confirmed -> "stale"
      [] known # None /\ n > known.confirmed /\ n = known.seen -> "duplicate"
      [] known # None /\ n > known.confirmed /\ n < known.seen -> "inFlight"
      [] known # None /\ n > known.confirmed /\ n = known.seen + 1 -> "healthy"
      [] known # None /\ n > known.confirmed /\ n > known.seen + 1 -> "gap"

Arrives(s, n) ==
    /\ At(s, "idle")
    /\ sub' = [sub EXCEPT ![s].nonce = n, ![s].pc = "marker"]
    /\ UNCHANGED <<known, inFlight, hook, chain>>

\* The marker is looked for first, also at the second check.
LooksForMarker(s) ==
    /\ At(s, "marker")
    /\ IF sub[s].nonce \in inFlight THEN Replies(s, "marked", "over") ELSE Goes(s, "check")
    /\ UNCHANGED <<known, inFlight, hook, chain>>

\* An unknown sender, or a gap, is looked up at Hiro once and checked again.
Checks(s) ==
    /\ At(s, "check")
    /\ LET outcome == Outcome(sub[s].nonce) IN
         IF outcome \in {"unknown", "gap"} /\ ~sub[s].seeded THEN Goes(s, "seed")
         ELSE IF outcome \in {"stale", "duplicate", "inFlight"} THEN Replies(s, outcome, "over")
         ELSE Replies(s, "admitted", "mark")
    /\ UNCHANGED <<known, inFlight, hook, chain>>

\* Hiro answers and the entry is read, to be put; or it does not answer in time.
AsksHiro(s) ==
    /\ At(s, "seed")
    /\ \/ sub' = [sub EXCEPT ![s].seeded = TRUE, ![s].pc = "marker"]
       \/ \E a \in HiroAnswers :
            sub' = [sub EXCEPT ![s].seeded = TRUE, ![s].pc = "putSeed",
                               ![s].entry = Seeded(Existing, a)]
    /\ UNCHANGED <<known, inFlight, hook, chain>>

PutsSeed(s) == At(s, "putSeed") /\ Puts(s, "marker")

\* markInFlight; the payment is queued.
Marks(s) ==
    /\ At(s, "mark")
    /\ inFlight' = inFlight \cup {sub[s].nonce}
    /\ Goes(s, "queued")
    /\ UNCHANGED <<known, hook, chain>>

--------------------------------------------------------------------------------
(* processPaymentMessage, as far as the sender's nonce goes. *)

Broadcasts(s) ==
    /\ At(s, "queued") /\ sub[s].nonce > executed
    /\ broadcast' = broadcast \cup {sub[s].nonce}
    /\ Goes(s, "clear")
    /\ UNCHANGED <<known, inFlight, hook, executed>>

\* The queue takes no message, or the payment fails for good: clearInFlight.
GivesUp(s) ==
    /\ At(s, "queued")
    /\ inFlight' = inFlight \ {sub[s].nonce}
    /\ Goes(s, "over")
    /\ UNCHANGED <<known, hook, chain>>

\* clearInFlight; a failure is only logged.
Clears(s) ==
    /\ At(s, "clear")
    /\ inFlight' \in {inFlight, inFlight \ {sub[s].nonce}}
    /\ Goes(s, "note")
    /\ UNCHANGED <<known, hook, chain>>

ReadsToNote(s) ==
    /\ At(s, "note")
    /\ WillPut(s, Noted(Existing, sub[s].nonce), "putNote")
    /\ UNCHANGED <<known, inFlight, hook, chain>>

PutsNote(s) == At(s, "putNote") /\ Puts(s, "over")

\* The invocation ends anywhere; a redelivery finds the txid and notes nothing.
Dies(s) ==
    /\ ~At(s, "idle") /\ ~At(s, "over")
    /\ sub' = [sub EXCEPT ![s].pc = "over", ![s].entry = Nothing, ![s].seeded = FALSE]
    /\ UNCHANGED <<known, inFlight, hook, chain>>

--------------------------------------------------------------------------------
(* The chainhook, for a transaction that succeeded, once, again or never. *)

HookReads(h, n) ==
    /\ hook[h] = None /\ n <= executed
    /\ hook' = [hook EXCEPT ![h] = Mined(Existing, n)]
    /\ UNCHANGED <<known, inFlight, sub, chain>>

HookPuts(h) ==
    /\ hook[h] # None
    /\ known' = hook[h]
    /\ hook' = [hook EXCEPT ![h] = None]
    /\ UNCHANGED <<inFlight, sub, chain>>

--------------------------------------------------------------------------------
(* The sender's own broadcasts, the chain, and the TTLs. *)

SenderBroadcasts(n) ==
    /\ n > executed
    /\ broadcast' = broadcast \cup {n}
    /\ UNCHANGED <<known, inFlight, sub, hook, executed>>

Executes ==
    /\ executed + 1 \in broadcast
    /\ executed' = executed + 1
    /\ UNCHANGED <<known, inFlight, sub, hook, broadcast>>

\* SENDER_NONCE_TTL_SECONDS, SENDER_INFLIGHT_TTL_SECONDS
Expires ==
    /\ \/ known' = None /\ UNCHANGED inFlight
       \/ UNCHANGED known /\ \E n \in inFlight : inFlight' = inFlight \ {n}
    /\ UNCHANGED <<sub, hook, chain>>

--------------------------------------------------------------------------------
Init ==
    /\ known = None /\ inFlight = {}
    /\ sub = [s \in Submissions |-> Fresh]
    /\ hook = [h \in Hooks |-> None]
    /\ broadcast = {} /\ executed = -1

Next ==
    \/ \E s \in Submissions :
         \/ \E n \in Nonces : Arrives(s, n)
         \/ LooksForMarker(s) \/ Checks(s) \/ AsksHiro(s) \/ PutsSeed(s) \/ Marks(s)
         \/ Broadcasts(s) \/ GivesUp(s) \/ Clears(s) \/ ReadsToNote(s) \/ PutsNote(s)
         \/ Dies(s)
    \/ \E h \in Hooks : HookPuts(h) \/ \E n \in Nonces : HookReads(h, n)
    \/ \E n \in Nonces : SenderBroadcasts(n)
    \/ Executes \/ Expires

Spec == Init /\ [][Next]_vars

--------------------------------------------------------------------------------
(* Properties *)

\* Type correctness.
TypeOK ==
    /\ known \in Entry \cup {None}
    /\ inFlight \subseteq Nonces /\ broadcast \subseteq Nonces
    /\ executed \in -1 .. MaxNonce
    /\ sub \in [Submissions -> Submission]
    /\ hook \in [Hooks -> Entry \cup {None}]

\* Whatever overlapping seeds, notes and chainhooks do to the entry, a submission is
\* turned away only for what is so: a nonce called confirmed was executed, one called
\* the last seen was broadcast, one called in flight lies below a broadcast one (and
\* need not have been broadcast itself), and a marker is another submission's that was
\* let in.
RefusalsTruthful ==
    \A s \in Submissions :
        /\ sub[s].answer = "stale" => sub[s].nonce <= executed
        /\ sub[s].answer = "duplicate" => sub[s].nonce \in broadcast
        /\ sub[s].answer = "inFlight" => \E n \in broadcast : n > sub[s].nonce
        /\ sub[s].answer = "marked" =>
             \E r \in Submissions \ {s} : sub[r].nonce = sub[s].nonce /\ sub[r].answer = "admitted"
================================================================================
