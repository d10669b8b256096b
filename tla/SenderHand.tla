------------------------------ MODULE SenderHand ------------------------------
(***************************************************************************)
(* The sender hand of NonceDO (src/src/durable-objects/nonce-do.ts, tables   *)
(* sender_state, sender_hand and, as far as it feeds the hand, replay_buffer)*)
(* and SponsorService, which submits to it (src/src/services/sponsor.ts).    *)
(*                                                                         *)
(* A sender's transactions need consecutive nonces, but arrive in any order. *)
(* The object keeps them in the sender's hand until they form a run from the *)
(* sender's next expected nonce, then gives the run sponsor nonces of one    *)
(* wallet (NonceLedger's HandSubmit and SweepHeldRun; here only how many it   *)
(* got) and queues it.                                                      *)
(*                                                                         *)
(* /hand-submit, the repair and the alarm hold the object's lock from the    *)
(* first read to the last write (blockConcurrencyWhile), Hiro calls           *)
(* included, so each is one step.  Hiro may answer anything in HiroAnswers:   *)
(* senders use their accounts outside the relay too, and replicas lag.       *)
(***************************************************************************)
EXTENDS Integers, FiniteSets

CONSTANTS
    SenderCount,    \* sender addresses, numbered in the order SQL sorts them
    Requests,       \* slots for Worker invocations
    MaxNonce,       \* bound: highest sender nonce submitted
    MaxRun,         \* MAX_RUN_PER_DISPATCH
    MaxSweep,       \* MAX_SWEEP_SENDERS
    HiroAnswers,    \* bound: values of possible_next_nonce Hiro may give
    MaxAge,         \* bound: how old a row of the hand may grow
    Replayed        \* bound: nonces a wallet flush may send back

Senders == 1 .. SenderCount
Nonces == 0 .. MaxNonce
Frontiers == 0 .. MaxNonce + 1
Unset == -1         \* no row, or no answer

\* Age of a row of the hand: older than STALE_SENDER_REPAIR_HOLD_AGE, and past
\* expires_at.
Absent == -1
Fresh == 0
Old == 1
Expired == 2

ASSUME HandAssumption ==
    /\ SenderCount \in Nat \ {0}
    /\ MaxNonce \in Nat
    /\ MaxRun \in Nat \ {0}
    /\ MaxSweep \in Nat \ {0}
    /\ HiroAnswers \subseteq Frontiers
    /\ MaxAge \in Fresh .. Expired
    /\ Replayed \subseteq Nonces

VARIABLES
    sender,     \* per sender: next, seeded, tried (sender_state), hand, replay
    sent,       \* per sender: nonces that were given a sponsor nonce
    cursor,     \* alarm_sender_cursor
    req         \* Worker invocations in sponsorTransaction

vars == <<sender, sent, cursor, req>>

Idle == [pc |-> "idle", s |-> 1, n |-> 0, first |-> 0]

--------------------------------------------------------------------------------
(* Helpers of the object; st is the record of a sender.                     *)

\* getHandGapInfo takes 0 for a sender without a row.
Frontier(st) == IF st.next = Unset THEN 0 ELSE st.next

Active(st) == {n \in Nonces : st.hand[n] \in {Fresh, Old}}

\* Mutant: a run that goes on over a gap.
RunOverGaps(st) == {n \in Active(st) : Frontier(st) <= n}

\* The gapless run from the frontier (checkAndAssignRun).
Run(st) == {n \in Active(st) : /\ Frontier(st) <= n
                               /\ \A m \in Frontier(st) .. n : m \in Active(st)}

\* assignRunToWallet with headroom for c of at most MaxRun transactions.
Dispatched(st, c) == {n \in Run(st) : n < Frontier(st) + c}
AfterDispatch(st, c) ==
    [st EXCEPT !.hand = [n \in Nonces |->
                           IF n \in Dispatched(st, c) THEN Absent ELSE st.hand[n]]]

\* Hiro is asked, and may not answer; p is Unset when it is not asked.
Asked(isAsked) == IF isAsked THEN HiroAnswers \cup {Unset} ELSE {Unset}

\* seedSenderState: Hiro's answer, or the nonce of the first transaction.
Seeded(st, n, p) ==
    IF st.next # Unset THEN st
    ELSE IF p = Unset THEN [st EXCEPT !.next = n, !.seeded = "first_tx"]
    ELSE [st EXCEPT !.next = p, !.seeded = "hiro"]

\* evaluateStaleSenderRepairCandidate: the lowest active row, wherever it is, lies
\* beyond the frontier, the oldest is old enough, and no refresh was tried lately.
Lowest(S) == CHOOSE n \in S : \A m \in S : n <= m

NeedsRepair(st, ignoreAge) ==
    /\ st.next # Unset
    /\ Active(st) # {}
    /\ st.next < Lowest(Active(st))
    /\ ignoreAge \/ \E n \in Active(st) : st.hand[n] = Old
    /\ ~st.tried

\* Mutant: up to Hiro's nonce.
RepairTargetHiro(st, p) == p

\* Where the frontier goes when Hiro names p, at or beyond the lowest active row.
RepairTarget(st, p) == Lowest(Active(st))

RepairAdvances(st, p, ignoreAge) ==
    NeedsRepair(st, ignoreAge) /\ p # Unset /\ Lowest(Active(st)) <= p

\* maybeRepairStaleSenderFrontier with conservativeBumpSenderFrontier: rows below
\* the new frontier are pruned.  An attempt, answered or not, puts off the next.
Repaired(st, p, ignoreAge) ==
    IF ~NeedsRepair(st, ignoreAge) THEN st
    ELSE IF ~RepairAdvances(st, p, ignoreAge) THEN [st EXCEPT !.tried = TRUE]
    ELSE [st EXCEPT !.tried = TRUE,
                    !.next = RepairTarget(st, p),
                    !.hand = [n \in Nonces |->
                                IF n < RepairTarget(st, p) THEN Absent ELSE st.hand[n]]]

--------------------------------------------------------------------------------
(***************************************************************************)
(* POST /hand-submit as SponsorService calls it.  mode "immediate" (/sponsor)*)
(* is refused rather than held.                                             *)
(***************************************************************************)
\* checkWouldDispatch: with n the hand reaches from the frontier to n.
WouldDispatch(st, n) == \A m \in Frontier(st) .. n : m \in Active(st) \cup {n}

Stale(st, n) == n < st.next
Rejected(st, n, mode) == mode = "immediate" /\ ~WouldDispatch(st, n)

\* addToHand for an agent replaces the row.
Added(st, n) == [st EXCEPT !.hand[n] = Fresh]

Answer(r, s, n, pc, first) ==
    req' = [req EXCEPT ![r] = [pc |-> pc, s |-> s, n |-> n, first |-> first]]

\* The object handled the whole call.  st is the sender once seeded.
HandleSubmit(r, s, n, mode, st, c) ==
    \/ /\ Stale(st, n)       \* 400; submitToHand throws inside its own try, and
       /\ sender' = [sender EXCEPT ![s] = st]    \* returns null: the legacy path
       /\ Answer(r, s, n, "legacy", 0)
       /\ UNCHANGED sent
    \/ /\ ~Stale(st, n)
       /\ Rejected(st, n, mode)
       /\ sender' = [sender EXCEPT ![s] = st]
       /\ Answer(r, s, n, "rejected", 0)
       /\ UNCHANGED sent
    \/ /\ ~Stale(st, n)
       /\ ~Rejected(st, n, mode)
       /\ sender' = [sender EXCEPT ![s] = AfterDispatch(Added(st, n), c)]
       /\ sent' = [sent EXCEPT ![s] = @ \cup Dispatched(Added(st, n), c)]
       /\ IF Dispatched(Added(st, n), c) = {}
            THEN IF mode = "immediate" THEN Answer(r, s, n, "rejected", 0)
                                       ELSE Answer(r, s, n, "held", 0)
            ELSE Answer(r, s, n, "sign", Frontier(st))

Submit(r) ==
    /\ req[r].pc = "idle"
    /\ \E s \in Senders, n \in Nonces, mode \in {"hold", "immediate"},
          c \in 0 .. MaxRun : \E p \in Asked(sender[s].next = Unset) :
            HandleSubmit(r, s, n, mode, Seeded(sender[s], n, p), c)
    /\ UNCHANGED cursor

\* The Worker gets no answer, or a 5xx: the object may have handled the call, may
\* have only seeded the sender, or may have seen nothing.
SubmitUnanswered(r) ==
    /\ req[r].pc = "idle"
    /\ \E s \in Senders, n \in Nonces :
         /\ Answer(r, s, n, "legacy", 0)
         /\ \/ UNCHANGED <<sender, sent>>
            \/ \E p \in Asked(sender[s].next = Unset), c \in 0 .. MaxRun :
                 LET st == Seeded(sender[s], n, p) IN
                 \/ /\ sender' = [sender EXCEPT ![s] = st]
                    /\ UNCHANGED sent
                 \/ /\ ~Stale(st, n)
                    /\ sender' = [sender EXCEPT ![s] = AfterDispatch(Added(st, n), c)]
                    /\ sent' = [sent EXCEPT ![s] = @ \cup Dispatched(Added(st, n), c)]
    /\ UNCHANGED cursor

\* The invocation goes on: it signs its own transaction with the sponsor nonce it
\* was given or takes one from /assign (NonceLedger), or answers its caller.
Finish(r) ==
    /\ req[r].pc # "idle"
    /\ req' = [req EXCEPT ![r] = Idle]
    /\ UNCHANGED <<sender, sent, cursor>>

\* repairSenderWedge: asked for by the queue consumer when a transaction is held.
RepairWedge ==
    /\ \E s \in Senders, c \in 0 .. MaxRun :
        \E p \in Asked(NeedsRepair(sender[s], TRUE)) :
         LET st == Repaired(sender[s], p, TRUE)
         IN IF RepairAdvances(sender[s], p, TRUE)
              THEN /\ sender' = [sender EXCEPT ![s] = AfterDispatch(st, c)]
                   /\ sent' = [sent EXCEPT ![s] = @ \cup Dispatched(st, c)]
              ELSE /\ sender' = [sender EXCEPT ![s] = st]
                   /\ UNCHANGED sent
    /\ UNCHANGED <<cursor, req>>

--------------------------------------------------------------------------------
(***************************************************************************)
(* The alarm's part: recycle the replay buffer, seed again those seeded from *)
(* their first transaction, sweep a slice of the senders, drop expired rows. *)
(***************************************************************************)
\* recycleReplayBuffer: INSERT OR IGNORE, then the buffer entry is deleted.
Recycled(st) ==
    [st EXCEPT !.hand = [n \in Nonces |-> IF n \in st.replay /\ st.hand[n] = Absent
                                            THEN Fresh ELSE st.hand[n]],
               !.replay = {}]

\* Mutant: Hiro's answer as it is, even when it lags.
ReseededLower(st, p) ==
    IF p = Unset THEN st ELSE [st EXCEPT !.next = p, !.seeded = "hiro"]

\* retrySeedFirstTxSenders: the frontier only rises; rows below it stay.
Reseeded(st, p) ==
    IF p = Unset THEN st
    ELSE [st EXCEPT !.next = IF p > st.next THEN p ELSE st.next, !.seeded = "hiro"]

FirstTx == {s \in Senders : sender[s].seeded = "first_tx"}

\* The senders with an active row once the buffer is recycled.
Waiting == {s \in Senders : Active(Recycled(sender[s])) # {}}
\* Their turns: HandTurns' operators on a set of senders.
Turns == INSTANCE HandTurns WITH waiting <- Waiting, tick <- 0
Swept == Turns!Slice(Waiting, cursor)

\* Hiro's answers: seed about the senders of FirstTx, hiro about those swept.
BeforeSweep(s, seed) ==
    IF s \in DOMAIN seed THEN Reseeded(Recycled(sender[s]), seed[s]) ELSE Recycled(sender[s])
ToDispatch(s, seed, hiro) == Repaired(BeforeSweep(s, seed), hiro[s], FALSE)

\* sweepExpiredHands.
WithoutExpired(st) ==
    [st EXCEPT !.hand = [n \in Nonces |->
                           IF st.hand[n] = Expired THEN Absent ELSE st.hand[n]]]

\* The senders of S are swept; cap says for how many transactions of each the
\* wallets have headroom.
Sweep(S, seed, hiro, cap) ==
    [s \in Senders |-> IF s \in S THEN AfterDispatch(ToDispatch(s, seed, hiro), cap[s])
                                  ELSE BeforeSweep(s, seed)]
SentBySweep(S, seed, hiro, cap) ==
    [s \in Senders |-> IF s \in S THEN sent[s] \cup Dispatched(ToDispatch(s, seed, hiro), cap[s])
                                  ELSE sent[s]]

Alarm ==
    /\ \E seed \in [FirstTx -> Asked(TRUE)], hiro \in [Swept -> Asked(TRUE)],
          cap \in [Swept -> 0 .. MaxRun] :
         LET swept == Sweep(Swept, seed, hiro, cap)
         IN /\ sender' = [s \in Senders |-> WithoutExpired(swept[s])]
            /\ sent' = SentBySweep(Swept, seed, hiro, cap)
    /\ cursor' = Turns!NextCursor(Cardinality(Waiting), cursor)
    /\ UNCHANGED req

\* The object restarts during the sweep: the senders from the k-th on are not
\* swept, the cursor stays, nothing expires.
AlarmCut ==
    /\ \E seed \in [FirstTx -> Asked(TRUE)], k \in Senders :
         LET S == {s \in Swept : s < k}
         IN \E hiro \in [S -> Asked(TRUE)], cap \in [S -> 0 .. MaxRun] :
              /\ sender' = Sweep(S, seed, hiro, cap)
              /\ sent' = SentBySweep(S, seed, hiro, cap)
    /\ UNCHANGED <<cursor, req>>

--------------------------------------------------------------------------------
(* Time, and the rest of the object.                                        *)

Age(s, n) ==
    /\ sender[s].hand[n] \in Fresh .. MaxAge - 1
    /\ sender' = [sender EXCEPT ![s].hand[n] = @ + 1]
    /\ UNCHANGED <<sent, cursor, req>>

\* SENDER_REFRESH_COOLDOWN or SENDER_REFRESH_FAILURE_BACKOFF is over.
RefreshReady(s) ==
    /\ sender[s].tried
    /\ sender' = [sender EXCEPT ![s].tried = FALSE]
    /\ UNCHANGED <<sent, cursor, req>>

\* A flush of the wallet puts a queued transaction into the replay buffer.
FlushToReplay(s) ==
    /\ \E n \in Replayed \ sender[s].replay :
         sender' = [sender EXCEPT ![s].replay = @ \cup {n}]
    /\ UNCHANGED <<sent, cursor, req>>

\* An entry leaves the replay buffer by another way: the alarm sponsors it again
\* itself (processReplayBuffer), or its sender cancels it.
ReplayDone(s) ==
    /\ \E n \in sender[s].replay :
         sender' = [sender EXCEPT ![s].replay = @ \ {n}]
    /\ UNCHANGED <<sent, cursor, req>>

--------------------------------------------------------------------------------
Unknown == [next |-> Unset, seeded |-> "hiro", tried |-> FALSE,
            hand |-> [n \in Nonces |-> Absent], replay |-> {}]

Init ==
    /\ sender = [s \in Senders |-> Unknown]
    /\ sent = [s \in Senders |-> {}]
    /\ cursor = 0
    /\ req = [r \in Requests |-> Idle]

Next ==
    \/ \E r \in Requests : Submit(r) \/ SubmitUnanswered(r) \/ Finish(r)
    \/ RepairWedge
    \/ Alarm
    \/ AlarmCut
    \/ \E s \in Senders : \/ RefreshReady(s) \/ FlushToReplay(s) \/ ReplayDone(s)
                          \/ \E n \in Nonces : Age(s, n)

Spec == Init /\ [][Next]_vars

--------------------------------------------------------------------------------
(* Properties.                                                              *)

SenderType ==
    [next : Frontiers \cup {Unset}, seeded : {"hiro", "first_tx"},
     tried : BOOLEAN, hand : [Nonces -> Absent .. Expired],
     replay : SUBSET Nonces]

\* Every variable keeps its type; the cursor is an offset into the senders.
TypeOK ==
    /\ sender \in [Senders -> SenderType]
    /\ sent \in [Senders -> SUBSET Nonces]
    /\ cursor \in 0 .. SenderCount - 1
    /\ req \in [Requests -> [pc : {"idle", "held", "rejected", "legacy", "sign"},
                             s : Senders, n : Nonces, first : Frontiers]]

\* A sender's transactions leave in nonce order, whatever the order of
\* submissions, sweeps, repairs, replays and restarts.
Outlet == INSTANCE SenderOutlet
            WITH base <- [s \in Senders |-> Frontier(sender[s])]
LeavesInOrder == Outlet!Spec

\* A held transaction that has not expired leaves the hand only when it gets a
\* sponsor nonce: a repair of the frontier prunes expired rows and no other.
KeepsActive ==
    [][\A s \in Senders, n \in Nonces :
         n \in Active(sender[s]) /\ sender'[s].hand[n] = Absent
           => n \in sent'[s] /\ Frontier(sender'[s]) <= n]_vars

\* types.ts:1516: the sponsor nonce of a dispatched answer belongs to the first
\* transaction of the run, so the invocation that signs with it has that one.
SignsItsOwnNonce == \A r \in Requests : req[r].pc = "sign" => req[r].first = req[r].n
================================================================================
