------------------------ MODULE PaymentLifecycle_proofs ------------------------
(***************************************************************************)
(* Proofs about PaymentLifecycle, for any number of payment ids made of    *)
(* the artifact, of transactions and of delivery attempts.                 *)
(*                                                                         *)
(* A record lies in several places at once: in KV, with the consumer that  *)
(* read it, and in the put a writer has decided on. Knowledge says of each *)
(* place that what it holds is true of the chain; the chain only adds to   *)
(* what is true (Lasting), so a put that comes late, over another one,     *)
(* writes something that is true still.                                    *)
(***************************************************************************)
EXTENDS PaymentLifecycle, TLAPS

--------------------------------------------------------------------------------
(* What is known, and where. *)

\* A transaction that was made has an owner; an event says what the chain says.
ChainKnows(t) ==
    /\ tx[t] = "unused" <=> owner[t] = None
    /\ event[t] = "confirmed" => Spent(t)
    /\ event[t] = "aborted" => tx[t] = "abort"
    /\ t \in txidMap => owner[t] # None

\* The consumer's copy of the record; past the broadcast it has a txid.
ConsumerKnows(p) ==
    /\ Truthful(p, cons[p].rec)
    /\ At(p, "map") \/ At(p, "note") \/ (At(p, "put") /\ cons[p].next = "map") => cons[p].rec.txid # 0

\* A put that was decided on.
WriterKnows(w) ==
    late[w] # NoPut =>
        /\ late[w].p \in Payments
        /\ Truthful(late[w].p, late[w].rec)
        /\ late[w].map # 0 => owner[late[w].map] # None

Knowledge ==
    /\ TypeOK
    /\ \A t \in Txs : ChainKnows(t)
    /\ \A p \in Payments : Truthful(p, record[p]) /\ ConsumerKnows(p)
    /\ \A w \in Writers : WriterKnows(w)

USE PaymentsAssumption, BoundsAssumption

Consumer == [pc : {"idle", "put", "sponsor", "send", "map", "note"}, n : 0 .. MaxDeliveries,
             rec : Record, next : {"ack", "retry", "sponsor", "map"}]
Put == [p : Payments \cup {None}, rec : Record, map : 0 .. MaxTx]

\* An empty place says nothing.
LEMMA AbsentIsTrue ==
    /\ Absent \in Record
    /\ \A p : Truthful(p, Absent)
BY DEF Absent, Record, Statuses, Terminal, Truthful

LEMMA IdleTyped == IdleConsumer \in Consumer /\ NoPut \in Put
BY AbsentIsTrue DEF IdleConsumer, NoPut, Consumer, Put, MaxDeliveries

--------------------------------------------------------------------------------
(* The operations on a record say nothing that was not said of the payment. *)

LEMMA TransitionRecord ==
    ASSUME NEW rec \in Record, NEW s \in Statuses
    PROVE  /\ Transition(rec, s) \in Record
           /\ Transition(rec, s).txid = rec.txid /\ Transition(rec, s).abort = rec.abort
           /\ Transition(rec, s).status = s
BY DEF Transition, Record

LEMMA HeldRecordRecord ==
    ASSUME NEW rec \in Record, NEW g \in {"gap", "capacity"}
    PROVE  /\ HeldRecord(rec, g) \in Record
           /\ HeldRecord(rec, g).txid = rec.txid /\ HeldRecord(rec, g).abort = rec.abort
           /\ HeldRecord(rec, g).status = "queued"
BY DEF HeldRecord, Record, Statuses

LEMMA UnholdRecord ==
    ASSUME NEW rec \in Record
    PROVE  LET x == [rec EXCEPT !.hold = "no"] IN
           x \in Record /\ x.txid = rec.txid /\ x.abort = rec.abort /\ x.status = rec.status
BY DEF Record

LEMMA ToMempoolRecord ==
    ASSUME NEW rec \in Record, NEW t \in Txs
    PROVE  /\ ToMempool(rec, t) \in Record
           /\ ToMempool(rec, t).txid = t /\ ToMempool(rec, t).abort = rec.abort
           /\ ToMempool(rec, t).status = "mempool"
<1> DEFINE x == Transition(rec, "mempool")
<1>1. x \in Record /\ x.abort = rec.abort /\ x.status = "mempool"
  BY TransitionRecord DEF Statuses
<1>2. t \in 0 .. MaxTx
  BY DEF Txs
<1> HIDE DEF x
<1>3. LET y == [x EXCEPT !.txid = t] IN y \in Record /\ y.txid = t /\ y.abort = x.abort /\ y.status = x.status
  BY <1>1, <1>2 DEF Record
<1> QED BY <1>1, <1>3 DEF ToMempool, x

LEMMA FailedRecordRecord ==
    ASSUME NEW rec \in Record, NEW aborted \in BOOLEAN
    PROVE  /\ FailedRecord(rec, aborted) \in Record
           /\ FailedRecord(rec, aborted).txid = rec.txid /\ FailedRecord(rec, aborted).abort = aborted
           /\ FailedRecord(rec, aborted).status = "failed"
<1> DEFINE x == Transition(rec, "failed")
<1>1. x \in Record /\ x.txid = rec.txid /\ x.status = "failed"
  BY TransitionRecord DEF Statuses, Terminal
<1> HIDE DEF x
<1>2. LET y == [x EXCEPT !.abort = aborted] IN
        y \in Record /\ y.txid = x.txid /\ y.abort = aborted /\ y.status = x.status
  BY <1>1 DEF Record
<1> QED BY <1>1, <1>2 DEF FailedRecord, x

\* What rec says of p is true after the step.
ThenTrue(p, rec) ==
    /\ rec.txid # 0 => owner'[rec.txid] = p
    /\ rec.abort => \E t \in Txs : owner'[t] = p /\ tx'[t] = "abort"
    /\ rec.status = "confirmed" => \E t \in Txs : owner'[t] = p /\ tx'[t] \in {"ok", "abort", "lost"}

\* The chain forgets no owner, no execution and no nonce that was used up.
Lasting ==
    /\ \A t \in Txs : tx[t] # "unused" => tx'[t] # "unused" /\ owner'[t] = owner[t]
    /\ \A t \in Txs : Spent(t) => tx'[t] = tx[t]

LEMMA TruthLasts ==
    ASSUME Lasting, \A t \in Txs : ChainKnows(t), NEW p \in Payments, NEW rec \in Record, Truthful(p, rec)
    PROVE  ThenTrue(p, rec)
<1>1. rec.txid \in 0 .. MaxTx
  BY DEF Record
<1>2. \A t \in Txs : owner[t] = p => owner'[t] = p
  BY DEF Lasting, ChainKnows
<1> QED BY <1>1, <1>2 DEF Truthful, ThenTrue, Lasting, Executed, Spent, Txs

\* A record that says no more than another.
LEMMA LessIsTrue ==
    ASSUME NEW p, NEW rec, NEW x, ThenTrue(p, rec), x.txid = rec.txid,
           x.abort => rec.abort, x.status = "confirmed" => rec.status = "confirmed"
    PROVE  ThenTrue(p, x)
BY DEF ThenTrue

LEMMA FinalisedTrue ==
    ASSUME NEW p, NEW rec \in Record, NEW ok \in BOOLEAN, NEW t \in Txs, ThenTrue(p, rec),
           owner'[t] = p, tx'[t] \in {"ok", "abort", "lost"}, ~ok => tx'[t] = "abort"
    PROVE  Finalised(rec, ok) \in Record /\ ThenTrue(p, Finalised(rec, ok))
<1>1. CASE ok
  <2>1. Transition(rec, "confirmed") \in Record /\ Finalised(rec, ok) = Transition(rec, "confirmed")
    BY <1>1, TransitionRecord DEF Finalised, Statuses, Terminal
  <2>2. Finalised(rec, ok).txid = rec.txid /\ Finalised(rec, ok).abort = rec.abort
    BY <2>1, TransitionRecord DEF Statuses, Terminal
  <2> QED BY <2>1, <2>2 DEF ThenTrue
<1>2. CASE ~ok
  <2>1. Finalised(rec, ok) = FailedRecord(rec, TRUE)
    BY <1>2 DEF Finalised
  <2>2. /\ FailedRecord(rec, TRUE) \in Record /\ FailedRecord(rec, TRUE).txid = rec.txid
        /\ FailedRecord(rec, TRUE).status = "failed"
    BY FailedRecordRecord
  <2> QED BY <1>2, <2>1, <2>2 DEF ThenTrue
<1> QED BY <1>1, <1>2

--------------------------------------------------------------------------------
(* The chain. *)

LEMMA AcceptLasts ==
    ASSUME TypeOK, NEW t \in Txs, NEW p \in Payments, Accept(t, p), UNCHANGED <<event, txidMap>>,
           \A u \in Txs : ChainKnows(u)
    PROVE  /\ Lasting
           /\ tx' \in [Txs -> {"unused", "pending", "ok", "abort", "gone", "replaced", "lost"}]
           /\ owner' \in [Txs -> Payments \cup {None}]
           /\ owner'[t] = p /\ tx'[t] = "pending"
           /\ \A u \in Txs : ChainKnows(u)'
<1>1. /\ tx \in [Txs -> {"unused", "pending", "ok", "abort", "gone", "replaced", "lost"}]
      /\ owner \in [Txs -> Payments \cup {None}]
  BY DEF TypeOK
<1>2. tx[t] = "unused" /\ tx' = [tx EXCEPT ![t] = "pending"] /\ owner' = [owner EXCEPT ![t] = p]
  BY DEF Accept, NextTx
<1>3. tx'[t] = "pending" /\ owner'[t] = p /\ \A u \in Txs \ {t} : tx'[u] = tx[u] /\ owner'[u] = owner[u]
  BY <1>1, <1>2
<1>4. Lasting
  BY <1>2, <1>3 DEF Lasting, Executed, Spent
<1>5. \A u \in Txs : ChainKnows(u)'
  BY <1>2, <1>3 DEF ChainKnows, Executed, Spent
<1> QED BY <1>1, <1>2, <1>3, <1>4, <1>5

\* What a step leaves: the chain, the records in KV, the consumers, the puts to come and the rest.
ChainGoes ==
    /\ Lasting
    /\ tx' \in [Txs -> {"unused", "pending", "ok", "abort", "gone", "replaced", "lost"}]
    /\ owner' \in [Txs -> Payments \cup {None}]
    /\ event' \in [Txs -> {"none", "confirmed", "aborted", "read"}]
    /\ \A t \in Txs : ChainKnows(t)'
RecordsGo == record' \in [Payments -> Record] /\ \A q \in Payments : ThenTrue(q, record'[q])
ConsumersGo == cons' \in [Payments -> Consumer] /\ \A q \in Payments : ConsumerKnows(q)'
WritersGo == late' \in [Writers -> Put] /\ \A v \in Writers : WriterKnows(v)'
RestGoes ==
    /\ artifact' \in Payments \cup {None}
    /\ marker' \in BOOLEAN
    /\ txidMap' \subseteq Txs /\ replacedTx' \subseteq Txs
    /\ sub' \in [Payments -> {"idle", "mark", "record", "index", "send", "accepted", "over"}]
    /\ msg' \in [Payments -> 0 .. MaxDeliveries]
    /\ inDO' \in [Payments -> Places]

LEMMA GoesTogether ==
    ASSUME ChainGoes, RecordsGo, ConsumersGo, WritersGo, RestGoes
    PROVE  Knowledge'
<1>1. TypeOK'
  BY DEF TypeOK, ChainGoes, RecordsGo, ConsumersGo, WritersGo, RestGoes, Consumer, Put
<1>2. \A q \in Payments : Truthful(q, record[q])'
  BY DEF RecordsGo, ThenTrue, Truthful, Executed, Spent
<1> QED BY <1>1, <1>2 DEF Knowledge, ChainGoes, ConsumersGo, WritersGo

LEMMA Typed ==
    ASSUME Knowledge
    PROVE  /\ record \in [Payments -> Record] /\ cons \in [Payments -> Consumer] /\ late \in [Writers -> Put]
           /\ \A q \in Payments : record[q] \in Record /\ cons[q] \in Consumer /\ cons[q].rec \in Record
           /\ \A w \in Writers : late[w] \in Put /\ late[w].rec \in Record
BY DEF Knowledge, TypeOK, Consumer, Put

\* A place nobody touches, and one that is given a true record.
LEMMA RecordsStand ==
    ASSUME Knowledge, Lasting
    PROVE  /\ \A q \in Payments : ThenTrue(q, record[q]) /\ ThenTrue(q, cons[q].rec)
           /\ \A w \in Writers : late[w] # NoPut => ThenTrue(late[w].p, late[w].rec)
           /\ UNCHANGED record => RecordsGo
<1>1. \A t \in Txs : ChainKnows(t)
  BY DEF Knowledge
<1>2. \A q \in Payments : ThenTrue(q, record[q]) /\ ThenTrue(q, cons[q].rec)
  BY <1>1, TruthLasts, Typed DEF Knowledge, ConsumerKnows
<1>3. \A w \in Writers : late[w] # NoPut => ThenTrue(late[w].p, late[w].rec)
  BY <1>1, TruthLasts, Typed DEF Knowledge, WriterKnows
<1> QED BY <1>2, <1>3, Typed DEF RecordsGo

LEMMA RecordPut ==
    ASSUME Knowledge, Lasting, NEW p \in Payments, NEW rec \in Record, ThenTrue(p, rec),
           record' = [record EXCEPT ![p] = rec]
    PROVE  RecordsGo
BY RecordsStand, Typed DEF RecordsGo

LEMMA ConsumerGoes ==
    ASSUME Knowledge, Lasting, NEW p \in Payments, NEW c \in Consumer, Goes(p, c), ThenTrue(p, c.rec),
           c.pc \in {"map", "note"} \/ (c.pc = "put" /\ c.next = "map") => c.rec.txid # 0
    PROVE  ConsumersGo
<1>1. /\ cons' \in [Payments -> Consumer]
      /\ cons'[p] = c /\ \A q \in Payments \ {p} : cons'[q] = cons[q]
  BY Typed DEF Goes
<1>2. ASSUME NEW q \in Payments PROVE ConsumerKnows(q)'
  <2>1. ThenTrue(q, cons'[q].rec)
    BY <1>1, RecordsStand
  <2>2. cons'[q].pc \in {"map", "note"} \/ (cons'[q].pc = "put" /\ cons'[q].next = "map")
           => cons'[q].rec.txid # 0
    BY <1>1 DEF Knowledge, ConsumerKnows, At
  <2> QED BY <2>1, <2>2 DEF ConsumerKnows, ThenTrue, Truthful, Executed, Spent, At
<1> QED BY <1>1, <1>2 DEF ConsumersGo

LEMMA ConsumersStand ==
    ASSUME Knowledge, Lasting, UNCHANGED cons
    PROVE  ConsumersGo
<1>1. ASSUME NEW q \in Payments PROVE ConsumerKnows(q)'
  BY RecordsStand DEF Knowledge, ConsumerKnows, ThenTrue, Truthful, Executed, Spent, At
<1> QED BY <1>1, Typed DEF ConsumersGo

\* A handler that goes idle.
LEMMA ConsumerIdles ==
    ASSUME Knowledge, Lasting, NEW p \in Payments, Goes(p, IdleConsumer)
    PROVE  ConsumersGo
<1>1. /\ IdleConsumer \in Consumer /\ ThenTrue(p, IdleConsumer.rec)
      /\ ~(IdleConsumer.pc \in {"map", "note"} \/ (IdleConsumer.pc = "put" /\ IdleConsumer.next = "map"))
  BY IdleTyped DEF IdleConsumer, Absent, ThenTrue
<1> QED BY <1>1, ConsumerGoes

\* One that is going to put rec.
LEMMA ConsumerWillPut ==
    ASSUME Knowledge, Lasting, NEW p \in Payments, NEW n \in 0 .. MaxDeliveries, NEW rec \in Record,
           NEW next \in {"ack", "retry", "sponsor", "map"}, Goes(p, Putting(n, rec, next)),
           ThenTrue(p, rec), next = "map" => rec.txid # 0
    PROVE  ConsumersGo
<1> DEFINE c == Putting(n, rec, next)
<1>1. c \in Consumer /\ c.rec = rec /\ c.pc = "put" /\ c.next = next
  BY DEF Putting, Consumer
<1> HIDE DEF c
<1>2. Goes(p, c)
  BY DEF c
<1> QED BY <1>1, <1>2, ConsumerGoes

\* One that goes on with the record it has.
LEMMA ConsumerSteps ==
    ASSUME Knowledge, Lasting, NEW p \in Payments, NEW pc \in {"sponsor", "send", "map", "note"},
           Goes(p, [cons[p] EXCEPT !.pc = pc]), pc \in {"map", "note"} => cons[p].rec.txid # 0
    PROVE  ConsumersGo
<1> DEFINE c == [cons[p] EXCEPT !.pc = pc]
<1>1. c \in Consumer /\ c.rec = cons[p].rec /\ c.pc = pc
  BY Typed DEF Consumer
<1> HIDE DEF c
<1>2. Goes(p, c)
  BY DEF c
<1> QED BY <1>1, <1>2, RecordsStand, ConsumerGoes

LEMMA WriterGoes ==
    ASSUME Knowledge, ChainGoes, NEW w \in Writers, NEW c \in Put, late' = [late EXCEPT ![w] = c],
           c = NoPut \/ (/\ c.p \in Payments /\ ThenTrue(c.p, c.rec)
                         /\ c.map # 0 => owner'[c.map] # None)
    PROVE  WritersGo
<1>1. late' \in [Writers -> Put] /\ late'[w] = c /\ \A v \in Writers \ {w} : late'[v] = late[v]
  BY Typed
<1>2. ASSUME NEW v \in Writers, late'[v] # NoPut
      PROVE  /\ late'[v].p \in Payments /\ ThenTrue(late'[v].p, late'[v].rec)
             /\ late'[v].map # 0 => owner'[late'[v].map] # None
  <2>1. CASE v = w
    BY <1>1, <1>2, <2>1
  <2>2. CASE v # w
    <3>1. late'[v] = late[v] /\ WriterKnows(v) /\ late[v].map \in 0 .. MaxTx
      BY <1>1, <2>2, Typed DEF Knowledge, Put
    <3>2. late[v].map # 0 => owner'[late[v].map] = owner[late[v].map]
      BY <1>2, <3>1 DEF Knowledge, WriterKnows, ChainKnows, ChainGoes, Lasting, Txs
    <3> QED BY <1>2, <3>1, <3>2, RecordsStand DEF WriterKnows, ChainGoes
  <2> QED BY <2>1, <2>2
<1>3. \A v \in Writers : WriterKnows(v)'
  BY <1>2 DEF WriterKnows, ThenTrue, Truthful, Executed, Spent
<1> QED BY <1>1, <1>3 DEF WritersGo

LEMMA WriterDecides ==
    ASSUME Knowledge, ChainGoes, NEW w \in Writers, NEW p \in Payments, NEW rec \in Record, NEW map \in 0 .. MaxTx,
           Decides(w, p, rec, map), ThenTrue(p, rec), map # 0 => owner'[map] # None
    PROVE  WritersGo
<1> DEFINE c == [p |-> p, rec |-> rec, map |-> map]
<1>1. c \in Put /\ c.p = p /\ c.rec = rec /\ c.map = map
  BY DEF Put
<1>2. late' = [late EXCEPT ![w] = c]
  BY DEF Decides
<1> HIDE DEF c
<1> QED BY <1>1, <1>2, WriterGoes

LEMMA WritersStand ==
    ASSUME Knowledge, ChainGoes, UNCHANGED late
    PROVE  WritersGo
<1>1. PICK w \in Writers : TRUE
  BY DEF Writers
<1>2. late' = [late EXCEPT ![w] = late[w]] /\ late[w] \in Put
  BY Typed
<1>3. late[w] # NoPut => late[w].p \in Payments /\ ThenTrue(late[w].p, late[w].rec) /\ late[w].map \in 0 .. MaxTx
  BY <1>2, RecordsStand DEF Knowledge, WriterKnows, ChainGoes, Put
<1>4. late[w] # NoPut /\ late[w].map # 0 => owner'[late[w].map] # None
  BY <1>3 DEF Knowledge, WriterKnows, ChainKnows, ChainGoes, Lasting, Txs
<1> QED BY <1>2, <1>3, <1>4, WriterGoes

LEMMA ChainStands ==
    ASSUME Knowledge, UNCHANGED <<event, chain, txidMap>>
    PROVE  ChainGoes
BY DEF Knowledge, TypeOK, ChainGoes, Lasting, ChainKnows, Executed, Spent, chain

--------------------------------------------------------------------------------
(* The steps. *)

\* Steps that leave the chain, the consumers and the puts to come alone.
LEMMA SubmitKeeps ==
    ASSUME Knowledge, NEW p, TurnAway \/ (p \in Payments /\ Submit(p))
    PROVE  Knowledge'
<1> USE DEF kv, chain
<1>1. UNCHANGED <<event, chain, txidMap, cons, late, replacedTx, inDO>>
  BY DEF Submit, TurnAway, Admit, Mark, CreateRecord, IndexArtifact, Enqueue, EnqueueFails, SubmitDies
<1>2. ChainGoes /\ Lasting
  BY <1>1, ChainStands DEF ChainGoes
<1>3. ConsumersGo /\ WritersGo
  BY <1>1, <1>2, ConsumersStand, WritersStand
<1>4. TypeOK
  BY DEF Knowledge
<1>5. RestGoes
  <2> DEFINE S == {"idle", "mark", "record", "index", "send", "accepted", "over"}
  <2>1. /\ artifact' \in {artifact, None} \/ (p \in Payments /\ artifact' = p)
        /\ marker' \in {marker, TRUE, FALSE}
    BY DEF Submit, TurnAway, Admit, Mark, CreateRecord, IndexArtifact, Enqueue, EnqueueFails, SubmitDies
  <2>2. sub' = sub \/ \E s \in S : sub' = [sub EXCEPT ![p] = s]
    BY DEF Submit, TurnAway, Admit, Mark, CreateRecord, IndexArtifact, Enqueue, EnqueueFails, SubmitDies
  <2>3. msg' = msg \/ msg' = [msg EXCEPT ![p] = 1]
    BY DEF Submit, TurnAway, Admit, Mark, CreateRecord, IndexArtifact, Enqueue, EnqueueFails, SubmitDies
  <2>4. sub' \in [Payments -> S]
    BY <1>4, <2>2 DEF TypeOK
  <2>5. 1 \in 0 .. MaxDeliveries
    BY DEF MaxDeliveries
  <2>6. msg' \in [Payments -> 0 .. MaxDeliveries]
    BY <1>4, <2>3, <2>5 DEF TypeOK
  <2> QED BY <1>1, <1>4, <2>1, <2>4, <2>6 DEF TypeOK, RestGoes
<1>6. RecordsGo
  <2>1. CASE UNCHANGED record
    BY <1>2, <2>1, RecordsStand
  <2>2. CASE p \in Payments /\ CreateRecord(p)
    <3>1. Transition(Absent, "queued") \in Record /\ ThenTrue(p, Transition(Absent, "queued"))
      <4>1. ThenTrue(p, Absent)
        BY DEF ThenTrue, Absent
      <4>2. /\ Transition(Absent, "queued") \in Record
            /\ Transition(Absent, "queued").txid = Absent.txid /\ Transition(Absent, "queued").abort = Absent.abort
            /\ Transition(Absent, "queued").status = "queued"
        BY AbsentIsTrue, TransitionRecord DEF Statuses
      <4> QED BY <4>1, <4>2, LessIsTrue
    <3> QED BY <1>2, <2>2, <3>1, RecordPut DEF CreateRecord
  <2>3. CASE p \in Payments /\ EnqueueFails(p)
    <3> DEFINE x == FailedRecord(record[p], FALSE)
    <3>1. /\ x \in Record /\ x.txid = record[p].txid /\ x.abort = FALSE /\ x.status = "failed"
      BY <2>3, Typed, FailedRecordRecord
    <3>2. record' = [record EXCEPT ![p] = x]
      BY <2>3 DEF EnqueueFails
    <3> HIDE DEF x
    <3>3. ThenTrue(p, x)
      BY <1>2, <2>3, <3>1, RecordsStand, LessIsTrue
    <3> QED BY <1>2, <2>3, <3>1, <3>2, <3>3, RecordPut
  <2> QED BY <2>1, <2>2, <2>3 DEF Submit, TurnAway, Admit, Mark, IndexArtifact, Enqueue, SubmitDies
<1> QED BY <1>2, <1>3, <1>5, <1>6, GoesTogether

LEMMA ConsumerKeeps ==
    ASSUME Knowledge, NEW p \in Payments, ConsumerStep(p) \/ ConsumerDies(p)
    PROVE  Knowledge'
<1> USE DEF kv, chain
<1>1. TypeOK /\ ConsumerKnows(p) /\ record[p] \in Record /\ cons[p] \in Consumer /\ cons[p].rec \in Record
      /\ cons[p].n \in 0 .. MaxDeliveries
  BY Typed DEF Knowledge, Consumer
<1>2. UNCHANGED <<event, late, artifact, replacedTx, sub>>
  BY DEF ConsumerStep, ConsumerDies, AckUnread, Take, ConsumerPuts, SponsorHolds, TriesAgain, GivesUp, SponsorSigns,
         Broadcasts, BroadcastAckLost, ConsumerMaps, ConsumerNotes
<1>3. RestGoes
  <2>1. txidMap' \subseteq Txs
    <3>1. ConsumerMaps(p) => cons[p].rec.txid \in Txs
      BY <1>1 DEF ConsumerMaps, ConsumerKnows, At, Record, Txs
    <3> QED BY <1>1, <3>1 DEF TypeOK, ConsumerStep, ConsumerDies, AckUnread, Take, ConsumerPuts, SponsorHolds,
         TriesAgain, GivesUp, SponsorSigns, Broadcasts, BroadcastAckLost, ConsumerMaps, ConsumerNotes
  <2>2. msg' \in [Payments -> 0 .. MaxDeliveries]
    <3>1. msg' = msg \/ \E n \in 0 .. MaxDeliveries : msg' = [msg EXCEPT ![p] = n]
      <4>1. CASE ConsumerPuts(p)
        <5> DEFINE n == IF cons[p].next = "retry" /\ cons[p].n < MaxDeliveries THEN cons[p].n + 1 ELSE 0
        <5>1. n \in 0 .. MaxDeliveries
          BY <1>1 DEF MaxDeliveries
        <5> QED BY <4>1, <5>1 DEF ConsumerPuts
      <4>2. CASE ConsumerDies(p)
        <5>1. PICK n \in {0, cons[p].n + 1} : n <= MaxDeliveries /\ msg' = [msg EXCEPT ![p] = n]
          BY <4>2 DEF ConsumerDies
        <5>2. n \in 0 .. MaxDeliveries
          BY <1>1, <5>1 DEF MaxDeliveries
        <5> QED BY <5>1, <5>2
      <4>3. 0 \in 0 .. MaxDeliveries
        BY DEF MaxDeliveries
      <4> QED BY <4>1, <4>2, <4>3 DEF ConsumerStep, AckUnread, Take, SponsorHolds, TriesAgain, GivesUp, SponsorSigns,
           Broadcasts, BroadcastAckLost, ConsumerMaps, ConsumerNotes
    <3> QED BY <1>1, <3>1 DEF TypeOK
  <2>3. inDO' \in [Payments -> Places]
    <3>1. inDO' = inDO \/ \E d \in Places : inDO' = [inDO EXCEPT ![p] = d]
      <4>1. CASE SponsorSigns(p)
        <5> DEFINE d == IF inDO[p] = "held" THEN "no" ELSE inDO[p]
        <5>1. d \in Places /\ (inDO' = inDO \/ inDO' = [inDO EXCEPT ![p] = d])
          BY <1>1, <4>1 DEF SponsorSigns, TypeOK, Places
        <5> QED BY <5>1
      <4> QED BY <4>1 DEF Places, ConsumerStep, ConsumerDies, AckUnread, Take, ConsumerPuts, SponsorHolds,
           TriesAgain, GivesUp, Broadcasts, BroadcastAckLost, ConsumerMaps, ConsumerNotes
    <3> QED BY <1>1, <3>1 DEF TypeOK
  <2>4. marker' \in BOOLEAN
    BY <1>1 DEF TypeOK, ConsumerStep, ConsumerDies, AckUnread, Take, ConsumerPuts, SponsorHolds,
         TriesAgain, GivesUp, SponsorSigns, Broadcasts, BroadcastAckLost, ConsumerMaps, ConsumerNotes
  <2> QED BY <1>1, <1>2, <2>1, <2>2, <2>3, <2>4 DEF TypeOK, RestGoes
<1>4. ASSUME ChainGoes, ConsumersGo, RecordsGo PROVE Knowledge'
  BY <1>2, <1>3, <1>4, WritersStand, GoesTogether DEF ChainGoes
<1>5. ASSUME UNCHANGED <<event, chain, txidMap>> PROVE ChainGoes /\ Lasting
  BY <1>5, ChainStands DEF ChainGoes
<1>6. CASE AckUnread(p)
  BY <1>4, <1>5, <1>6, ConsumersStand, RecordsStand DEF AckUnread
<1>7. CASE Take(p)
  <2> DEFINE x == Transition(record[p], "mempool")
             y == Transition(record[p], "broadcasting")
  <2>1. /\ Goes(p, Putting(msg[p], x, "ack")) \/ Goes(p, Putting(msg[p], y, "sponsor"))
        /\ UNCHANGED <<event, chain, txidMap, record>> /\ msg[p] \in 0 .. MaxDeliveries
    BY <1>1, <1>7 DEF Take, TypeOK
  <2>2. ChainGoes /\ Lasting /\ ThenTrue(p, record[p])
    BY <1>5, <2>1, RecordsStand
  <2>3. x \in Record /\ ThenTrue(p, x)
    BY <1>1, <2>2, TransitionRecord, LessIsTrue DEF Statuses
  <2>4. y \in Record /\ ThenTrue(p, y)
    BY <1>1, <2>2, TransitionRecord, LessIsTrue DEF Statuses
  <2> HIDE DEF x, y
  <2> QED BY <1>4, <2>1, <2>2, <2>3, <2>4, RecordsStand, ConsumerWillPut
<1>8. CASE ConsumerPuts(p)
  <2>1. UNCHANGED <<event, chain, txidMap>> /\ record' = [record EXCEPT ![p] = cons[p].rec]
    BY <1>8 DEF ConsumerPuts
  <2>2. ChainGoes /\ Lasting /\ ThenTrue(p, cons[p].rec)
    BY <1>5, <2>1, RecordsStand
  <2>3. RecordsGo
    BY <1>1, <2>1, <2>2, RecordPut
  <2>4. CASE Goes(p, IdleConsumer)
    BY <1>4, <2>1, <2>2, <2>3, <2>4, ConsumerIdles
  <2>5. CASE cons[p].next \in {"sponsor", "map"} /\ Goes(p, [cons[p] EXCEPT !.pc = cons[p].next])
    <3>1. cons[p].next = "map" => cons[p].rec.txid # 0
      BY <1>1, <1>8 DEF ConsumerPuts, ConsumerKnows
    <3>2. ConsumersGo
      BY <2>2, <2>5, <3>1, ConsumerSteps
    <3> QED BY <1>4, <2>1, <2>2, <2>3, <3>2
  <2> QED BY <1>1, <1>8, <2>4, <2>5 DEF ConsumerPuts, Consumer
<1>9. CASE SponsorHolds(p)
  <2> DEFINE x == HeldRecord(cons[p].rec, "gap")
             y == HeldRecord(cons[p].rec, "capacity")
  <2>1. /\ Goes(p, Putting(cons[p].n, x, "ack")) \/ Goes(p, Putting(cons[p].n, y, "retry"))
        /\ UNCHANGED <<event, chain, txidMap, record>>
    BY <1>9 DEF SponsorHolds
  <2>2. ChainGoes /\ Lasting /\ ThenTrue(p, cons[p].rec)
    BY <1>5, <2>1, RecordsStand
  <2>3. x \in Record /\ ThenTrue(p, x)
    BY <1>1, <2>2, HeldRecordRecord, LessIsTrue
  <2>4. y \in Record /\ ThenTrue(p, y)
    BY <1>1, <2>2, HeldRecordRecord, LessIsTrue
  <2> HIDE DEF x, y
  <2> QED BY <1>1, <1>4, <2>1, <2>2, <2>3, <2>4, RecordsStand, ConsumerWillPut
<1>10. CASE TriesAgain(p)
  <2> DEFINE x == Transition(cons[p].rec, "queued")
  <2>1. /\ Goes(p, Putting(cons[p].n, x, "retry"))
        /\ UNCHANGED <<event, chain, txidMap, record>>
    BY <1>10 DEF TriesAgain
  <2>2. ChainGoes /\ Lasting /\ ThenTrue(p, cons[p].rec)
    BY <1>5, <2>1, RecordsStand
  <2>3. x \in Record /\ ThenTrue(p, x)
    BY <1>1, <2>2, TransitionRecord, LessIsTrue DEF Statuses
  <2> HIDE DEF x
  <2> QED BY <1>1, <1>4, <2>1, <2>2, <2>3, RecordsStand, ConsumerWillPut
<1> DEFINE failed == FailedRecord(cons[p].rec, FALSE)
<1>11. /\ failed \in Record
       /\ ThenTrue(p, cons[p].rec) => ThenTrue(p, failed)
  <2>1. failed.txid = cons[p].rec.txid /\ failed.abort = FALSE /\ failed.status = "failed" /\ failed \in Record
    BY <1>1, FailedRecordRecord
  <2> QED BY <2>1, LessIsTrue
<1>12. CASE GivesUp(p)
  <2>1. /\ Goes(p, Putting(cons[p].n, failed, "ack"))
        /\ UNCHANGED <<event, chain, txidMap, record>>
    BY <1>12 DEF GivesUp
  <2>2. ChainGoes /\ Lasting /\ ThenTrue(p, cons[p].rec)
    BY <1>5, <2>1, RecordsStand
  <2> HIDE DEF failed
  <2> QED BY <1>1, <1>4, <1>11, <2>1, <2>2, RecordsStand, ConsumerWillPut
<1>13. CASE SponsorSigns(p)
  <2>1. /\ Goes(p, [cons[p] EXCEPT !.pc = "send"])
        /\ UNCHANGED <<event, chain, txidMap, record>>
    BY <1>13 DEF SponsorSigns
  <2>2. ChainGoes /\ Lasting
    BY <1>5, <2>1
  <2> QED BY <1>4, <2>1, <2>2, RecordsStand, ConsumerSteps
<1>14. ASSUME NEW t \in Txs, Accept(t, p), UNCHANGED txidMap
       PROVE  ChainGoes /\ Lasting /\ ThenTrue(p, cons[p].rec) /\ owner'[t] = p
  <2>1. ChainGoes /\ owner'[t] = p
    BY <1>1, <1>2, <1>14, AcceptLasts DEF Knowledge, ChainGoes, TypeOK
  <2> QED BY <2>1, RecordsStand DEF ChainGoes
<1>15. CASE Broadcasts(p)
  <2>1. PICK t \in Txs : Accept(t, p) /\ Goes(p, Putting(cons[p].n, ToMempool(cons[p].rec, t), "map"))
    BY <1>15 DEF Broadcasts
  <2>2. UNCHANGED <<txidMap, record>>
    BY <1>15 DEF Broadcasts
  <2> DEFINE x == ToMempool(cons[p].rec, t)
  <2>3. x \in Record /\ x.txid = t /\ x.abort = cons[p].rec.abort /\ x.status = "mempool"
    BY <1>1, ToMempoolRecord
  <2>4. t # 0
    BY DEF Txs
  <2>5. Goes(p, Putting(cons[p].n, x, "map"))
    BY <2>1
  <2> HIDE DEF x
  <2>6. ThenTrue(p, x)
    BY <1>14, <2>1, <2>2, <2>3 DEF ThenTrue
  <2> QED BY <1>1, <1>4, <1>14, <2>1, <2>2, <2>3, <2>4, <2>5, <2>6, RecordsStand, ConsumerWillPut
<1>16. CASE BroadcastAckLost(p)
  <2>1. PICK t \in Txs : Accept(t, p)
    BY <1>16 DEF BroadcastAckLost
  <2>2. UNCHANGED <<txidMap, record>> /\ Goes(p, Putting(cons[p].n, failed, "ack"))
    BY <1>16 DEF BroadcastAckLost
  <2> HIDE DEF failed
  <2> QED BY <1>1, <1>4, <1>11, <1>14, <2>1, <2>2, RecordsStand, ConsumerWillPut
<1>17. CASE ConsumerMaps(p)
  <2>1. /\ UNCHANGED <<event, chain, record>> /\ Goes(p, [cons[p] EXCEPT !.pc = "note"])
        /\ txidMap' \in {txidMap, txidMap \cup {cons[p].rec.txid}}
    BY <1>17 DEF ConsumerMaps
  <2>2. cons[p].rec.txid # 0 /\ owner[cons[p].rec.txid] = p
    BY <1>1, <1>17 DEF ConsumerMaps, ConsumerKnows, Truthful
  <2>3. ChainGoes /\ Lasting
    BY <2>1, <2>2 DEF Knowledge, TypeOK, ChainGoes, Lasting, ChainKnows, Executed, Spent
  <2> QED BY <1>4, <2>1, <2>2, <2>3, RecordsStand, ConsumerSteps
<1>18. CASE ConsumerNotes(p)
  <2>1. UNCHANGED <<event, chain, txidMap, record>> /\ Goes(p, IdleConsumer)
    BY <1>18 DEF ConsumerNotes
  <2> QED BY <1>4, <1>5, <2>1, RecordsStand, ConsumerIdles
<1>19. CASE ConsumerDies(p)
  <2>1. UNCHANGED <<event, chain, txidMap, record>> /\ Goes(p, IdleConsumer)
    BY <1>19 DEF ConsumerDies
  <2> QED BY <1>4, <1>5, <2>1, RecordsStand, ConsumerIdles
<1> QED BY <1>6, <1>7, <1>8, <1>9, <1>10, <1>12, <1>13, <1>15, <1>16, <1>17, <1>18, <1>19 DEF ConsumerStep

\* NonceDO and the observers: a read of the record and, later, a put.
LEMMA AlarmKeeps ==
    ASSUME Knowledge, Alarm \/ (\E t \in Txs : Chainhook(t)) \/ (\E p \in Payments : Poll(p))
    PROVE  Knowledge'
<1> USE DEF kv, chain
<1>1. TypeOK /\ UNCHANGED <<record, artifact, marker, txidMap, sub, msg, cons>>
  BY DEF Knowledge, Alarm, Chainhook, Poll, SweepHeld, HandExpires, AlarmBroadcasts, AlarmRetires, Reconcile,
         NotifyConfirmation, NotifyReplacement, Replace, SelfHeal
<1>2. ASSUME ChainGoes, WritersGo, replacedTx' \subseteq Txs,
             inDO' \in [Payments -> Places]
      PROVE  Knowledge'
  <2>1. ConsumersGo /\ RecordsGo
    BY <1>1, <1>2, ConsumersStand, RecordsStand DEF ChainGoes
  <2>2. RestGoes
    BY <1>1, <1>2 DEF TypeOK, RestGoes
  <2> QED BY <1>2, <2>1, <2>2, GoesTogether
<1>3. ASSUME UNCHANGED <<event, chain>> PROVE ChainGoes /\ Lasting
  BY <1>1, <1>3, ChainStands DEF ChainGoes
<1>4. /\ inDO \in [Payments -> Places] /\ replacedTx \subseteq Txs
      /\ tx \in [Txs -> {"unused", "pending", "ok", "abort", "gone", "replaced", "lost"}]
      /\ owner \in [Txs -> Payments \cup {None}] /\ event \in [Txs -> {"none", "confirmed", "aborted", "read"}]
      /\ Places = {"no", "held", "dispatched"} /\ 0 \in 0 .. MaxTx
  BY <1>1 DEF TypeOK, Places
\* A transaction that is mapped, or whose nonce was used, has an owner among the payments.
<1>5. ASSUME NEW t \in Txs, t \in txidMap \/ Spent(t) PROVE owner[t] \in Payments
  BY <1>4, <1>5 DEF Knowledge, ChainKnows, Executed, Spent
<1>6. ASSUME NEW w \in Writers, NEW t \in Txs, Spent(t), NEW ok \in BOOLEAN, ~ok => tx[t] = "abort",
             NEW p \in Payments, owner[t] = p, ChainGoes, Decides(w, p, Finalised(record[p], ok), 0)
      PROVE  WritersGo
  <2>1. ThenTrue(p, record[p]) /\ record[p] \in Record
    BY <1>6, RecordsStand, Typed DEF ChainGoes
  <2>2. owner'[t] = p /\ tx'[t] \in {"ok", "abort", "lost"} /\ (~ok => tx'[t] = "abort")
    BY <1>6 DEF ChainGoes, Lasting, Executed, Spent
  <2>3. Finalised(record[p], ok) \in Record /\ ThenTrue(p, Finalised(record[p], ok))
    BY <2>1, <2>2, FinalisedTrue
  <2> QED BY <1>4, <1>6, <2>3, WriterDecides
<1>7. ASSUME NEW p \in Payments, SweepHeld(p) PROVE Knowledge'
  <2>1. UNCHANGED <<event, chain, replacedTx>> /\ inDO' = [inDO EXCEPT ![p] = "dispatched"]
    BY <1>7 DEF SweepHeld
  <2>2. ChainGoes /\ Lasting
    BY <1>3, <2>1
  <2> DEFINE x == [record[p] EXCEPT !.hold = "no"]
  <2>3. x \in Record /\ ThenTrue(p, x)
    <3>1. x \in Record /\ x.txid = record[p].txid /\ x.abort = record[p].abort /\ x.status = record[p].status
      BY Typed, UnholdRecord
    <3> HIDE DEF x
    <3> QED BY <2>2, <3>1, RecordsStand, LessIsTrue
  <2>4. late' = late \/ Decides("alarm", p, x, 0)
    BY <1>7 DEF SweepHeld
  <2> HIDE DEF x
  <2>5. WritersGo
    BY <1>4, <2>2, <2>3, <2>4, WriterDecides, WritersStand DEF Writers
  <2> QED BY <1>2, <1>4, <2>1, <2>2, <2>5
<1>8. ASSUME NEW p \in Payments, HandExpires(p) \/ AlarmRetires(p) PROVE Knowledge'
  <2>1. UNCHANGED <<event, chain, replacedTx, late>> /\ inDO' = [inDO EXCEPT ![p] = "no"]
    BY <1>8 DEF HandExpires, AlarmRetires
  <2> QED BY <1>2, <1>3, <1>4, <2>1, WritersStand
<1>9. ASSUME NEW p \in Payments, AlarmBroadcasts(p) PROVE Knowledge'
  <2>1. PICK t \in Txs :
           /\ Accept(t, p)
           /\ Decides("alarm", p, IF Active(record[p]) THEN ToMempool(record[p], t) ELSE Absent, t)
    BY <1>9 DEF AlarmBroadcasts
  <2>2. UNCHANGED <<event, replacedTx>> /\ inDO' = [inDO EXCEPT ![p] = "no"]
    BY <1>9 DEF AlarmBroadcasts
  <2>3. ChainGoes /\ owner'[t] = p
    BY <1>1, <2>1, <2>2, AcceptLasts DEF Knowledge, ChainGoes, TypeOK
  <2> DEFINE x == IF Active(record[p]) THEN ToMempool(record[p], t) ELSE Absent
  <2>4. x \in Record /\ ThenTrue(p, x)
    <3>1. CASE Active(record[p])
      <4>1. x = ToMempool(record[p], t) /\ record[p] \in Record
        BY <3>1, Typed
      <4>2. x \in Record /\ x.txid = t /\ x.abort = record[p].abort /\ x.status = "mempool"
        BY <4>1, ToMempoolRecord
      <4> QED BY <2>3, <4>2, RecordsStand DEF ThenTrue, ChainGoes
    <3>2. CASE ~Active(record[p])
      BY <3>2, AbsentIsTrue DEF ThenTrue, Absent
    <3> QED BY <3>1, <3>2
  <2>5. t \in 0 .. MaxTx /\ Decides("alarm", p, x, t)
    BY <2>1 DEF Txs
  <2> HIDE DEF x
  <2>6. WritersGo
    BY <2>3, <2>4, <2>5, WriterDecides DEF Writers
  <2> QED BY <1>2, <1>4, <2>2, <2>3, <2>6
<1>10. ASSUME NEW t \in Txs, Reconcile(t) PROVE Knowledge'
  <2>1. UNCHANGED <<tx, owner, replacedTx, late, inDO>>
    BY <1>10 DEF Reconcile
  <2>2. PICK e \in {"confirmed", "aborted"} :
           Spent(t) /\ (e = "aborted" => tx[t] = "abort") /\ event' = [event EXCEPT ![t] = e]
    BY <1>10 DEF Reconcile
  <2>3. ChainGoes
    BY <1>1, <1>4, <2>1, <2>2 DEF Knowledge, TypeOK, ChainGoes, Lasting, ChainKnows, Executed, Spent
  <2> QED BY <1>2, <1>4, <2>1, <2>3, WritersStand
<1>11. ASSUME NEW t \in Txs, NotifyConfirmation(t) PROVE Knowledge'
  <2>1. /\ UNCHANGED <<tx, owner, replacedTx, inDO>> /\ event[t] \in {"confirmed", "aborted"}
        /\ event' = [event EXCEPT ![t] = "read"]
    BY <1>11 DEF NotifyConfirmation
  <2>2. ChainGoes
    BY <1>1, <1>4, <2>1 DEF Knowledge, TypeOK, ChainGoes, Lasting, ChainKnows, Executed, Spent
  <2>3. CASE UNCHANGED late
    BY <1>2, <1>4, <2>1, <2>2, <2>3, WritersStand
  <2>4. CASE t \in txidMap /\ Decides("alarm", owner[t], Finalised(record[owner[t]], event[t] = "confirmed"), 0)
    <3>1. Spent(t) /\ (~(event[t] = "confirmed") => tx[t] = "abort")
      BY <2>1 DEF Knowledge, ChainKnows, Executed, Spent
    <3>2. WritersGo
      BY <1>5, <1>6, <2>2, <2>4, <3>1 DEF Writers
    <3> QED BY <1>2, <1>4, <2>1, <2>2, <3>2
  <2> QED BY <1>11, <2>3, <2>4 DEF NotifyConfirmation
<1>12. ASSUME NEW t \in Txs, NEW told \in BOOLEAN, NEW replay \in BOOLEAN, Replace(t, told, replay) PROVE Knowledge'
  <2>1. /\ UNCHANGED <<event, owner, late>> /\ tx[t] \in {"pending", "gone"}
        /\ tx' = [tx EXCEPT ![t] = "replaced"]
        /\ replacedTx' \in {replacedTx, replacedTx \cup {t}}
        /\ inDO' = inDO \/ inDO' = [inDO EXCEPT ![owner[t]] = "dispatched"]
    BY <1>12 DEF Replace
  <2>2. ChainGoes
    <3>1. tx'[t] = "replaced" /\ \A u \in Txs \ {t} : tx'[u] = tx[u]
      BY <1>4, <2>1
    <3> QED BY <1>1, <1>4, <2>1, <3>1 DEF Knowledge, TypeOK, ChainGoes, Lasting, ChainKnows, Executed, Spent
  <2> QED BY <1>2, <1>4, <2>1, <2>2, WritersStand
<1>13. ASSUME NEW t \in Txs, NotifyReplacement(t) PROVE Knowledge'
  <2>1. UNCHANGED <<event, chain, inDO>> /\ replacedTx' = replacedTx \ {t}
    BY <1>13 DEF NotifyReplacement
  <2>2. ChainGoes /\ Lasting
    BY <1>3, <2>1
  <2>3. CASE UNCHANGED late
    BY <1>2, <1>4, <2>1, <2>2, <2>3, WritersStand
  <2> DEFINE p == owner[t]
             x == Transition(record[p], "replaced")
  <2>4. CASE t \in txidMap /\ Decides("alarm", p, x, 0)
    <3>1. p \in Payments /\ record[p] \in Record
      BY <1>5, <2>4, Typed
    <3>2. x \in Record /\ ThenTrue(p, x)
      BY <2>2, <3>1, TransitionRecord, RecordsStand, LessIsTrue DEF Statuses, Terminal
    <3> HIDE DEF x
    <3>3. WritersGo
      BY <1>4, <2>2, <2>4, <3>1, <3>2, WriterDecides DEF Writers
    <3> QED BY <1>2, <1>4, <2>1, <2>2, <3>3
  <2> QED BY <1>13, <2>3, <2>4 DEF NotifyReplacement
<1>14. ASSUME NEW t \in Txs, Chainhook(t) PROVE Knowledge'
  <2>1. /\ UNCHANGED <<event, chain, replacedTx, inDO>> /\ Executed(t)
    BY <1>14 DEF Chainhook
  <2>2. ChainGoes /\ Lasting
    BY <1>3, <2>1
  <2>3. WritersGo
    <3>1. CASE UNCHANGED late
      BY <2>2, <3>1, WritersStand
    <3>2. CASE Decides("observer", owner[t], Finalised(record[owner[t]], tx[t] = "ok"), 0)
      BY <1>5, <1>6, <2>1, <2>2, <3>2 DEF Executed, Spent, Writers
    <3> QED BY <1>14, <3>1, <3>2 DEF Chainhook
  <2> QED BY <1>2, <1>4, <2>1, <2>2, <2>3
<1>15. ASSUME NEW p \in Payments, SelfHeal(p) PROVE Knowledge'
  <2> DEFINE t == record[p].txid
  <2>1. /\ UNCHANGED <<event, chain, replacedTx, inDO>> /\ t # 0 /\ Executed(t)
        /\ Decides("observer", p, Finalised(record[p], tx[t] = "ok"), 0)
    BY <1>15 DEF SelfHeal
  <2>2. ChainGoes /\ Lasting
    BY <1>3, <2>1
  <2>3. t \in Txs /\ owner[t] = p
    BY <2>1, Typed DEF Knowledge, Truthful, Record, Txs
  <2>4. WritersGo
    BY <1>6, <2>1, <2>2, <2>3 DEF Executed, Spent, Writers
  <2> QED BY <1>2, <1>4, <2>1, <2>2, <2>4
<1> QED BY <1>7, <1>8, <1>9, <1>10, <1>11, <1>12, <1>13, <1>14, <1>15 DEF Alarm, Poll

\* A put that was decided on is made: it says what was true, and is still.
LEMMA LatePutKeeps ==
    ASSUME Knowledge, NEW w \in Writers, LatePut(w)
    PROVE  Knowledge'
<1> USE DEF chain
<1>1. /\ TypeOK /\ WriterKnows(w) /\ late[w] # NoPut /\ late[w] \in Put
      /\ UNCHANGED <<artifact, marker, replacedTx, sub, msg, cons, inDO, event, chain>>
      /\ txidMap' = txidMap \cup ({late[w].map} \cap Txs)
  BY Typed DEF Knowledge, LatePut, Free
<1>2. ChainGoes /\ Lasting
  BY <1>1 DEF Knowledge, TypeOK, ChainGoes, Lasting, ChainKnows, WriterKnows, Executed, Spent, Txs
<1>3. RecordsGo
  <2>1. CASE UNCHANGED record
    BY <1>2, <2>1, RecordsStand
  <2>2. CASE record' = [record EXCEPT ![late[w].p] = late[w].rec]
    <3>1. late[w].p \in Payments /\ late[w].rec \in Record /\ ThenTrue(late[w].p, late[w].rec)
      BY <1>1, <1>2, RecordsStand, Typed DEF WriterKnows
    <3> QED BY <1>2, <2>2, <3>1, RecordPut
  <2> QED BY <2>1, <2>2 DEF LatePut
<1>4. WritersGo
  BY <1>2, IdleTyped, WriterGoes DEF LatePut
<1>5. RestGoes
  BY <1>1 DEF TypeOK, RestGoes
<1> QED BY <1>1, <1>2, <1>3, <1>4, <1>5, ConsumersStand, GoesTogether

LEMMA EnvironmentKeeps ==
    ASSUME Knowledge, Environment \/ UNCHANGED vars
    PROVE  Knowledge'
<1> USE DEF kv, chain
<1>1. /\ TypeOK
      /\ UNCHANGED <<txidMap, replacedTx, sub, msg, cons, late, inDO, event, owner>>
      /\ artifact' \in {artifact, None} /\ marker' \in {marker, FALSE}
  BY DEF Knowledge, Environment, Mine, Evict, SlotTaken, ExpireIndex, ExpireMarker, ExpireRecord, vars
<1>2. RestGoes
  BY <1>1 DEF TypeOK, RestGoes
<1>3. ChainGoes
  <2>1. CASE UNCHANGED tx
    BY <1>1, <2>1, ChainStands
  <2>2. ASSUME NEW t \in Txs, Mine(t, "ok") \/ Mine(t, "abort") \/ Evict(t) \/ SlotTaken(t) PROVE ChainGoes
    <3>1. PICK s \in {"ok", "abort", "gone", "lost"} : tx' = [tx EXCEPT ![t] = s]
      BY <2>2 DEF Mine, Evict, SlotTaken
    <3>2. /\ tx[t] \in {"pending", "gone", "replaced"}
          /\ tx \in [Txs -> {"unused", "pending", "ok", "abort", "gone", "replaced", "lost"}]
      BY <1>1, <2>2 DEF Mine, Evict, SlotTaken, TypeOK
    <3>3. /\ tx' \in [Txs -> {"unused", "pending", "ok", "abort", "gone", "replaced", "lost"}]
          /\ tx'[t] = s /\ \A u \in Txs \ {t} : tx'[u] = tx[u]
      BY <3>1, <3>2
    <3> QED BY <1>1, <3>2, <3>3 DEF Knowledge, TypeOK, ChainGoes, Lasting, ChainKnows, Executed, Spent
  <2> QED BY <2>1, <2>2 DEF Environment, ExpireIndex, ExpireMarker, ExpireRecord, vars
<1>4. Lasting
  BY <1>3 DEF ChainGoes
<1>5. RecordsGo
  <2>1. CASE UNCHANGED record
    BY <1>4, <2>1, RecordsStand
  <2>2. ASSUME NEW p \in Payments, ExpireRecord(p) PROVE RecordsGo
    <3>1. Absent \in Record /\ ThenTrue(p, Absent)
      BY AbsentIsTrue DEF ThenTrue, Absent
    <3> QED BY <1>4, <2>2, <3>1, RecordPut DEF ExpireRecord
  <2> QED BY <2>1, <2>2 DEF Environment, Mine, Evict, SlotTaken, ExpireIndex, ExpireMarker, vars
<1> QED BY <1>1, <1>2, <1>3, <1>4, <1>5, ConsumersStand, WritersStand, GoesTogether

LEMMA InitKnowledge == Init => Knowledge
<1> SUFFICES ASSUME Init PROVE Knowledge
  OBVIOUS
<1>1. TypeOK
  <2>1. cons \in [Payments -> Consumer] /\ late \in [Writers -> Put] /\ record \in [Payments -> Record]
    BY AbsentIsTrue, IdleTyped DEF Init
  <2>2. msg \in [Payments -> 0 .. MaxDeliveries] /\ inDO \in [Payments -> Places]
    BY DEF Init, MaxDeliveries, Places
  <2> QED BY <2>1, <2>2 DEF Init, TypeOK, Consumer, Put
<1>2. \A t \in Txs : ChainKnows(t)
  BY DEF Init, ChainKnows
<1>3. \A p \in Payments : Truthful(p, record[p]) /\ ConsumerKnows(p)
  BY AbsentIsTrue DEF Init, ConsumerKnows, IdleConsumer, At
<1>4. \A w \in Writers : WriterKnows(w)
  BY DEF Init, WriterKnows
<1> QED BY <1>1, <1>2, <1>3, <1>4 DEF Knowledge

LEMMA NextKeepsKnowledge == Knowledge /\ [Next]_vars => Knowledge'
<1> SUFFICES ASSUME Knowledge, [Next]_vars PROVE Knowledge'
  OBVIOUS
<1>1. ASSUME NEW p \in Payments, Submit(p) \/ ConsumerStep(p) \/ ConsumerDies(p) \/ Poll(p) PROVE Knowledge'
  BY <1>1, SubmitKeeps, ConsumerKeeps, AlarmKeeps
<1>2. CASE TurnAway
  BY <1>2, SubmitKeeps
<1>3. CASE (\E t \in Txs : Chainhook(t)) \/ Alarm
  BY <1>3, AlarmKeeps
<1>4. ASSUME NEW w \in Writers, LatePut(w) PROVE Knowledge'
  BY <1>4, LatePutKeeps
<1>5. CASE Environment \/ UNCHANGED vars
  BY <1>5, EnvironmentKeeps
<1> QED BY <1>1, <1>2, <1>3, <1>4, <1>5 DEF Next

LEMMA AlwaysKnowledge == Spec => []Knowledge
BY InitKnowledge, NextKeepsKnowledge, PTL DEF Spec

--------------------------------------------------------------------------------
\* Type correctness, for any number of payments, transactions and attempts.
THEOREM TypeCorrect == Spec => []TypeOK
<1>1. Knowledge => TypeOK
  BY DEF Knowledge
<1> QED BY <1>1, AlwaysKnowledge, PTL

\* The consumer, the alarm, the chainhook and the polls overwrite each other's records without a
\* compare-and-swap, and still what checkPayment and GET /payment/:id answer is true of the
\* chain: the txid is one of the payment's, an abort was executed, and behind a confirmation the
\* sponsor nonce of one of its transactions was used up, by that transaction or another one.
THEOREM AnswersTrue == Spec => []AnswersTruthful
<1>1. ASSUME Knowledge PROVE AnswersTruthful
  <2> SUFFICES ASSUME NEW p \in Payments PROVE Truthful(p, Answer(p))
    BY DEF AnswersTruthful
  <2>1. Truthful(p, record[p]) /\ record[p] \in Record
    BY <1>1, Typed DEF Knowledge
  <2>2. CASE record[p] = Absent
    <3>1. LET x == [Absent EXCEPT !.status = "not_found"] IN
            x.txid = 0 /\ x.abort = FALSE /\ x.status = "not_found"
      BY DEF Absent
    <3> QED BY <2>2, <3>1 DEF Answer, Truthful
  <2>3. CASE record[p] # Absent
    <3> DEFINE x == Projected(record[p])
    <3>1. x.txid = record[p].txid /\ x.status = record[p].status /\ (x.abort => record[p].abort)
      BY <2>1 DEF Projected, Record
    <3>2. Answer(p) = x
      BY <2>3 DEF Answer
    <3> HIDE DEF x
    <3> QED BY <2>1, <3>1, <3>2 DEF Truthful
  <2> QED BY <2>2, <2>3
<1> QED BY <1>1, AlwaysKnowledge, PTL
================================================================================
