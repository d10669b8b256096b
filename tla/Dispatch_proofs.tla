---------------------------- MODULE Dispatch_proofs ----------------------------
(***************************************************************************)
(* Proofs about Dispatch, for any finite number of senders and nonces, any  *)
(* number of wallets and sponsor nonces, any limits per tick, any length of *)
(* the buffer and any number of upsets.                                    *)
(*                                                                         *)
(* What a queue row says depends on who may still write it: a Worker that  *)
(* reports late, perhaps on the row of another transaction, the alarm with *)
(* the list it took at its start, a replay on a nonce in use.  Knowledge    *)
(* says of each of them what makes its next write true; Goes says what any  *)
(* step may do to a row.                                                   *)
(***************************************************************************)
EXTENDS Dispatch, FiniteSetTheorems, SequenceTheorems, TLAPS

--------------------------------------------------------------------------------
(* What is known, and where. *)

RowKnows(s) ==
    /\ row[s].st = "dispatched" => s \in sent
    /\ row[s].st = "confirmed" => Passed(s)

\* The Worker that will report a nonce has had it taken by the node.
WorkerKnows ==
    /\ worker \in [pc : {"idle", "sign", "outcome", "report"}, tx : Txs \cup {None}, slot : Slots]
    /\ worker.pc # "idle" => worker.tx \in Txs
    /\ worker.pc \in {"outcome", "report"} => worker.slot \in sent

\* The rows the alarm took are there until it comes to them.
AlarmKnows ==
    /\ alarm \in [pc : {"idle", "reconcile", "sweep", "broadcast", "replay"},
                  todo : Seq(Slots) \cup Seq(Entries), skip : SUBSET Wallets]
    /\ alarm.pc = "broadcast" =>
         /\ alarm.todo \in Seq(Slots) \ {<<>>}
         /\ \A i \in 1 .. Len(alarm.todo) : row[alarm.todo[i]] # NoRow
    /\ alarm.pc = "replay" => alarm.todo \in Seq(Entries) \ {<<>>}

Knowledge ==
    /\ TypeOK
    /\ \A s \in Slots : RowKnows(s)
    /\ WorkerKnows /\ AlarmKnows

--------------------------------------------------------------------------------
(* Slots, rows and listings. *)

LEMMA Bounds ==
    /\ MaxNonce \in Nat /\ MaxUpsets \in Nat /\ ReplayLimit \in Nat /\ WalletCount \in Nat \ {0}
    /\ RecycleLimit \in Nat \ {0} /\ BroadcastLimit \in Nat \ {0}
    /\ None \notin Txs /\ Self \notin Txs
    /\ IsFiniteSet(Senders) /\ IsFiniteSet(SenderNonces)
BY DispatchAssumption

LEMMA SlotParts ==
    ASSUME NEW s \in Slots
    PROVE  /\ s[1] \in Wallets /\ s[2] \in Nonces /\ s = <<s[1], s[2]>>
           /\ s[1] \in Nat /\ s[2] \in Nat
BY Bounds DEF Slots, Wallets, Nonces

LEMMA HeadSlot ==
    ASSUME NEW w \in Wallets, head \in [Wallets -> Heads], head[w] <= MaxNonce
    PROVE  <<w, head[w]>> \in Slots
BY Bounds DEF Slots, Nonces, Heads, Wallets

LEMMA NoRowIsNone == ASSUME NEW r \in Rows PROVE r = NoRow <=> r.st = "none"
BY DEF Rows, NoRow, RowStates

LEMMA ProperRow ==
    ASSUME NEW r \in Rows, r # NoRow
    PROVE  r.tx \in Txs /\ r.st \in RowStates /\ r = [tx |-> r.tx, st |-> r.st]
BY DEF Rows, NoRow

LEMMA RowMoved ==
    ASSUME NEW r \in Rows, r # NoRow, NEW st \in RowStates
    PROVE  LET x == [r EXCEPT !.st = st] IN
           x \in Rows /\ x # NoRow /\ x.tx = r.tx /\ x.st = st
BY DEF Rows, NoRow, RowStates

\* What Moved does: nothing where there is no row, and else the state is st.
LEMMA MovedIs ==
    ASSUME NEW rows \in [Slots -> Rows], NEW s \in Slots, NEW st \in RowStates
    PROVE  /\ Moved(rows, s, st) \in [Slots -> Rows]
           /\ \A r \in Slots \ {s} : Moved(rows, s, st)[r] = rows[r]
           /\ rows[s] = NoRow => Moved(rows, s, st)[s] = NoRow
           /\ rows[s] # NoRow => /\ Moved(rows, s, st)[s] # NoRow
                                 /\ Moved(rows, s, st)[s].tx = rows[s].tx
                                 /\ Moved(rows, s, st)[s].st = st
<1> DEFINE x == [rows[s] EXCEPT !.st = st]
<1>1. CASE rows[s] = NoRow
  BY <1>1 DEF Moved
<1>2. CASE rows[s] # NoRow
  <2>1. x \in Rows /\ x # NoRow /\ x.tx = rows[s].tx /\ x.st = st
    BY <1>2, RowMoved
  <2>2. Moved(rows, s, st) = [rows EXCEPT ![s] = x]
    BY <1>2 DEF Moved
  <2> HIDE DEF x
  <2> QED BY <2>1, <2>2, <1>2
<1> QED BY <1>1, <1>2

LEMMA MovedKeeps ==
    ASSUME NEW rows \in [Slots -> Rows], NEW s \in Slots, NEW st \in RowStates, NEW r \in Slots
    PROVE  Moved(rows, s, st) \in [Slots -> Rows] /\ (rows[r] # NoRow => Moved(rows, s, st)[r] # NoRow)
<1>1. CASE r = s
  BY <1>1, MovedIs
<1>2. CASE r # s
  <2>1. Moved(rows, s, st)[r] = rows[r]
    BY <1>2, MovedIs
  <2> QED BY <2>1, MovedIs
<1> QED BY <1>1, <1>2

LEMMA SlotsFinite == IsFiniteSet(Slots)
<1>1. IsFiniteSet(Wallets) /\ IsFiniteSet(Nonces)
  BY FS_Interval, Bounds DEF Wallets, Nonces
<1> QED BY <1>1, FS_Product DEF Slots

\* A listing of a finite set is a sequence of its members, as long as the set is large.
LEMMA SlotListing ==
    ASSUME NEW S \in SUBSET Slots, NEW f \in Listings(S, Before)
    PROVE  /\ f \in Seq(S) /\ f \in Seq(Slots)
           /\ Len(f) = Cardinality(S) /\ Cardinality(S) \in Nat
           /\ S # {} => f # <<>>
<1>1. IsFiniteSet(S) /\ Cardinality(S) \in Nat
  BY SlotsFinite, FS_Subset, FS_CardinalityType
<1>2. f \in [1 .. Cardinality(S) -> S]
  BY DEF Listings
<1>3. f \in Seq(S) /\ Len(f) = Cardinality(S)
  BY <1>1, <1>2
<1>4. f \in Seq(Slots)
  BY <1>3, SeqMonotonic
<1>5. S # {} => Cardinality(S) # 0
  BY <1>1, FS_EmptySet
<1> QED BY <1>1, <1>3, <1>4, <1>5

LEMMA IndexListing ==
    ASSUME NEW n \in Nat, NEW I \in SUBSET (1 .. n), NEW f \in [1 .. Cardinality(I) -> I]
    PROVE  f \in Seq(I) /\ Len(f) <= n /\ DOMAIN f = 1 .. Len(f)
<1>1. IsFiniteSet(1 .. n) /\ Cardinality(1 .. n) = n
  BY FS_Interval
<1>2. IsFiniteSet(I) /\ Cardinality(I) <= Cardinality(1 .. n)
  BY <1>1, FS_Subset
<1>3. Cardinality(I) \in Nat
  BY <1>2, FS_CardinalityType
<1> QED BY <1>1, <1>2, <1>3

--------------------------------------------------------------------------------
(* What any step may do to a row, a reservation, a head and the chain. *)

\* A row stays, or is written with what its new state claims.
RowGoes(s) ==
    \/ row'[s] = row[s]
    \/ /\ row'[s].st = "dispatched" => s \in sent'
       /\ row'[s].st = "confirmed" => Passed(s)

RowsGo == row' \in [Slots -> Rows] /\ \A s \in Slots : RowGoes(s)
IntentsGo == intent' \in [Slots -> IntentStates]
HeadsGo == head' \in [Wallets -> Heads]

\* The chain executes no nonce twice, and what the node took it took.
ChainGoes ==
    /\ mempool' \in [Slots -> Txs \cup {None, Self}]
    /\ executed' \in [Wallets -> Heads]
    /\ \A w \in Wallets : executed[w] <= executed'[w]
    /\ mined' \subseteq Txs
    /\ sent \subseteq sent' /\ sent' \subseteq Slots

LEMMA UnchangedRows == ASSUME TypeOK, UNCHANGED row PROVE RowsGo
BY DEF TypeOK, RowsGo, RowGoes

LEMMA UnchangedIntents == ASSUME TypeOK, UNCHANGED intent PROVE IntentsGo
BY DEF TypeOK, IntentsGo

LEMMA UnchangedHeads == ASSUME TypeOK, UNCHANGED head PROVE HeadsGo
BY Bounds DEF TypeOK, HeadsGo, Heads

LEMMA UnchangedChain == ASSUME TypeOK, UNCHANGED chain PROVE ChainGoes
BY Bounds DEF TypeOK, ChainGoes, chain, Heads

\* An intent that changes at one slot.
LEMMA IntentSet ==
    ASSUME TypeOK, NEW s \in Slots, NEW i \in IntentStates,
           intent' = [intent EXCEPT ![s] = i]
    PROVE  IntentsGo
BY DEF TypeOK, IntentsGo

\* A listing of a sender's held transactions, and a run of them, are sequences of
\* transactions.
LEMMA HandListings ==
    \A H : Listings(H, LAMBDA t, u : t[2] < u[2]) \subseteq [1 .. Cardinality(H) -> H]
BY DEF Listings

LEMMA RunIs ==
    ASSUME NEW H \in SUBSET Txs, NEW sender, NEW run \in Runs(H, sender)
    PROVE  run \in Seq(Txs)
<1> DEFINE S == {t \in H : t[1] = sender}
<1>1. IsFiniteSet(Txs)
  BY Bounds, FS_Product DEF Txs
<1>2. S \in SUBSET Txs /\ IsFiniteSet(S) /\ Cardinality(S) \in Nat
  BY <1>1, FS_Subset, FS_CardinalityType
<1>3. Held(H, sender) \subseteq [1 .. Cardinality(S) -> S]
  BY HandListings DEF Held
<1>4. PICK held \in Held(H, sender) : \E n \in DOMAIN held : run = SubSeq(held, 1, n)
  BY DEF Runs
<1> HIDE DEF S
<1>5. PICK n \in 1 .. Cardinality(S) : run = SubSeq(held, 1, n)
  BY <1>3, <1>4
<1>6. held \in Seq(Txs) /\ Len(held) = Cardinality(S)
  BY <1>2, <1>3
<1>7. \A i \in 1 .. n : held[i] \in Txs
  BY <1>2, <1>3, <1>5
<1> QED BY <1>2, <1>5, <1>6, <1>7, SubSeqProperties

LEMMA AssignRunGoes ==
    ASSUME TypeOK, NEW run \in Seq(Txs), NEW w \in Wallets, AssignRun(run, w)
    PROVE  <<w, head[w]>> \in Slots /\ RowsGo /\ IntentsGo /\ HeadsGo
<1> DEFINE n == Len(run)
           InRun(s) == s[1] = w /\ head[w] <= s[2] /\ s[2] < head[w] + n
           x(s) == [tx |-> run[s[2] - head[w] + 1], st |-> "queued"]
<1>1. n \in Nat /\ n > 0 /\ head[w] + n \in Heads /\ head[w] \in Nat
  BY Bounds DEF TypeOK, AssignRun, Heads
<1>2. <<w, head[w]>> \in Slots
  <2>1. head[w] <= MaxNonce
    BY <1>1, Bounds DEF Heads
  <2> QED BY <2>1, HeadSlot DEF TypeOK
<1>3. HeadsGo
  <2>1. head' = [head EXCEPT ![w] = head[w] + n]
    BY DEF AssignRun
  <2> QED BY <1>1, <2>1 DEF TypeOK, HeadsGo
<1>4. IntentsGo
  BY DEF TypeOK, AssignRun, IntentsGo, IntentStates
<1>5. row' = [s \in Slots |-> IF InRun(s) THEN x(s) ELSE row[s]]
  BY DEF AssignRun
<1>6. ASSUME NEW s \in Slots PROVE row'[s] \in Rows /\ RowGoes(s)
  <2>1. CASE InRun(s)
    <3>1. s[2] \in Nat
      BY SlotParts
    <3>2. s[2] - head[w] + 1 \in 1 .. n
      BY <1>1, <2>1, <3>1
    <3>3. run[s[2] - head[w] + 1] \in Txs
      BY <3>2
    <3>4. x(s) \in Rows /\ x(s).st = "queued"
      BY <3>3 DEF Rows, RowStates
    <3>5. row'[s] = x(s)
      BY <1>5, <2>1
    <3> HIDE DEF x
    <3> QED BY <3>4, <3>5 DEF RowGoes
  <2>2. CASE ~InRun(s)
    BY <1>5, <2>2 DEF TypeOK, RowGoes
  <2> QED BY <2>1, <2>2
<1> HIDE DEF InRun, x
<1>7. row' \in [Slots -> Rows]
  BY <1>5, <1>6
<1> QED BY <1>2, <1>3, <1>4, <1>6, <1>7 DEF RowsGo

\* The row of s changes its state, and nothing else is written.
LEMMA MovedGoes ==
    ASSUME TypeOK, NEW s \in Slots, NEW st \in {"dispatched", "replaying", "confirmed", "retired"},
           row' = Moved(row, s, st),
           st = "dispatched" => row[s] = NoRow \/ s \in sent',
           st = "confirmed" => Passed(s)
    PROVE  RowsGo
<1>1. row \in [Slots -> Rows] /\ st \in RowStates
  BY DEF TypeOK, RowStates
<1>2. /\ row' \in [Slots -> Rows]
      /\ \A r \in Slots \ {s} : row'[r] = row[r]
      /\ row[s] = NoRow => row'[s] = NoRow
      /\ row[s] # NoRow => row'[s] # NoRow /\ row'[s].tx = row[s].tx /\ row'[s].st = st
  BY <1>1, MovedIs
<1>3. RowGoes(s)
  BY <1>2 DEF RowGoes
<1> QED BY <1>2, <1>3 DEF RowsGo, RowGoes

LEMMA OutcomeGoes ==
    ASSUME TypeOK, NEW s \in Slots, Outcome(row, s),
           row[s] = NoRow \/ s \in sent'
    PROVE  RowsGo /\ IntentsGo
<1>1. IntentsGo
  <2>1. intent' = [intent EXCEPT ![s] = IF Open(s) THEN "broadcasted" ELSE intent[s]]
    BY DEF Outcome
  <2>2. intent[s] \in IntentStates
    BY DEF TypeOK
  <2> QED BY <2>1, <2>2, IntentSet DEF IntentStates
<1>2. RowsGo
  BY MovedGoes, UnchangedRows DEF Outcome
<1> QED BY <1>1, <1>2

LEMMA PlaceGoes ==
    ASSUME TypeOK, NEW s \in Slots, NEW x \in Txs \cup {Self}, Place(s, x)
    PROVE  /\ ChainGoes
           /\ mempool'[s] = x
           /\ x # Self => s \in sent'
<1>1. mempool' \in [Slots -> Txs \cup {None, Self}] /\ mempool'[s] = x
  BY DEF TypeOK, Place
<1>2. sent \subseteq sent' /\ sent' \subseteq Slots
  BY DEF TypeOK, Place
<1>3. /\ executed' \in [Wallets -> Heads] /\ mined' \subseteq Txs
      /\ \A w \in Wallets : executed[w] <= executed'[w]
  BY Bounds DEF TypeOK, Place, Heads
<1> QED BY <1>1, <1>2, <1>3 DEF ChainGoes, Place

LEMMA FlushesGoes ==
    ASSUME TypeOK, NEW s \in Slots, Flushes(s)
    PROVE  ChainGoes /\ mempool'[s] = Self
BY PlaceGoes DEF Flushes

TablesGo == RowsGo /\ IntentsGo /\ HeadsGo /\ ChainGoes

LEMMA UnchangedTables == ASSUME TypeOK, UNCHANGED <<tables, chain>> PROVE TablesGo
BY UnchangedRows, UnchangedIntents, UnchangedHeads, UnchangedChain DEF TablesGo, tables

--------------------------------------------------------------------------------
(* Every action goes so. *)

LEMMA NodeGoes ==
    ASSUME TypeOK
    PROVE  /\ \A w \in Wallets : Mine(w) => TablesGo
           /\ \A s \in Slots : Evict(s) => TablesGo
<1>1. ASSUME UNCHANGED tables, ChainGoes PROVE TablesGo
  BY <1>1, UnchangedRows, UnchangedIntents, UnchangedHeads DEF TablesGo, tables
<1>2. ASSUME NEW w \in Wallets, Mine(w) PROVE TablesGo
  <2> DEFINE s == <<w, executed[w]>>
  <2>1. s \in Slots /\ executed[w] \in Nat /\ executed[w] <= MaxNonce
    BY <1>2, Bounds DEF Mine, TypeOK, Heads, Slots, Nonces
  <2>2. mempool[s] \in Txs \cup {None, Self} /\ mempool[s] # None
    BY <1>2, <2>1 DEF Mine, TypeOK
  <2>3. executed' = [executed EXCEPT ![w] = executed[w] + 1]
    BY <1>2 DEF Mine
  <2>4. executed' \in [Wallets -> Heads] /\ \A v \in Wallets : executed[v] <= executed'[v]
    BY <2>1, <2>3, Bounds DEF TypeOK, Heads
  <2>5. mined' \subseteq Txs
    BY <1>2, <2>2 DEF Mine, TypeOK
  <2>6. mempool' = [mempool EXCEPT ![s] = None]
    BY <1>2 DEF Mine
  <2>7. mempool' \in [Slots -> Txs \cup {None, Self}]
    BY <2>6 DEF TypeOK
  <2>8. ChainGoes
    BY <1>2, <2>4, <2>5, <2>7 DEF ChainGoes, TypeOK, Mine
  <2> QED BY <1>1, <1>2, <2>8 DEF Mine
<1>3. ASSUME NEW s \in Slots, Evict(s) PROVE TablesGo
  <2>1. ChainGoes
    BY <1>3, Bounds DEF ChainGoes, TypeOK, Evict, Heads
  <2> QED BY <1>1, <1>3, <2>1 DEF Evict
<1> QED BY <1>2, <1>3

LEMMA SubmitGoes ==
    ASSUME TypeOK, NEW t \in Txs, Submit(t) PROVE TablesGo
<1>1. ChainGoes
  BY UnchangedChain DEF Submit
<1>2. CASE UNCHANGED <<row, intent, head>>
  BY <1>1, <1>2, UnchangedRows, UnchangedIntents, UnchangedHeads DEF TablesGo
<1>3. ASSUME NEW w \in Wallets, NEW run \in Runs(hand \cup {t}, t[1]), AssignRun(run, w)
      PROVE  TablesGo
  <2>1. run \in Seq(Txs)
    BY RunIs DEF TypeOK
  <2> QED BY <1>1, <1>3, <2>1, AssignRunGoes DEF TablesGo
<1>4. ASSUME NEW w \in Wallets, head[w] <= MaxNonce, head' = [head EXCEPT ![w] = @ + 1],
             Assign(<<w, head[w]>>), UNCHANGED row
      PROVE  TablesGo
  <2>1. <<w, head[w]>> \in Slots
    BY <1>4, HeadSlot DEF TypeOK
  <2>2. IntentsGo
    BY <1>4, <2>1, IntentSet DEF Assign, IntentStates
  <2>3. HeadsGo
    BY <1>4, Bounds DEF TypeOK, HeadsGo, Heads
  <2> QED BY <1>1, <1>4, <2>2, <2>3, UnchangedRows DEF TablesGo
<1> QED BY <1>2, <1>3, <1>4 DEF Submit

LEMMA WorkerGoes ==
    ASSUME TypeOK, WorkerKnows, Worker PROVE TablesGo
<1> DEFINE s == worker.slot
           t == worker.tx
<1>1. s \in Slots /\ t \in Txs \cup {None}
  BY DEF TypeOK
<1>2. worker.pc # "idle" => t \in Txs
  BY DEF WorkerKnows
<1>3. worker.pc \in {"outcome", "report"} => s \in sent
  BY DEF WorkerKnows
<1>4. ASSUME WorkerBroadcasts PROVE TablesGo
  <2>1. ChainGoes
    BY <1>1, <1>2, <1>4, PlaceGoes DEF WorkerBroadcasts
  <2> QED BY <1>4, <2>1, UnchangedRows, UnchangedIntents, UnchangedHeads
          DEF WorkerBroadcasts, TablesGo, tables
<1>5. ASSUME WorkerRefused PROVE TablesGo
  <2>1. intent' = [intent EXCEPT ![s] = IF Open(s) THEN "free" ELSE intent[s]]
    BY <1>5 DEF WorkerRefused
  <2>2. intent[s] \in IntentStates
    BY <1>1 DEF TypeOK
  <2>3. IntentsGo
    BY <1>1, <2>1, <2>2, IntentSet DEF IntentStates
  <2> QED BY <1>5, <2>3, UnchangedRows, UnchangedHeads, UnchangedChain DEF WorkerRefused, TablesGo
<1>6. ASSUME WorkerTellsOutcome PROVE TablesGo
  <2>1. ChainGoes /\ HeadsGo /\ UNCHANGED sent
    BY <1>6, UnchangedChain, UnchangedHeads DEF WorkerTellsOutcome, chain
  <2>2. s \in sent'
    BY <1>3, <1>6, <2>1 DEF WorkerTellsOutcome
  <2>3. RowsGo /\ IntentsGo
    BY <1>1, <1>6, <2>2, OutcomeGoes DEF WorkerTellsOutcome
  <2> QED BY <2>1, <2>3 DEF TablesGo
<1>7. ASSUME WorkerReports PROVE TablesGo
  <2>1. ChainGoes /\ HeadsGo /\ UNCHANGED sent
    BY <1>7, UnchangedChain, UnchangedHeads DEF WorkerReports, chain
  <2>2. t \in Txs /\ s \in sent
    BY <1>2, <1>3, <1>7 DEF WorkerReports
  <2>3. IntentsGo
    <3>1. \/ intent' = [intent EXCEPT ![s] = IF intent[s] = "assigned" THEN "confirmed" ELSE intent[s]]
          \/ UNCHANGED intent
      BY <1>7 DEF WorkerReports
    <3>2. intent[s] \in IntentStates
      BY <1>1 DEF TypeOK
    <3> QED BY <1>1, <3>1, <3>2, IntentSet, UnchangedIntents DEF IntentStates
  <2>4. RowsGo
    <3> DEFINE x == [tx |-> t, st |-> "dispatched"]
    <3>1. x \in Rows /\ x.st = "dispatched"
      BY <2>2 DEF Rows, RowStates
    <3>2. row' = [row EXCEPT ![s] = x] \/ UNCHANGED row
      BY <1>7 DEF WorkerReports
    <3> HIDE DEF x
    <3>3. ASSUME row' = [row EXCEPT ![s] = x] PROVE RowsGo
      <4>1. row' \in [Slots -> Rows] /\ row'[s] = x /\ \A r \in Slots \ {s} : row'[r] = row[r]
        BY <1>1, <3>1, <3>3 DEF TypeOK
      <4> QED BY <4>1, <3>1, <2>1, <2>2 DEF RowsGo, RowGoes
    <3> QED BY <3>2, <3>3, UnchangedRows
  <2> QED BY <2>1, <2>3, <2>4 DEF TablesGo
<1> QED BY <1>4, <1>5, <1>6, <1>7 DEF Worker

LEMMA ReconcileGoes ==
    ASSUME TypeOK, NEW s \in Slots, AlarmSlot(s) PROVE TablesGo
<1>1. ASSUME Confirm(s) PROVE TablesGo
  <2>1. IntentsGo
    BY <1>1, IntentSet DEF Confirm, IntentStates
  <2>2. RowsGo
    BY <1>1, MovedGoes DEF Confirm
  <2> QED BY <1>1, <2>1, <2>2, UnchangedHeads, UnchangedChain DEF Confirm, TablesGo
<1>2. ASSUME ReplaceStuck(s) PROVE TablesGo
  <2>1. \/ Flushes(s) /\ UNCHANGED intent
        \/ intent' = [intent EXCEPT ![s] = "free"] /\ UNCHANGED chain
    BY <1>2 DEF ReplaceStuck
  <2>2. IntentsGo
    BY <2>1, IntentSet, UnchangedIntents DEF IntentStates
  <2>3. ChainGoes
    BY <2>1, FlushesGoes, UnchangedChain
  <2> QED BY <1>2, <2>2, <2>3, UnchangedHeads, UnchangedRows DEF ReplaceStuck, TablesGo
<1>3. ASSUME ExpireAssigned(s) PROVE TablesGo
  <2>1. IntentsGo
    BY <1>3, IntentSet DEF ExpireAssigned, IntentStates
  <2> QED BY <1>3, <2>1, UnchangedHeads, UnchangedRows, UnchangedChain DEF ExpireAssigned, TablesGo
<1>4. ASSUME FillGaps(s) PROVE TablesGo
  <2>1. Flushes(s) /\ (UNCHANGED intent \/ intent' = [intent EXCEPT ![s] = "confirmed"])
    BY <1>4 DEF FillGaps, FillGap
  <2>2. IntentsGo
    BY <2>1, IntentSet, UnchangedIntents DEF IntentStates
  <2> QED BY <1>4, <2>1, <2>2, FlushesGoes, UnchangedHeads, UnchangedRows DEF FillGaps, TablesGo
<1>5. ASSUME FlushStuck(s) PROVE TablesGo
  <2>1. RowsGo
    BY <1>5, MovedGoes, UnchangedRows DEF FlushStuck
  <2> QED BY <1>5, <2>1, FlushesGoes, UnchangedHeads, UnchangedIntents DEF FlushStuck, TablesGo
<1> QED BY <1>1, <1>2, <1>3, <1>4, <1>5 DEF AlarmSlot

\* The slot the alarm is at has a row.
LEMMA BroadcastSlot ==
    ASSUME TypeOK, AlarmKnows, alarm.pc = "broadcast"
    PROVE  LET s == Head(alarm.todo) IN
           /\ s \in Slots /\ s = alarm.todo[1] /\ Len(alarm.todo) \in Nat \ {0}
           /\ row[s] \in Rows /\ row[s] # NoRow /\ row[s].tx \in Txs
<1>1. alarm.todo \in Seq(Slots) /\ alarm.todo # <<>>
  BY DEF AlarmKnows
<1>2. Head(alarm.todo) = alarm.todo[1] /\ Len(alarm.todo) \in Nat \ {0} /\ Head(alarm.todo) \in Slots
  BY <1>1
<1>3. row[alarm.todo[1]] # NoRow
  BY <1>2 DEF AlarmKnows
<1> QED BY <1>2, <1>3, ProperRow DEF TypeOK

LEMMA BroadcastGoes ==
    ASSUME TypeOK, AlarmKnows, Broadcast PROVE TablesGo
<1> DEFINE s == Head(alarm.todo)
           t == row[s].tx
<1>1. s \in Slots /\ row[s] # NoRow /\ row[s] \in Rows /\ t \in Txs
  BY BroadcastSlot DEF Broadcast
<1>2. HeadsGo
  BY UnchangedHeads DEF Broadcast
<1>3. intent[s] \in IntentStates /\ row \in [Slots -> Rows]
  BY <1>1 DEF TypeOK
<1>4. ASSUME UNCHANGED <<row, intent>>, UNCHANGED chain PROVE TablesGo
  BY <1>2, <1>4, UnchangedRows, UnchangedIntents, UnchangedChain DEF TablesGo
<1>5. ASSUME Place(s, t), UNCHANGED <<row, intent>> PROVE TablesGo
  BY <1>1, <1>2, <1>5, UnchangedRows, UnchangedIntents, PlaceGoes DEF TablesGo
<1>6. ASSUME Place(s, t), Outcome(Moved(row, s, "dispatched"), s) PROVE TablesGo
  <2>1. ChainGoes /\ s \in sent'
    BY <1>1, <1>6, PlaceGoes, Bounds
  <2>2. IntentsGo
    <3>1. intent' = [intent EXCEPT ![s] = IF Open(s) THEN "broadcasted" ELSE intent[s]]
      BY <1>6 DEF Outcome
    <3> QED BY <1>1, <1>3, <3>1, IntentSet DEF IntentStates
  <2>3. RowsGo
    <3> DEFINE once == Moved(row, s, "dispatched")
    <3>1. /\ once \in [Slots -> Rows] /\ \A r \in Slots \ {s} : once[r] = row[r]
          /\ once[s] # NoRow /\ once[s].tx = t /\ once[s].st = "dispatched"
      BY <1>1, <1>3, MovedIs DEF RowStates
    <3>2. row' = once \/ row' = Moved(once, s, "dispatched")
      BY <1>6 DEF Outcome
    <3> HIDE DEF once
    <3>3. /\ row' \in [Slots -> Rows] /\ \A r \in Slots \ {s} : row'[r] = row[r]
          /\ row'[s] # NoRow /\ row'[s].tx = t /\ row'[s].st = "dispatched"
      <4>1. CASE row' = once
        BY <4>1, <3>1
      <4>2. CASE row' = Moved(once, s, "dispatched")
        BY <4>2, <3>1, <1>1, MovedIs DEF RowStates
      <4> QED BY <3>2, <4>1, <4>2
    <3>4. RowGoes(s)
      BY <1>1, <2>1, <3>3 DEF RowGoes
    <3> QED BY <3>3, <3>4 DEF RowsGo, RowGoes
  <2> QED BY <1>2, <2>1, <2>2, <2>3 DEF TablesGo
<1>7. ASSUME row' = Moved(row, s, "retired"), Release(s), UNCHANGED chain PROVE TablesGo
  <2>1. intent' = [intent EXCEPT ![s] = IF intent[s] = "assigned" THEN "free" ELSE intent[s]]
    BY <1>7 DEF Release
  <2>2. IntentsGo
    BY <1>1, <1>3, <2>1, IntentSet DEF IntentStates
  <2>3. RowsGo
    BY <1>1, <1>7, MovedGoes
  <2> QED BY <1>2, <1>7, <2>2, <2>3, UnchangedChain DEF TablesGo
<1>8. \/ UNCHANGED <<row, intent>> /\ UNCHANGED chain
      \/ Place(s, t) /\ UNCHANGED <<row, intent>>
      \/ Place(s, t) /\ Outcome(Moved(row, s, "dispatched"), s)
      \/ row' = Moved(row, s, "retired") /\ Release(s) /\ UNCHANGED chain
  BY Zenon DEF Broadcast
<1> QED BY <1>4, <1>5, <1>6, <1>7, <1>8

LEMMA ReplayGoes ==
    ASSUME TypeOK, AlarmKnows, Replay PROVE TablesGo
<1> DEFINE e == Head(alarm.todo)
<1>1. e.tx \in Txs
  <2>1. alarm.todo \in Seq(Entries) /\ alarm.todo # <<>>
    BY DEF AlarmKnows, Replay
  <2>2. e \in Entries
    BY <2>1
  <2> QED BY <2>2 DEF Entries
<1>2. HeadsGo
  BY UnchangedHeads DEF Replay
<1>3. CASE UNCHANGED <<row, intent, buffer, chain>>
  BY <1>2, <1>3, UnchangedRows, UnchangedIntents, UnchangedChain DEF TablesGo
<1>4. ASSUME NEW w \in Wallets, head[w] <= MaxNonce,
             LET s == <<w, head[w]>> IN
             \/ /\ Place(s, e.tx)
                /\ \/ /\ row' = [row EXCEPT ![s] = [tx |-> e.tx, st |-> "dispatched"]]
                      /\ intent' = [intent EXCEPT ![s] = "broadcasted"]
                   \/ Assign(s) /\ UNCHANGED row
             \/ /\ \E i \in {"assigned", "free"} : intent' = [intent EXCEPT ![s] = i]
                /\ UNCHANGED <<row, chain>>
      PROVE  TablesGo
  <2> DEFINE s == <<w, head[w]>>
             x == [tx |-> e.tx, st |-> "dispatched"]
  <2>1. s \in Slots
    BY <1>4, HeadSlot DEF TypeOK
  <2>2. x \in Rows /\ x.st = "dispatched"
    BY <1>1 DEF Rows, RowStates
  <2>3. IntentsGo
    <3>1. \E i \in {"broadcasted", "assigned", "free"} : intent' = [intent EXCEPT ![s] = i]
      BY <1>4 DEF Assign
    <3> QED BY <2>1, <3>1, IntentSet DEF IntentStates
  <2>4. ChainGoes
    BY <1>1, <1>4, <2>1, PlaceGoes, UnchangedChain
  <2> HIDE DEF x
  <2>5. RowsGo
    <3>1. CASE UNCHANGED row
      BY <3>1, UnchangedRows
    <3>2. CASE Place(s, e.tx) /\ row' = [row EXCEPT ![s] = x]
      <4>1. s \in sent'
        BY <1>1, <2>1, <3>2, PlaceGoes, Bounds
      <4>2. row' \in [Slots -> Rows] /\ row'[s] = x /\ \A r \in Slots \ {s} : row'[r] = row[r]
        BY <2>1, <2>2, <3>2 DEF TypeOK
      <4> QED BY <2>2, <4>1, <4>2 DEF RowsGo, RowGoes
    <3> QED BY <1>4, <3>1, <3>2 DEF x
  <2> QED BY <1>2, <2>3, <2>4, <2>5 DEF TablesGo
<1>5. \/ UNCHANGED <<row, intent, buffer, chain>>
      \/ \E w \in Wallets :
           /\ head[w] <= MaxNonce
           /\ LET s == <<w, head[w]>> IN
              \/ /\ Place(s, e.tx)
                 /\ \/ /\ row' = [row EXCEPT ![s] = [tx |-> e.tx, st |-> "dispatched"]]
                       /\ intent' = [intent EXCEPT ![s] = "broadcasted"]
                    \/ Assign(s) /\ UNCHANGED row
              \/ /\ \E i \in {"assigned", "free"} : intent' = [intent EXCEPT ![s] = i]
                 /\ UNCHANGED <<row, chain>>
  BY DEF Replay
<1> QED BY <1>3, <1>4, <1>5

LEMMA SweepGoes ==
    ASSUME TypeOK
    PROVE  /\ \A sender \in Senders : Sweep(sender) => TablesGo
           /\ \A t \in Txs : ExpireHeld(t) => TablesGo
<1>1. ASSUME NEW sender \in Senders, Sweep(sender) PROVE TablesGo
  <2>1. PICK w \in Wallets, run \in Runs(hand, sender) : AssignRun(run, w)
    BY <1>1 DEF Sweep
  <2>2. run \in Seq(Txs)
    BY RunIs DEF TypeOK
  <2> QED BY <1>1, <2>1, <2>2, AssignRunGoes, UnchangedChain DEF Sweep, TablesGo
<1>2. ASSUME NEW t \in Txs, ExpireHeld(t) PROVE TablesGo
  BY <1>2, UnchangedRows, UnchangedIntents, UnchangedHeads, UnchangedChain DEF ExpireHeld, TablesGo
<1> QED BY <1>1, <1>2

\* Heads that move, by reconciliation or by an admin.
LEMMA MoveGoes ==
    ASSUME TypeOK
    PROVE  /\ \A w \in Wallets : MoveHead(w) \/ Reset(w) => TablesGo
           /\ ClearPools => TablesGo
<1>1. ASSUME NEW w \in Wallets, MoveHead(w) \/ Reset(w) PROVE TablesGo
  <2>1. \E n \in Heads : head' = [head EXCEPT ![w] = n]
    <3>1. 0 .. executed[w] \subseteq Heads
      BY Bounds DEF TypeOK, Heads
    <3> QED BY <1>1, <3>1 DEF MoveHead, Reset
  <2>2. HeadsGo
    BY <2>1 DEF TypeOK, HeadsGo
  <2> QED BY <1>1, <2>2, UnchangedRows, UnchangedIntents, UnchangedChain DEF MoveHead, Reset, TablesGo
<1>2. ASSUME ClearPools PROVE TablesGo
  <2>1. IntentsGo /\ HeadsGo
    BY <1>2 DEF ClearPools, IntentsGo, IntentStates, HeadsGo
  <2> QED BY <1>2, <2>1, UnchangedRows, UnchangedChain DEF ClearPools, TablesGo
<1> QED BY <1>1, <1>2

LEMMA FlushWalletGoes ==
    ASSUME TypeOK, NEW w \in Wallets, FlushWallet(w) PROVE TablesGo
<1>1. PICK F \in SUBSET Slots :
        /\ mempool' = [s \in Slots |-> IF s \in F THEN Self ELSE mempool[s]]
        /\ row' = [s \in Slots |-> IF s \in F /\ Active(s) THEN [row[s] EXCEPT !.st = "replaying"]
                                   ELSE row[s]]
        /\ \E filled \in {F, {s \in F : row[s].st \in {"none", "retired", "confirmed"}}} :
             intent' = [s \in Slots |-> IF s \in filled THEN "confirmed" ELSE intent[s]]
  BY DEF FlushWallet
<1>2. ChainGoes
  BY <1>1, Bounds DEF FlushWallet, TypeOK, ChainGoes, Heads
<1>3. IntentsGo
  BY <1>1 DEF TypeOK, IntentsGo, IntentStates
<1>4. ASSUME NEW s \in Slots PROVE row'[s] \in Rows /\ RowGoes(s)
  <2>1. row[s] \in Rows
    BY DEF TypeOK
  <2>2. CASE s \in F /\ Active(s)
    <3>1. row[s] # NoRow
      BY <2>2 DEF Active, NoRow
    <3> DEFINE x == [row[s] EXCEPT !.st = "replaying"]
    <3>2. x \in Rows /\ x.st = "replaying"
      BY <2>1, <3>1, RowMoved DEF RowStates
    <3>3. row'[s] = x
      BY <1>1, <2>2
    <3> HIDE DEF x
    <3> QED BY <3>2, <3>3 DEF RowGoes
  <2>3. CASE ~(s \in F /\ Active(s))
    BY <1>1, <2>1, <2>3 DEF RowGoes
  <2> QED BY <2>2, <2>3
<1>5. row' = [s \in Slots |-> row'[s]]
  BY <1>1
<1>6. RowsGo
  BY <1>4, <1>5 DEF RowsGo
<1> QED BY <1>2, <1>3, <1>6, UnchangedHeads DEF FlushWallet, TablesGo

LEMMA CancelGoes ==
    ASSUME TypeOK
    PROVE  /\ \A s \in Slots : Cancel(s) => TablesGo
           /\ CancelEnds => TablesGo
<1>1. ASSUME NEW s \in Slots, row' = [row EXCEPT ![s] = NoRow] PROVE RowsGo
  <2>1. NoRow \in Rows /\ NoRow.st = "none"
    BY DEF Rows, NoRow
  <2>2. row' \in [Slots -> Rows] /\ row'[s] = NoRow /\ \A r \in Slots \ {s} : row'[r] = row[r]
    BY <1>1, <2>1 DEF TypeOK
  <2> QED BY <2>1, <2>2 DEF RowsGo, RowGoes
<1>2. ASSUME NEW s \in Slots, Cancel(s) PROVE TablesGo
  <2>1. UNCHANGED row \/ row' = [row EXCEPT ![s] = NoRow]
    BY <1>2 DEF Cancel
  <2> QED BY <1>1, <1>2, <2>1, UnchangedRows, UnchangedIntents, UnchangedHeads, UnchangedChain
          DEF Cancel, TablesGo
<1>3. ASSUME CancelEnds PROVE TablesGo
  <2>1. PICK s \in cancel : FlushFails(s) /\ row' = [row EXCEPT ![s] = NoRow]
    BY <1>3 DEF CancelEnds
  <2>2. s \in Slots
    BY DEF TypeOK
  <2>3. ChainGoes
    BY <2>1, <2>2, FlushesGoes, UnchangedChain DEF FlushFails
  <2> QED BY <1>1, <1>3, <2>1, <2>2, <2>3, UnchangedIntents, UnchangedHeads
          DEF CancelEnds, TablesGo
<1> QED BY <1>2, <1>3

\* Every step, from what is known.
LEMMA TablesGoAlways ==
    ASSUME Knowledge, [Next]_vars PROVE TablesGo
<1>1. TypeOK /\ WorkerKnows /\ AlarmKnows
  BY DEF Knowledge
<1>2. CASE UNCHANGED vars
  BY <1>1, <1>2, UnchangedTables DEF vars
<1>3. CASE Recycle \/ NextPart \/ Crash \/ WorkerSkips
  <2>1. UNCHANGED <<row, intent, head, chain>>
    BY <1>3 DEF Recycle, NextPart, Crash, WorkerSkips, tables
  <2> QED BY <1>1, <2>1, UnchangedRows, UnchangedIntents, UnchangedHeads, UnchangedChain DEF TablesGo
<1>4. ASSUME NEW t \in Txs, Submit(t) \/ ExpireHeld(t) PROVE TablesGo
  BY <1>1, <1>4, SubmitGoes, SweepGoes
<1>5. ASSUME NEW s \in Slots, AlarmSlot(s) \/ Evict(s) \/ Cancel(s) PROVE TablesGo
  BY <1>1, <1>5, ReconcileGoes, NodeGoes, CancelGoes
<1>6. ASSUME NEW w \in Wallets, Mine(w) \/ MoveHead(w) \/ FlushWallet(w) \/ Reset(w) PROVE TablesGo
  BY <1>1, <1>6, NodeGoes, FlushWalletGoes, MoveGoes
<1>7. CASE Worker \/ Broadcast \/ Replay \/ CancelEnds \/ ClearPools
  BY <1>1, <1>7, WorkerGoes, BroadcastGoes, ReplayGoes, CancelGoes, MoveGoes
<1>8. ASSUME NEW sender \in Senders, Sweep(sender) PROVE TablesGo
  BY <1>1, <1>8, SweepGoes
<1> QED BY <1>2, <1>3, <1>4, <1>5, <1>6, <1>7, <1>8 DEF Next, Ordinary, Upset

LEMMA RowsKnow ==
    ASSUME TypeOK, \A s \in Slots : RowKnows(s), TablesGo
    PROVE  \A s \in Slots : RowKnows(s)'
<1> SUFFICES ASSUME NEW s \in Slots PROVE RowKnows(s)'
  OBVIOUS
<1>1. RowKnows(s) /\ RowGoes(s) /\ sent \subseteq sent'
  BY DEF TablesGo, RowsGo, ChainGoes
<1>2. Passed(s) => Passed(s)'
  <2>1. /\ s[1] \in Wallets /\ s[2] \in Nat
        /\ executed[s[1]] \in Nat /\ executed'[s[1]] \in Nat /\ executed[s[1]] <= executed'[s[1]]
    BY SlotParts, Bounds DEF TypeOK, TablesGo, ChainGoes, Heads
  <2> QED BY <2>1 DEF Passed
<1> QED BY <1>1, <1>2 DEF RowGoes, RowKnows

--------------------------------------------------------------------------------
(* The buffer: what enters it, and how it shrinks. *)

EntersFlushed(i) == mempool'[buffer'[i].slot] # buffer'[i].tx

BufferGoes ==
    /\ buffer' \in Seq(Entries)
    /\ \A i \in DOMAIN buffer' : Len(buffer) < i => EntersFlushed(i)

LEMMA NoLonger ==
    ASSUME buffer \in Seq(Entries), buffer' \in Seq(Entries), Len(buffer') <= Len(buffer)
    PROVE  BufferGoes
<1>1. DOMAIN buffer' = 1 .. Len(buffer') /\ Len(buffer') \in Nat /\ Len(buffer) \in Nat
  OBVIOUS
<1> QED BY <1>1 DEF BufferGoes

LEMMA RemoveAtShortens ==
    ASSUME NEW seq \in Seq(Entries), NEW i \in 1 .. Len(seq)
    PROVE  RemoveAt(seq, i) \in Seq(Entries) /\ Len(RemoveAt(seq, i)) <= Len(seq)
<1> DEFINE a == SubSeq(seq, 1, i - 1)
           b == SubSeq(seq, i + 1, Len(seq))
<1>1. Len(seq) \in Nat /\ \A j \in 1 .. Len(seq) : seq[j] \in Entries
  OBVIOUS
<1>2. a \in Seq(Entries) /\ Len(a) = i - 1
  <2>1. \A j \in 1 .. i - 1 : seq[j] \in Entries
    BY <1>1
  <2> QED BY <1>1, <2>1, SubSeqProperties
<1>3. b \in Seq(Entries) /\ Len(b) = Len(seq) - i
  <2>1. \A j \in i + 1 .. Len(seq) : seq[j] \in Entries
    BY <1>1
  <2> QED BY <1>1, <2>1, SubSeqProperties
<1> HIDE DEF a, b
<1>4. a \o b \in Seq(Entries) /\ Len(a \o b) = Len(a) + Len(b)
  BY <1>2, <1>3, ConcatProperties
<1>5. RemoveAt(seq, i) = a \o b
  BY DEF RemoveAt, a, b
<1> QED BY <1>1, <1>2, <1>3, <1>4, <1>5

LEMMA DropOldestGoes ==
    ASSUME buffer \in Seq(Entries), NEW I \in SUBSET DOMAIN buffer, DropOldest(I)
    PROVE  BufferGoes
<1>1. PICK i \in I : buffer' = RemoveAt(buffer, i)
  BY DEF DropOldest
<1>2. i \in 1 .. Len(buffer)
  OBVIOUS
<1> QED BY <1>1, <1>2, RemoveAtShortens, NoLonger

LEMMA RecycleShortens ==
    ASSUME buffer \in Seq(Entries), Recycle PROVE BufferGoes
<1> DEFINE m == RecycleLimit + 1
<1>1. Len(buffer) \in Nat /\ m \in Nat /\ m > 1 /\ \A j \in m .. Len(buffer) : buffer[j] \in Entries
  BY Bounds
<1>2. buffer' = SubSeq(buffer, m, Len(buffer))
  BY DEF Recycle
<1> HIDE DEF m
<1>3. /\ SubSeq(buffer, m, Len(buffer)) \in Seq(Entries)
      /\ Len(SubSeq(buffer, m, Len(buffer))) = IF m <= Len(buffer) THEN Len(buffer) - m + 1 ELSE 0
  BY <1>1, SubSeqProperties
<1> QED BY <1>1, <1>2, <1>3, NoLonger

LEMMA IndexListings ==
    \A I : Listings(I, LAMBDA i, j : i < j) \subseteq [1 .. Cardinality(I) -> I]
BY DEF Listings

LEMMA CancelShortens ==
    ASSUME buffer \in Seq(Entries), NEW s \in Slots, Cancel(s) PROVE BufferGoes
<1>1. CASE UNCHANGED buffer
  BY <1>1, NoLonger
<1>2. CASE DropOldest(BufferOf(s))
  BY <1>2, DropOldestGoes DEF BufferOf
<1>3. CASE \E kept \in Listings(DOMAIN buffer \ BufferOf(s), LAMBDA i, j : i < j) :
             buffer' = [i \in DOMAIN kept |-> buffer[kept[i]]]
  <2> DEFINE I == DOMAIN buffer \ BufferOf(s)
  <2>1. PICK kept \in [1 .. Cardinality(I) -> I] :
               buffer' = [i \in DOMAIN kept |-> buffer[kept[i]]]
    BY <1>3, IndexListings
  <2>2. Len(buffer) \in Nat /\ DOMAIN buffer = 1 .. Len(buffer) /\ I \in SUBSET (1 .. Len(buffer))
    OBVIOUS
  <2> HIDE DEF I
  <2>3. kept \in Seq(I) /\ Len(kept) <= Len(buffer) /\ DOMAIN kept = 1 .. Len(kept)
    BY <2>2, IndexListing
  <2>4. \A i \in 1 .. Len(kept) : buffer[kept[i]] \in Entries
    <3>1. \A i \in 1 .. Len(kept) : kept[i] \in 1 .. Len(buffer)
      BY <2>1, <2>2, <2>3
    <3>2. \A j \in 1 .. Len(buffer) : buffer[j] \in Entries
      OBVIOUS
    <3> QED BY <3>1, <3>2
  <2>5. Len(kept) \in Nat
    BY <2>3
  <2>6. buffer' = [i \in 1 .. Len(kept) |-> buffer[kept[i]]]
    BY <2>1, <2>3
  <2>7. buffer' \in Seq(Entries) /\ Len(buffer') = Len(kept)
    BY <2>4, <2>5, <2>6
  <2> QED BY <2>3, <2>7, NoLonger
<1> QED BY <1>1, <1>2, <1>3 DEF Cancel

\* An entry that a flush lets in: its slot holds the wallet's own transfer now.
LEMMA FlushStuckRetracts ==
    ASSUME TypeOK, NEW s \in Slots, FlushStuck(s) PROVE BufferGoes
<1>1. mempool'[s] = Self
  BY FlushesGoes DEF FlushStuck
<1>2. row[s].tx \in Txs
  <2>1. row[s] \in Rows /\ row[s] # NoRow
    BY DEF FlushStuck, TypeOK, NoRow
  <2> QED BY <2>1, ProperRow
<1>3. CASE UNCHANGED buffer
  BY <1>3, NoLonger DEF TypeOK
<1>4. CASE buffer' = Retracted(s)
  <2> DEFINE e == [tx |-> row[s].tx, slot |-> s]
  <2>1. e \in Entries /\ e.slot = s /\ e.tx = row[s].tx
    BY <1>2 DEF Entries
  <2>2. buffer' = Append(buffer, e) /\ buffer \in Seq(Entries)
    BY <1>4 DEF Retracted, TypeOK
  <2> HIDE DEF e
  <2>3. /\ buffer' \in Seq(Entries) /\ Len(buffer') = Len(buffer) + 1 /\ Len(buffer) \in Nat
        /\ buffer'[Len(buffer) + 1] = e
    BY <2>1, <2>2, AppendProperties
  <2>4. \A i \in DOMAIN buffer' : Len(buffer) < i => i = Len(buffer) + 1
    BY <2>3
  <2>5. mempool'[e.slot] # e.tx
    BY <1>1, <1>2, <2>1, Bounds
  <2> QED BY <2>3, <2>4, <2>5 DEF BufferGoes, EntersFlushed
<1> QED BY <1>3, <1>4 DEF FlushStuck

LEMMA FlushWalletRetracts ==
    ASSUME TypeOK, NEW w \in Wallets, FlushWallet(w) PROVE BufferGoes
<1>1. PICK F \in SUBSET {s \in Slots : /\ s[1] = w /\ executed[w] <= s[2] /\ s[2] < head[w]
                                      /\ Takes(s, Self, TRUE)} :
        \E back \in Listings({s \in F : Active(s)}, Before) :
          /\ mempool' = [s \in Slots |-> IF s \in F THEN Self ELSE mempool[s]]
          /\ buffer' = buffer \o [i \in DOMAIN back |-> [tx |-> row[back[i]].tx, slot |-> back[i]]]
  BY Zenon DEF FlushWallet
<1> DEFINE A == {s \in F : Active(s)}
<1>2. PICK back \in Listings(A, Before) :
        buffer' = buffer \o [i \in DOMAIN back |-> [tx |-> row[back[i]].tx, slot |-> back[i]]]
  BY <1>1
<1>3. A \in SUBSET Slots /\ \A s \in A : mempool'[s] = Self /\ row[s].tx \in Txs
  <2>1. A \subseteq Slots /\ A \subseteq F
    OBVIOUS
  <2>2. ASSUME NEW s \in A PROVE row[s].tx \in Txs
    <3>1. Active(s) /\ s \in Slots
      BY <2>1
    <3>2. row[s] \in Rows /\ row[s] # NoRow
      BY <3>1 DEF Active, TypeOK, NoRow
    <3> QED BY <3>2, ProperRow
  <2> QED BY <1>1, <2>1, <2>2
<1> HIDE DEF A
<1>4. /\ back \in Seq(A) /\ DOMAIN back = 1 .. Len(back) /\ Len(back) \in Nat
      /\ \A i \in 1 .. Len(back) : back[i] \in A
  <2>1. back \in Seq(A)
    BY <1>2, <1>3, SlotListing
  <2> QED BY <2>1
<1> DEFINE added == [i \in 1 .. Len(back) |-> [tx |-> row[back[i]].tx, slot |-> back[i]]]
<1>5. \A i \in 1 .. Len(back) :
        LET e == [tx |-> row[back[i]].tx, slot |-> back[i]] IN
        e \in Entries /\ mempool'[e.slot] # e.tx
  BY <1>3, <1>4, Bounds DEF Entries
<1>6. /\ added \in Seq(Entries) /\ Len(added) = Len(back)
      /\ \A i \in 1 .. Len(back) : mempool'[added[i].slot] # added[i].tx
  BY <1>4, <1>5
<1>7. buffer' = buffer \o added /\ buffer \in Seq(Entries)
  BY <1>2, <1>4 DEF TypeOK
<1> HIDE DEF added
<1>8. /\ buffer' \in Seq(Entries) /\ Len(buffer') = Len(buffer) + Len(back) /\ Len(buffer) \in Nat
      /\ \A i \in 1 .. Len(buffer) + Len(back) : Len(buffer) < i => buffer'[i] = added[i - Len(buffer)]
  <2> DEFINE n == Len(buffer)
  <2>1. /\ buffer' \in Seq(Entries) /\ Len(buffer') = n + Len(added)
        /\ \A i \in 1 .. n + Len(added) : buffer'[i] = IF i <= n THEN buffer[i] ELSE added[i - n]
    <3>1. /\ buffer \o added \in Seq(Entries) /\ Len(buffer \o added) = Len(buffer) + Len(added)
          /\ \A i \in 1 .. Len(buffer) + Len(added) :
               (buffer \o added)[i] = IF i <= Len(buffer) THEN buffer[i] ELSE added[i - Len(buffer)]
      BY <1>6, <1>7, ConcatProperties, Zenon
    <3> QED BY <1>7, <3>1, Zenon
  <2>2. n \in Nat
    BY <1>7
  <2> HIDE DEF n
  <2>3. \A i \in 1 .. n + Len(back) : n < i => buffer'[i] = added[i - n]
    BY <1>4, <1>6, <2>1, <2>2
  <2> QED BY <1>6, <2>1, <2>2, <2>3 DEF n
<1>9. ASSUME NEW i \in DOMAIN buffer', Len(buffer) < i PROVE EntersFlushed(i)
  <2>1. i \in 1 .. Len(buffer) + Len(back) /\ i - Len(buffer) \in 1 .. Len(back)
    BY <1>4, <1>8, <1>9
  <2>2. buffer'[i] = added[i - Len(buffer)]
    BY <1>8, <1>9, <2>1
  <2> QED BY <1>6, <2>1, <2>2 DEF EntersFlushed
<1> QED BY <1>8, <1>9 DEF BufferGoes

LEMMA BufferGoesAlways ==
    ASSUME Knowledge, [Next]_vars PROVE BufferGoes
<1>1. TypeOK /\ buffer \in Seq(Entries)
  BY DEF Knowledge, TypeOK
<1>2. CASE UNCHANGED buffer
  BY <1>1, <1>2, NoLonger
<1>3. CASE Recycle
  BY <1>1, <1>3, RecycleShortens
<1>4. CASE Replay
  <2>1. UNCHANGED buffer \/ \E e : DropOldest({i \in DOMAIN buffer : buffer[i] = e})
    BY <1>4 DEF Replay
  <2> QED BY <1>1, <1>2, <2>1, DropOldestGoes
<1>5. ASSUME NEW s \in Slots, FlushStuck(s) \/ Cancel(s) PROVE BufferGoes
  BY <1>1, <1>5, FlushStuckRetracts, CancelShortens
<1>6. ASSUME NEW w \in Wallets, FlushWallet(w) PROVE BufferGoes
  BY <1>1, <1>6, FlushWalletRetracts
<1>7. ASSUME \/ \E t \in Txs : Submit(t) \/ ExpireHeld(t)
             \/ \E sender \in Senders : Sweep(sender)
      PROVE  UNCHANGED buffer
  BY <1>7 DEF Submit, Sweep, ExpireHeld
<1>8. ASSUME NEW s \in Slots, AlarmSlot(s) \/ Evict(s) PROVE UNCHANGED buffer \/ FlushStuck(s)
  BY <1>8 DEF AlarmSlot, Confirm, ReplaceStuck, ExpireAssigned, FillGaps, Evict, tables
<1>9. ASSUME NEW w \in Wallets, Mine(w) \/ MoveHead(w) \/ Reset(w) PROVE UNCHANGED buffer
  BY <1>9 DEF Mine, MoveHead, Reset, tables
<1>10. CASE Worker
  BY <1>2, <1>10 DEF Worker, WorkerBroadcasts, WorkerRefused, WorkerTellsOutcome, WorkerReports, tables
<1>11. CASE \/ NextPart \/ Broadcast \/ CancelEnds \/ ClearPools \/ WorkerSkips \/ Crash
            \/ UNCHANGED vars
  BY <1>2, <1>11 DEF NextPart, Broadcast, CancelEnds, ClearPools, WorkerSkips, Crash, tables, vars
<1> QED BY <1>2, <1>3, <1>4, <1>5, <1>6, <1>7, <1>8, <1>9, <1>10, <1>11 DEF Next, Ordinary, Upset

--------------------------------------------------------------------------------
(* What the alarm has left to do is there to be done. *)

Alarms == [pc : {"idle", "reconcile", "sweep", "broadcast", "replay"},
           todo : Seq(Slots) \cup Seq(Entries), skip : SUBSET Wallets]

\* AlarmKnows after a step that leaves the alarm at a.
AlarmThen(a) ==
    /\ a \in Alarms
    /\ a.pc = "broadcast" =>
         /\ a.todo \in Seq(Slots) \ {<<>>}
         /\ \A i \in 1 .. Len(a.todo) : row'[a.todo[i]] # NoRow
    /\ a.pc = "replay" => a.todo \in Seq(Entries) \ {<<>>}

LEMMA ThenKnows == ASSUME AlarmThen(alarm') PROVE AlarmKnows'
BY DEF AlarmThen, AlarmKnows, Alarms

LEMMA QuietThen ==
    ASSUME NEW p \in {"idle", "reconcile", "sweep"} PROVE AlarmThen(At(p, <<>>))
<1> DEFINE a == At(p, <<>>)
<1>1. a = [pc |-> p, todo |-> <<>>, skip |-> {}]
  BY DEF At
<1>2. <<>> \in Seq(Slots)
  OBVIOUS
<1> HIDE DEF a
<1>3. a \in Alarms /\ a.pc = p
  BY <1>1, <1>2 DEF Alarms
<1> QED BY <1>3 DEF AlarmThen, a

LEMMA IdleIsAlarm == Idle \in Alarms
<1>1. <<>> \in Seq(Slots)
  OBVIOUS
<1> QED BY <1>1 DEF At, Idle, Alarms

LEMMA IdleThen == AlarmThen(Idle)
BY QuietThen DEF Idle

LEMMA BatchIs ==
    ASSUME NEW S, NEW seq \in Seq(S), NEW limit \in Nat
    PROVE  /\ Batch(seq, limit) \in Seq(S)
           /\ \A i \in 1 .. Len(Batch(seq, limit)) : i \in 1 .. Len(seq) /\ Batch(seq, limit)[i] = seq[i]
           /\ seq # <<>> /\ limit > 0 => Batch(seq, limit) # <<>>
<1> DEFINE n == IF limit < Len(seq) THEN limit ELSE Len(seq)
           b == SubSeq(seq, 1, n)
<1>1. n \in Nat /\ n <= Len(seq) /\ Len(seq) \in Nat
  OBVIOUS
<1>2. \A i \in 1 .. n : seq[i] \in S
  BY <1>1
<1> HIDE DEF n
<1>3. /\ b \in Seq(S) /\ Len(b) = IF 1 <= n THEN n - 1 + 1 ELSE 0
      /\ \A i \in 1 .. n - 1 + 1 : b[i] = seq[1 + i - 1]
  BY <1>1, <1>2, SubSeqProperties
<1> HIDE DEF b
<1>4. Len(b) = n
  BY <1>1, <1>3
<1>5. \A i \in 1 .. n : i \in 1 .. Len(seq) /\ b[i] = seq[i]
  BY <1>1, <1>3
<1>6. seq # <<>> /\ limit > 0 => n > 0
  BY DEF n
<1>7. Batch(seq, limit) = b
  BY DEF Batch, b, n
<1>8. n > 0 => b # <<>>
  BY <1>3, <1>4
<1> QED BY <1>3, <1>4, <1>5, <1>6, <1>7, <1>8

LEMMA ReplayThen == ASSUME buffer \in Seq(Entries) PROVE AlarmThen(StartReplay)
<1> DEFINE b == Batch(buffer, ReplayLimit)
           a == At("replay", b)
<1>1. b \in Seq(Entries)
  BY BatchIs, Bounds
<1> HIDE DEF b
<1>2. a.pc = "replay" /\ a.todo = b
  BY DEF At
<1>3. a \in Alarms
  BY <1>1 DEF At, Alarms
<1> HIDE DEF a
<1>4. CASE b = <<>>
  BY <1>4, IdleThen DEF StartReplay, b
<1>5. CASE b # <<>>
  <2>1. AlarmThen(a)
    BY <1>1, <1>2, <1>3, <1>5 DEF AlarmThen
  <2> QED BY <1>5, <2>1 DEF StartReplay, a, b
<1> QED BY <1>4, <1>5

\* The rows a tick takes are there.
LEMMA BroadcastThen ==
    ASSUME TypeOK, UNCHANGED row, StartBroadcast
    PROVE  AlarmThen(alarm')
<1>1. CASE alarm' = StartReplay
  BY <1>1, ReplayThen DEF TypeOK
<1>2. ASSUME QueuedRows # {}, NEW queue \in Listings(QueuedRows, Before),
             alarm' = At("broadcast", Batch(queue, BroadcastLimit))
      PROVE  AlarmThen(alarm')
  <2> DEFINE b == Batch(queue, BroadcastLimit)
             a == At("broadcast", b)
  <2>1. QueuedRows \in SUBSET Slots /\ \A s \in QueuedRows : s \in Slots /\ row[s].st = "queued"
    BY DEF QueuedRows
  <2>2. queue \in Seq(QueuedRows) /\ queue # <<>>
    BY <1>2, <2>1, SlotListing
  <2>3. /\ b \in Seq(QueuedRows) /\ b # <<>>
        /\ \A i \in 1 .. Len(b) : b[i] \in QueuedRows
    <3>1. b \in Seq(QueuedRows) /\ b # <<>>
      BY <2>2, BatchIs, Bounds
    <3> HIDE DEF b
    <3> QED BY <3>1
  <2>4. b \in Seq(Slots)
    BY <2>1, <2>3, SeqMonotonic
  <2>5. \A i \in 1 .. Len(b) : row'[b[i]] # NoRow
    <3>1. ASSUME NEW s \in QueuedRows PROVE row'[s] # NoRow
      BY <2>1, <3>1 DEF NoRow
    <3> HIDE DEF b
    <3> QED BY <2>3, <3>1
  <2> HIDE DEF b
  <2>6. a.pc = "broadcast" /\ a.todo = b
    BY DEF At
  <2>7. a \in Alarms
    BY <2>4 DEF At, Alarms
  <2>8. alarm' = a
    BY <1>2 DEF b
  <2> HIDE DEF a
  <2> QED BY <2>3, <2>4, <2>5, <2>6, <2>7, <2>8 DEF AlarmThen
<1> QED BY <1>1, <1>2 DEF StartBroadcast

\* After an entry: the rest of the list, the replay, or nothing.
LEMMA TailThen ==
    ASSUME AlarmKnows, alarm.pc \in {"broadcast", "replay"}, buffer \in Seq(Entries),
           NEW skip \in SUBSET Wallets, AlarmTail(skip),
           alarm.pc = "broadcast" =>
             \A s \in Slots : row[s] # NoRow => row'[s] # NoRow
    PROVE  AlarmThen(alarm')
<1> DEFINE todo == alarm.todo
           a == [pc |-> alarm.pc, todo |-> Tail(todo), skip |-> alarm.skip \cup skip]
<1>1. alarm \in Alarms
  BY DEF AlarmKnows, Alarms
<1>2. CASE Len(todo) > 1
  <2>1. alarm' = a
    BY <1>2 DEF AlarmTail
  <2>2. alarm.skip \cup skip \in SUBSET Wallets
    BY <1>1 DEF Alarms
  <2>3. CASE alarm.pc = "broadcast"
    <3>1. todo \in Seq(Slots) /\ todo # <<>>
      BY <2>3 DEF AlarmKnows
    <3>2. \A i \in 1 .. Len(todo) : todo[i] \in Slots /\ row[todo[i]] # NoRow
      BY <2>3, <3>1 DEF AlarmKnows
    <3> DEFINE rest == Tail(todo)
    <3>3. /\ rest \in Seq(Slots) /\ Len(rest) = Len(todo) - 1 /\ Len(todo) \in Nat
          /\ \A i \in 1 .. Len(rest) : rest[i] = todo[i + 1]
      BY <3>1, HeadTailProperties
    <3>4. a.pc = "broadcast" /\ a.todo = rest /\ a \in Alarms
      BY <1>1, <2>2, <2>3, <3>3 DEF Alarms
    <3> HIDE DEF todo, rest, a
    <3>5. rest # <<>>
      BY <1>2, <3>3
    <3>6. ASSUME NEW i \in 1 .. Len(rest)
          PROVE  row'[rest[i]] # NoRow
      <4>1. i + 1 \in 1 .. Len(todo) /\ rest[i] = todo[i + 1]
        BY <3>3
      <4>2. rest[i] \in Slots /\ row[rest[i]] # NoRow
        BY <3>2, <4>1
      <4> QED BY <2>3, <4>2
    <3> QED BY <2>1, <3>3, <3>4, <3>5, <3>6 DEF AlarmThen
  <2>4. CASE alarm.pc = "replay"
    <3>1. todo \in Seq(Entries) /\ todo # <<>>
      BY <2>4 DEF AlarmKnows
    <3> DEFINE rest == Tail(todo)
    <3>2. rest \in Seq(Entries) /\ Len(rest) = Len(todo) - 1 /\ Len(todo) \in Nat
      BY <3>1, HeadTailProperties
    <3>3. a.pc = "replay" /\ a.todo = rest /\ a \in Alarms
      BY <1>1, <2>2, <2>4, <3>2 DEF Alarms
    <3> HIDE DEF todo, rest, a
    <3>4. rest # <<>>
      BY <1>2, <3>2
    <3> QED BY <2>1, <3>2, <3>3, <3>4 DEF AlarmThen
  <2> QED BY <2>3, <2>4
<1>3. CASE Len(todo) <= 1
  <2>1. alarm' \in {StartReplay, Idle}
    BY <1>3 DEF AlarmTail
  <2> QED BY <2>1, ReplayThen, IdleThen
<1> QED BY <1>2, <1>3

\* While the alarm broadcasts, nothing else of the object writes.
LEMMA AlarmAlone ==
    ASSUME Knowledge, alarm.pc = "broadcast", [Next]_vars
    PROVE  \/ Broadcast
           \/ UNCHANGED <<row, alarm>>
           \/ alarm' = Idle
<1>1. ~Unlocked /\ ~Reconciling
  BY DEF Unlocked, Reconciling
<1>2. /\ \A t \in Txs : ~Submit(t) /\ ~ExpireHeld(t)
      /\ \A sender \in Senders : ~Sweep(sender)
      /\ ~ClearPools
  BY <1>1 DEF Submit, ExpireHeld, Sweep, ClearPools
<1>3. ASSUME NEW s \in Slots, AlarmSlot(s) \/ Evict(s) \/ Cancel(s) PROVE UNCHANGED <<row, alarm>>
  BY <1>1, <1>3 DEF AlarmSlot, Confirm, ReplaceStuck, ExpireAssigned, FillGaps, FlushStuck,
                    Evict, Cancel, tables
<1>4. ASSUME NEW w \in Wallets, Mine(w) \/ MoveHead(w) \/ FlushWallet(w) \/ Reset(w)
      PROVE  UNCHANGED <<row, alarm>>
  BY <1>1, <1>4 DEF Mine, MoveHead, FlushWallet, Reset, tables
<1>5. CASE Worker
  BY <1>1, <1>5 DEF Worker, WorkerBroadcasts, WorkerRefused, WorkerTellsOutcome, WorkerReports, tables
<1>6. CASE \/ Recycle \/ NextPart \/ Broadcast \/ Replay \/ CancelEnds \/ WorkerSkips \/ Crash
           \/ UNCHANGED vars
  BY <1>1, <1>6 DEF Recycle, NextPart, Replay, CancelEnds, WorkerSkips, Crash, tables, vars
<1> QED BY <1>2, <1>3, <1>4, <1>5, <1>6 DEF Next, Ordinary, Upset

LEMMA BroadcastThenTail ==
    ASSUME Knowledge, TablesGo, Broadcast PROVE AlarmThen(alarm')
<1> DEFINE s == Head(alarm.todo)
<1>1. TypeOK /\ AlarmKnows /\ alarm.pc = "broadcast" /\ buffer \in Seq(Entries) /\ row \in [Slots -> Rows]
  BY DEF Knowledge, Broadcast, TypeOK
<1>2. s \in Slots
  BY <1>1, BroadcastSlot
<1>3. PICK skip \in SUBSET Wallets : AlarmTail(skip)
  <2>1. AlarmTail({}) \/ AlarmTail({s[1]})
    BY DEF Broadcast
  <2>2. {s[1]} \in SUBSET Wallets /\ {} \in SUBSET Wallets
    BY <1>2, SlotParts
  <2> QED BY <2>1, <2>2
<1>4. ASSUME NEW r \in Slots, row[r] # NoRow PROVE row'[r] # NoRow
  <2> DEFINE once == Moved(row, s, "dispatched")
  <2>1. once \in [Slots -> Rows] /\ once[r] # NoRow
    BY <1>1, <1>2, <1>4, MovedKeeps DEF RowStates
  <2> HIDE DEF once
  <2>2. \/ row' \in {row, once}
        \/ row' = Moved(once, s, "dispatched")
        \/ row' = Moved(row, s, "retired")
    BY Zenon DEF Broadcast, Outcome, once
  <2>3. Moved(once, s, "dispatched")[r] # NoRow
    BY <1>2, <2>1, MovedKeeps DEF RowStates
  <2>4. Moved(row, s, "retired")[r] # NoRow
    BY <1>1, <1>2, <1>4, MovedKeeps DEF RowStates
  <2> QED BY <1>4, <2>1, <2>2, <2>3, <2>4
<1> QED BY <1>1, <1>3, <1>4, TailThen

LEMMA AlarmKnowsAlways ==
    ASSUME Knowledge, [Next]_vars, TablesGo PROVE AlarmKnows'
<1>1. TypeOK /\ AlarmKnows /\ buffer \in Seq(Entries)
  BY DEF Knowledge, TypeOK
<1>2. CASE alarm' = Idle
  BY <1>2, IdleThen, ThenKnows
<1>3. CASE Recycle
  BY <1>3, QuietThen, ThenKnows DEF Recycle
<1>4. CASE NextPart
  <2>1. CASE alarm' = At("sweep", <<>>)
    BY <2>1, QuietThen, ThenKnows
  <2>2. CASE StartBroadcast
    BY <1>1, <1>4, <2>2, BroadcastThen, ThenKnows DEF NextPart, tables
  <2> QED BY <1>4, <2>1, <2>2 DEF NextPart
<1>5. CASE Broadcast
  BY <1>5, BroadcastThenTail, ThenKnows
<1>6. CASE Replay
  <2>1. AlarmTail({}) /\ alarm.pc = "replay"
    BY <1>6 DEF Replay
  <2>2. AlarmThen(alarm')
    BY <1>1, <2>1, TailThen
  <2> QED BY <2>2, ThenKnows
<1>7. CASE UNCHANGED alarm /\ (alarm.pc = "broadcast" => UNCHANGED row)
  <2>1. alarm \in Alarms
    BY <1>1 DEF AlarmKnows, Alarms
  <2>2. ASSUME alarm.pc = "broadcast", NEW i \in 1 .. Len(alarm.todo)
        PROVE  row'[alarm.todo[i]] # NoRow
    BY <1>1, <1>7, <2>2 DEF AlarmKnows
  <2>3. alarm.pc = "broadcast" => alarm.todo \in Seq(Slots) \ {<<>>}
    BY <1>1 DEF AlarmKnows
  <2>4. AlarmThen(alarm)
    BY <1>1, <2>1, <2>2, <2>3 DEF AlarmThen, AlarmKnows
  <2> QED BY <1>7, <2>4, ThenKnows
<1>8. UNCHANGED alarm \/ alarm' = Idle \/ Recycle \/ NextPart \/ Broadcast \/ Replay
  <2>1. ASSUME \/ \E t \in Txs : Submit(t) \/ ExpireHeld(t)
               \/ \E sender \in Senders : Sweep(sender)
        PROVE  UNCHANGED alarm
    BY <2>1 DEF Submit, ExpireHeld, Sweep, AlarmOnly
  <2>2. ASSUME NEW s \in Slots, AlarmSlot(s) \/ Evict(s) \/ Cancel(s) PROVE UNCHANGED alarm
    BY <2>2 DEF AlarmSlot, Confirm, ReplaceStuck, ExpireAssigned, FillGaps, FlushStuck,
                Evict, Cancel, AlarmOnly
  <2>3. ASSUME NEW w \in Wallets, Mine(w) \/ MoveHead(w) \/ FlushWallet(w) \/ Reset(w)
        PROVE  UNCHANGED alarm
    BY <2>3 DEF Mine, MoveHead, FlushWallet, Reset, AlarmOnly
  <2>4. CASE Worker
    BY <2>4 DEF Worker, WorkerBroadcasts, WorkerRefused, WorkerTellsOutcome, WorkerReports
  <2>5. CASE WorkerSkips \/ Crash \/ CancelEnds \/ ClearPools \/ UNCHANGED vars
    BY <2>5 DEF WorkerSkips, Crash, CancelEnds, ClearPools, vars
  <2> QED BY <2>1, <2>2, <2>3, <2>4, <2>5 DEF Next, Ordinary, Upset
<1> QED BY <1>2, <1>3, <1>4, <1>5, <1>6, <1>7, <1>8, AlarmAlone

--------------------------------------------------------------------------------
(* The Worker's next report is about a nonce the node has taken. *)

Workers == [pc : {"idle", "sign", "outcome", "report"}, tx : Txs \cup {None}, slot : Slots]

\* WorkerKnows after a step that leaves the Worker at w.
WorkerThen(w) ==
    /\ w \in Workers
    /\ w.pc # "idle" => w.tx \in Txs
    /\ w.pc \in {"outcome", "report"} => w.slot \in sent'

LEMMA ThenWorkerKnows == ASSUME WorkerThen(worker') PROVE WorkerKnows'
BY DEF WorkerThen, WorkerKnows, Workers

LEMMA NoWorkThen == WorkerThen(NoWork)
<1>1. <<0, 0>> \in Slots
  BY Bounds DEF Slots, Wallets, Nonces
<1> QED BY <1>1 DEF NoWork, WorkerThen, Workers

\* A Worker under way.
LEMMA WorkerOn ==
    ASSUME TypeOK, WorkerKnows, worker.pc # "idle",
           NEW pc \in {"sign", "outcome", "report"}, pc = "sign" \/ worker.slot \in sent',
           worker' = [pc |-> pc, tx |-> worker.tx, slot |-> worker.slot]
    PROVE  WorkerThen(worker')
<1>1. worker.slot \in Slots /\ worker.tx \in Txs
  BY DEF TypeOK, WorkerKnows
<1>2. worker'.pc = pc /\ worker'.tx = worker.tx /\ worker'.slot = worker.slot
  OBVIOUS
<1>3. worker' \in Workers
  BY <1>1 DEF Workers
<1> QED BY <1>1, <1>2, <1>3 DEF WorkerThen

\* It begins with a nonce at the head, of its own transaction's row or of another's.
LEMMA SubmitThen ==
    ASSUME TypeOK, NEW t \in Txs, Submit(t)
    PROVE  UNCHANGED worker \/ WorkerThen(worker')
<1>1. ASSUME NEW s \in Slots, Working("sign", t, s) PROVE WorkerThen(worker')
  <2>1. worker' = [pc |-> "sign", tx |-> t, slot |-> s]
    BY <1>1 DEF Working
  <2>2. worker'.pc = "sign" /\ worker'.tx = t /\ worker' \in Workers
    BY <2>1 DEF Workers
  <2> QED BY <2>2 DEF WorkerThen
<1>2. ASSUME NEW w \in Wallets, NEW run \in Runs(hand \cup {t}, t[1]), AssignRun(run, w),
             Working("sign", t, <<w, head[w]>>)
      PROVE  WorkerThen(worker')
  <2>1. run \in Seq(Txs)
    BY RunIs DEF TypeOK
  <2>2. <<w, head[w]>> \in Slots
    BY <1>2, <2>1, AssignRunGoes
  <2> QED BY <1>1, <1>2, <2>2
<1>3. ASSUME NEW w \in Wallets, head[w] <= MaxNonce, Working("sign", t, <<w, head[w]>>)
      PROVE  WorkerThen(worker')
  <2>1. <<w, head[w]>> \in Slots
    BY <1>3, HeadSlot DEF TypeOK
  <2> QED BY <1>1, <1>3, <2>1
<1> QED BY <1>2, <1>3 DEF Submit

LEMMA WorkerKnowsAlways ==
    ASSUME Knowledge, [Next]_vars, TablesGo PROVE WorkerKnows'
<1>1. TypeOK /\ WorkerKnows /\ sent \subseteq sent' /\ worker \in Workers
  BY DEF Knowledge, TablesGo, ChainGoes, WorkerKnows, Workers
<1>2. worker = [pc |-> worker.pc, tx |-> worker.tx, slot |-> worker.slot]
  BY <1>1 DEF Workers
<1>3. CASE UNCHANGED worker
  <2>1. CASE worker.pc = "idle"
    BY <1>1, <1>3, <2>1, ThenWorkerKnows DEF WorkerThen
  <2>2. CASE worker.pc # "idle"
    <3>1. worker.pc \in {"sign", "outcome", "report"}
      BY <1>1, <2>2 DEF Workers
    <3>2. worker.pc = "sign" \/ worker.slot \in sent'
      BY <1>1, <3>1 DEF WorkerKnows
    <3> QED BY <1>1, <1>2, <1>3, <2>2, <3>1, <3>2, WorkerOn, ThenWorkerKnows
  <2> QED BY <2>1, <2>2
<1>4. CASE worker' = NoWork
  BY <1>4, NoWorkThen, ThenWorkerKnows
<1>5. ASSUME NEW t \in Txs, Submit(t) PROVE UNCHANGED worker \/ WorkerKnows'
  BY <1>1, <1>5, SubmitThen, ThenWorkerKnows
<1>6. CASE WorkerBroadcasts
  <2>1. worker.pc = "sign" /\ worker.tx \in Txs /\ worker.slot \in Slots
    BY <1>1, <1>6 DEF WorkerBroadcasts, WorkerKnows, TypeOK
  <2>2. worker.slot \in sent'
    BY <1>1, <1>6, <2>1, PlaceGoes, Bounds DEF WorkerBroadcasts
  <2> QED BY <1>1, <1>6, <2>1, <2>2, WorkerOn, ThenWorkerKnows DEF WorkerBroadcasts, Working
<1>7. CASE WorkerTellsOutcome \/ WorkerSkips
  <2>1. \/ worker' = NoWork
        \/ /\ worker.pc = "outcome"
           /\ worker' = [pc |-> "report", tx |-> worker.tx, slot |-> worker.slot]
    BY <1>7 DEF WorkerTellsOutcome, WorkerSkips, Working
  <2>2. worker.pc = "outcome" => worker.slot \in sent'
    BY <1>1 DEF WorkerKnows
  <2> QED BY <1>1, <1>4, <2>1, <2>2, WorkerOn, ThenWorkerKnows
<1>8. CASE WorkerRefused \/ WorkerReports
  BY <1>4, <1>8 DEF WorkerRefused, WorkerReports
<1>9. \/ UNCHANGED worker \/ Worker \/ WorkerSkips
      \/ \E t \in Txs : Submit(t)
  <2>1. ASSUME NEW s \in Slots, AlarmSlot(s) \/ Evict(s) \/ Cancel(s) PROVE UNCHANGED worker
    BY <2>1 DEF AlarmSlot, Confirm, ReplaceStuck, ExpireAssigned, FillGaps, FlushStuck,
                Evict, Cancel, AlarmOnly
  <2>2. ASSUME NEW w \in Wallets, Mine(w) \/ MoveHead(w) \/ FlushWallet(w) \/ Reset(w)
        PROVE  UNCHANGED worker
    BY <2>2 DEF Mine, MoveHead, FlushWallet, Reset, AlarmOnly
  <2>3. ASSUME \/ \E t \in Txs : ExpireHeld(t)
               \/ \E sender \in Senders : Sweep(sender)
        PROVE  UNCHANGED worker
    BY <2>3 DEF ExpireHeld, Sweep, AlarmOnly
  <2>4. CASE \/ Recycle \/ NextPart \/ Broadcast \/ Replay \/ Crash \/ CancelEnds \/ ClearPools
             \/ UNCHANGED vars
    BY <2>4 DEF Recycle, NextPart, Broadcast, Replay, Crash, CancelEnds, ClearPools, vars
  <2> QED BY <2>1, <2>2, <2>3, <2>4 DEF Next, Ordinary, Upset
<1> QED BY <1>3, <1>5, <1>6, <1>7, <1>8, <1>9 DEF Worker

--------------------------------------------------------------------------------
(* The rest of the types. *)

RestTyped == hand \subseteq Txs /\ cancel \subseteq Slots /\ upsets \in 0 .. MaxUpsets

LEMMA RecycledTyped ==
    ASSUME TypeOK, Recycle PROVE hand' \subseteq Txs
<1>1. hand' = hand \cup {buffer[i].tx : i \in DOMAIN Batch(buffer, RecycleLimit)}
  BY DEF Recycle
<1>2. buffer \in Seq(Entries) /\ hand \subseteq Txs
  BY DEF TypeOK
<1> DEFINE b == Batch(buffer, RecycleLimit)
<1>3. b \in Seq(Entries) /\ \A i \in 1 .. Len(b) : i \in 1 .. Len(buffer)
  BY <1>2, BatchIs, Bounds
<1> HIDE DEF b
<1>4. \A i \in DOMAIN b : buffer[i] \in Entries
  BY <1>2, <1>3
<1>5. \A i \in DOMAIN b : buffer[i].tx \in Txs
  BY <1>4 DEF Entries
<1> QED BY <1>1, <1>2, <1>5 DEF b

LEMMA RestTypedAlways ==
    ASSUME TypeOK, [Next]_vars PROVE RestTyped'
<1>1. hand \subseteq Txs /\ cancel \subseteq Slots /\ upsets \in 0 .. MaxUpsets
  BY DEF TypeOK
<1> DEFINE Typed == hand' \subseteq Txs /\ cancel' \subseteq Slots
<1>2. ASSUME NEW t \in Txs, Submit(t) \/ ExpireHeld(t) PROVE Typed
  <2>1. hand' \subseteq hand \cup {t} /\ UNCHANGED cancel
    BY <1>2 DEF Submit, ExpireHeld, AlarmOnly
  <2> QED BY <1>1, <2>1
<1>3. ASSUME NEW sender \in Senders, Sweep(sender) PROVE Typed
  <2>1. hand' \subseteq hand /\ UNCHANGED cancel
    BY <1>3 DEF Sweep, AlarmOnly
  <2> QED BY <1>1, <2>1
<1>4. ASSUME NEW s \in Slots, AlarmSlot(s) \/ Evict(s) PROVE Typed
  BY <1>1, <1>4 DEF AlarmSlot, Confirm, ReplaceStuck, ExpireAssigned, FillGaps, FlushStuck,
                    Evict, AlarmOnly, tables
<1>5. ASSUME NEW s \in Slots, Cancel(s) PROVE Typed
  <2>1. UNCHANGED hand /\ (UNCHANGED cancel \/ cancel' = {s})
    BY <1>5 DEF Cancel
  <2> QED BY <1>1, <2>1
<1>6. ASSUME NEW w \in Wallets, Mine(w) \/ MoveHead(w) \/ FlushWallet(w) \/ Reset(w) PROVE Typed
  BY <1>1, <1>6 DEF Mine, MoveHead, FlushWallet, Reset, AlarmOnly, tables
<1>7. ASSUME Worker PROVE Typed
  BY <1>1, <1>7 DEF Worker, WorkerBroadcasts, WorkerRefused, WorkerTellsOutcome, WorkerReports, tables
<1>8. ASSUME Recycle PROVE Typed
  BY <1>1, <1>8, RecycledTyped DEF Recycle
<1>9. ASSUME \/ NextPart \/ Broadcast \/ Replay \/ CancelEnds \/ ClearPools \/ WorkerSkips \/ Crash
             \/ UNCHANGED vars
      PROVE  Typed
  BY <1>1, <1>9 DEF NextPart, Broadcast, Replay, CancelEnds, ClearPools, WorkerSkips, Crash,
                    NoCancel, tables, vars
<1>10. Typed
  <2> HIDE DEF Typed
  <2> QED BY <1>2, <1>3, <1>4, <1>5, <1>6, <1>7, <1>8, <1>9 DEF Next, Ordinary, Upset
<1>11. upsets' \in 0 .. MaxUpsets
  <2>1. upsets' = upsets \/ (upsets < MaxUpsets /\ upsets' = upsets + 1)
    BY DEF Next, vars
  <2> QED BY <1>1, <2>1, Bounds
<1> QED BY <1>10, <1>11 DEF RestTyped

LEMMA NextKeepsKnowledge == Knowledge /\ [Next]_vars => Knowledge'
<1> SUFFICES ASSUME Knowledge, [Next]_vars PROVE Knowledge'
  OBVIOUS
<1>1. TypeOK /\ \A s \in Slots : RowKnows(s)
  BY DEF Knowledge
<1>2. TablesGo
  BY TablesGoAlways
<1>3. BufferGoes
  BY BufferGoesAlways
<1>4. (\A s \in Slots : RowKnows(s))'
  BY <1>1, <1>2, RowsKnow
<1>5. WorkerKnows' /\ AlarmKnows'
  BY <1>2, WorkerKnowsAlways, AlarmKnowsAlways
<1>6. RestTyped'
  BY <1>1, RestTypedAlways
<1>7. TypeOK'
  <2>1. worker'.tx \in Txs \cup {None} /\ worker'.slot \in Slots
    BY <1>5 DEF WorkerKnows
  <2>2. alarm'.pc \in {"idle", "reconcile", "sweep", "broadcast", "replay"}
    BY <1>5 DEF AlarmKnows
  <2> QED BY <1>2, <1>3, <1>6, <2>1, <2>2
          DEF TypeOK, TablesGo, RowsGo, IntentsGo, HeadsGo, ChainGoes, BufferGoes, RestTyped
<1> QED BY <1>4, <1>5, <1>7 DEF Knowledge

LEMMA InitKnows == Init => Knowledge
<1> SUFFICES ASSUME Init PROVE Knowledge
  OBVIOUS
<1>1. TypeOK
  <2>1. NoRow \in Rows /\ 0 \in Heads /\ <<0, 0>> \in Slots /\ <<>> \in Seq(Entries)
    BY Bounds DEF Rows, Heads, Slots, Wallets, Nonces
  <2>2. 0 \in 0 .. MaxUpsets
    BY Bounds
  <2> QED BY <2>1, <2>2 DEF Init, TypeOK, IntentStates, At, Idle, NoWork, NoCancel
<1>2. \A s \in Slots : RowKnows(s)
  BY DEF Init, RowKnows, NoRow
<1>3. WorkerKnows
  <2>1. <<0, 0>> \in Slots
    BY Bounds DEF Slots, Wallets, Nonces
  <2> QED BY <2>1 DEF Init, NoWork, WorkerKnows
<1>4. AlarmKnows
  BY IdleIsAlarm DEF Init, At, Idle, AlarmKnows, Alarms
<1> QED BY <1>1, <1>2, <1>3, <1>4 DEF Knowledge

LEMMA AlwaysKnowledge == Spec => []Knowledge
BY InitKnows, NextKeepsKnowledge, PTL DEF Spec

--------------------------------------------------------------------------------
(* The theorems. *)

\* The tables, the alarm, the Worker and the chain keep their types.
THEOREM TypeCorrect == Spec => []TypeOK
<1>1. Knowledge => TypeOK
  BY DEF Knowledge
<1> QED BY <1>1, AlwaysKnowledge, PTL

\* The queue calls a nonce dispatched only when the node has taken a sender transaction
\* for it, also where the Worker signs with another row's nonce or reports after the head
\* went down (checkAndAssignRun, queueDispatch, transitionQueueEntry).
THEOREM DispatchedSent == Spec => []DispatchedWasSent
<1>1. Knowledge => DispatchedWasSent
  BY DEF Knowledge, RowKnows, DispatchedWasSent
<1> QED BY <1>1, AlwaysKnowledge, PTL

\* A confirmed row's nonce was executed (ledgerMarkConfirmedByReconcile).
THEOREM ConfirmedExecuted == Spec => []ConfirmedIsExecuted
<1>1. Knowledge => ConfirmedIsExecuted
  BY DEF Knowledge, RowKnows, Passed, ConfirmedIsExecuted
<1> QED BY <1>1, AlwaysKnowledge, PTL

\* A transaction enters the replay buffer only in a step after which the node does not
\* hold it for its old nonce (runFlushAndReplayCycle, handleFlushWallet).
THEOREM ReplayedAfterFlush == Spec => FlushedBeforeReplayed
<1> DEFINE Entering == \A i \in DOMAIN buffer' :
                         Len(buffer) < i => mempool'[buffer'[i].slot] # buffer'[i].tx
<1>1. Knowledge /\ [Next]_vars => [Entering]_vars
  BY BufferGoesAlways DEF BufferGoes, EntersFlushed
<1>2. Spec => [][Entering]_vars
  BY <1>1, AlwaysKnowledge, PTL DEF Spec
<1> QED BY <1>2 DEF FlushedBeforeReplayed
================================================================================
