-------------------------- MODULE NonceLedger_proofs ---------------------------
(***************************************************************************)
(* Proofs about NonceLedger, for any number of wallets, invocations and     *)
(* nonces and any value of the limits.                                      *)
(*                                                                         *)
(* Each invariant is proved from those before it: types, then who owns what  *)
(* (BusyBelowHead, which makes NoSharedNonce inductive), then rows           *)
(* (TxidMatchesState and AssignedBelowHead), then the limit on new           *)
(* assignments.                                                             *)
(***************************************************************************)
EXTENDS NonceLedger, FiniteSetTheorems, TLAPS

--------------------------------------------------------------------------------
(* Operators.                                                               *)

\* The nonces and wallets the model ranges over are integers.
LEMMA Ranges ==
    /\ MaxNonce \in Nat /\ Nonces \subseteq Nat /\ Nonces \subseteq Heads
    /\ Heads \subseteq Nat /\ Unset \notin Heads /\ Unset \in Int
    /\ \A n \in Nonces : n + 1 \in Heads
    /\ Wallets \subseteq Nat
BY CountsAssumption, SMT DEF Nonces, Heads, Unset, Wallets

\* Whatever a Hiro replica answers is a possible head.
LEMMA AnswersAreHeads ==
    ASSUME TypeOK, NEW w \in Wallets
    PROVE  /\ HiroExecuted(w) \subseteq Heads
           /\ PossibleNext(w) \subseteq Heads
           /\ \A e : HiroPending(w, e) \subseteq Nonces
BY Ranges, SMT DEF HiroExecuted, PossibleNext, HiroPending

\* A frontier that takes a possible next nonce is a head, and no lower than it.
LEMMA AdvanceFrontierType ==
    ASSUME NEW f \in Heads \cup {Unset}, NEW p \in Heads
    PROVE  /\ AdvanceFrontier(f, p) \in Heads
           /\ AdvanceFrontier(f, p) >= p
           /\ f # Unset => AdvanceFrontier(f, p) >= f
BY Ranges, SMT DEF AdvanceFrontier, Larger, Unset

\* Seeding gives every wallet it handles a head, and changes no head that was set.
LEMMA Seeding ==
    ASSUME TypeOK, NEW hiro \in Answers, NEW k \in Nat,
           \A w \in Unseeded : w < k => hiro[w] # Unset
    PROVE  /\ SeededHead(hiro, k) \in [Wallets -> Heads \cup {Unset}]
           /\ SeededFrontier(hiro, k) \in [Wallets -> Heads \cup {Unset}]
           /\ \A w \in Wallets : head[w] # Unset => SeededHead(hiro, k)[w] = head[w]
<1> DEFINE sh == SeededHead(hiro, k)
           sf == SeededFrontier(hiro, k)
<1>1. hiro \in [Wallets -> Heads \cup {Unset}]
  BY DEF Answers
<1>2. ASSUME NEW w \in Wallets
      PROVE  sh[w] \in Heads \cup {Unset} /\ sf[w] \in Heads \cup {Unset}
  BY <1>1, AdvanceFrontierType DEF SeededHead, SeededFrontier, TypeOK
<1>4. ASSUME NEW w \in Wallets, head[w] # Unset
      PROVE  sh[w] = head[w]
  BY <1>4 DEF SeededHead, Unseeded
<1>5. sh \in [Wallets -> Heads \cup {Unset}] /\ sf \in [Wallets -> Heads \cup {Unset}]
  BY <1>2 DEF SeededHead, SeededFrontier
<1> QED BY <1>4, <1>5

\* The nonce /assign hands out is never below the head of its wallet.
LEMMA NonceToAssignBound ==
    ASSUME NEW h \in Heads, NEW next \in Heads \cup {Unset}
    PROVE  /\ NonceToAssign(h, next) \in Heads
           /\ NonceToAssign(h, next) >= h
           /\ next # Unset => NonceToAssign(h, next) \in {h, next}
           /\ next = Unset => NonceToAssign(h, next) = h
BY Ranges, SMT DEF NonceToAssign

\* The lowest elements of a set are elements of it.
LEMMA LowestOfSubset ==
    ASSUME NEW S, NEW k
    PROVE  LowestOf(S, k) \subseteq S
BY DEF LowestOf

--------------------------------------------------------------------------------
(* Types.                                                                   *)

\* What the first half of a reconciliation leaves of a row: itself, confirmed if
\* it has a txid, or a state that says the nonce is free again.
Settled(w, rows) ==
    /\ rows \in [Nonces -> IntentStates]
    /\ \A n \in Nonces : \/ rows[n] = intent[w][n]
                         \/ rows[n] = "confirmed" /\ n \in hasTxid[w]
                         \/ rows[n] \in {"failed", "expired"}

\* What a pass does once it knows the rows, mempool and plan of its second half.
SecondHalf(w, p, rows, pend, plan, resent) ==
    /\ frontier' = [frontier EXCEPT ![w] = AdvanceFrontier(@, p)]
    /\ Settled(w, rows)
    /\ Repair(w, p, rows, pend, plan, resent) \/ CutShort(w, rows, pend)

\* A reconciliation settles the rows, then repairs or is cut short.
LEMMA ReconcileShape ==
    ASSUME TypeOK, NEW w \in Wallets, Reconcile(w)
    PROVE  /\ head[w] # Unset
           /\ UNCHANGED <<req, executed>>
           /\ queued' \in [Wallets -> SUBSET Nonces]
           /\ \E p \in Heads, rows \in [Nonces -> IntentStates], pend \in SUBSET Nonces,
                 plan \in SUBSET Nonces, resent \in BOOLEAN : SecondHalf(w, p, rows, pend, plan, resent)
<1>1. PICK e \in HiroExecuted(w) : \E P \in SUBSET HiroPending(w, e), p \in Heads :
         /\ IsPossibleNext(p, e, P)
         /\ \E stale \in SUBSET (AssignedNow(w) \ Owned(w)),
               oldConflicts \in SUBSET {n \in Nonces : intent[w][n] = "conflict"},
               stuck \in {{}} \cup {{n} : n \in RbfCandidates(w, e, P)} :
             \E verdict \in Verdicts(w, stuck) :
               ReconcileWith(w, e, P, p, stale, oldConflicts, stuck, verdict)
  BY DEF Reconcile
<1>2. PICK P \in SUBSET HiroPending(w, e), p \in Heads :
         \E stale \in SUBSET (AssignedNow(w) \ Owned(w)),
               oldConflicts \in SUBSET {n \in Nonces : intent[w][n] = "conflict"},
               stuck \in {{}} \cup {{n} : n \in RbfCandidates(w, e, P)} :
             \E verdict \in Verdicts(w, stuck) :
               ReconcileWith(w, e, P, p, stale, oldConflicts, stuck, verdict)
  BY <1>1
<1>3. PICK stale \in SUBSET (AssignedNow(w) \ Owned(w)),
           oldConflicts \in SUBSET {n \in Nonces : intent[w][n] = "conflict"},
           stuck \in {{}} \cup {{n} : n \in RbfCandidates(w, e, P)} :
             \E verdict \in Verdicts(w, stuck) :
               ReconcileWith(w, e, P, p, stale, oldConflicts, stuck, verdict)
  BY <1>2
<1>4. PICK verdict \in Verdicts(w, stuck) :
             ReconcileWith(w, e, P, p, stale, oldConflicts, stuck, verdict)
  BY <1>3
<1> DEFINE rows == RowsAfter(w, e, stale, stuck, verdict)
           resent == IF verdict = "resent" THEN stuck ELSE {}
           replaced == IF verdict = "replaced" THEN stuck ELSE {}
           plan == LowestOf(MissingFills(w, e, p, P, oldConflicts)
                              \cup CorridorFills(w, e, p) \cup replaced,
                            FillBudget(w, frontier'))
<1>5. head[w] # Unset /\ UNCHANGED <<req, executed>>
  BY DEF Reconcile
<1>6. hasTxid[w] \in SUBSET Nonces /\ pool[w] \in SUBSET Nonces
      /\ queued[w] \in SUBSET Nonces /\ intent[w] \in [Nonces -> IntentStates]
  BY DEF TypeOK
<1>7. stuck \subseteq hasTxid[w] /\ Confirmed(w, e, stuck, verdict) \subseteq hasTxid[w]
  BY DEF RbfCandidates, ChainPassed, Confirmed
<1>8. Settled(w, rows)
  <2>1. ASSUME NEW n \in Nonces
        PROVE  /\ rows[n] \in IntentStates
               /\ \/ rows[n] = intent[w][n]
                  \/ rows[n] = "confirmed" /\ n \in hasTxid[w]
                  \/ rows[n] \in {"failed", "expired"}
    BY <1>6, <1>7 DEF RowsAfter, IntentStates
  <2> QED BY <2>1 DEF Settled, RowsAfter
<1>9. pool[w] \cup resent \in SUBSET Nonces
  BY <1>6, <1>7
<1>10. plan \in SUBSET Nonces
  <2>1. MissingFills(w, e, p, P, oldConflicts) \cup CorridorFills(w, e, p) \subseteq Nonces
    BY DEF MissingFills, CorridorFills
  <2> QED BY <1>6, <1>7, <2>1, LowestOfSubset
<1>11. /\ frontier' = [frontier EXCEPT ![w] = AdvanceFrontier(@, p)]
       /\ queued' = [queued EXCEPT ![w] = @ \ Confirmed(w, e, stuck, verdict)]
       /\ \/ Repair(w, p, rows, pool[w] \cup resent, plan, resent # {})
          \/ CutShort(w, rows, pool[w] \cup resent)
  BY <1>4 DEF ReconcileWith
<1>12. queued' \in [Wallets -> SUBSET Nonces]
  BY <1>6, <1>11 DEF TypeOK
<1>13. (resent # {}) \in BOOLEAN
  OBVIOUS
<1>14. SecondHalf(w, p, rows, pool[w] \cup resent, plan, resent # {})
  BY <1>8, <1>11 DEF SecondHalf
<1> HIDE DEF resent, plan
<1>15. rows \in [Nonces -> IntentStates]
  BY <1>8 DEF Settled
<1> HIDE DEF rows
<1> QED BY <1>5, <1>9, <1>10, <1>12, <1>13, <1>14, <1>15

\* A row after a whole pass: kept, confirmed with a txid, free again, or filled.
Justified(w, n, state, filled) ==
    \/ state = intent[w][n] /\ n \notin filled
    \/ state = "confirmed" /\ n \in hasTxid[w] \cup filled
    \/ state \in {"failed", "expired", "conflict"}
    \/ state = "gap_fill" /\ intent[w][n] = "none" /\ n \notin filled
    \/ state = "broadcasted" /\ n \in hasTxid[w]

\* The effect of a pass on every variable it changes but the queue.
Effect(w, p, rows, filled, pend, h) ==
    /\ frontier' = [frontier EXCEPT ![w] = AdvanceFrontier(@, p)]
    /\ intent' = [intent EXCEPT ![w] = rows]
    /\ hasTxid' = [hasTxid EXCEPT ![w] = @ \cup filled]
    /\ pool' = [pool EXCEPT ![w] = pend]
    /\ head' = [head EXCEPT ![w] = h]
    /\ h = head[w] \/ HeadMoves(w, rows, p, h)
    /\ \A n \in Nonces : Justified(w, n, rows[n], filled)

\* The second half has such an effect, whether it repairs or is cut short.
LEMMA SecondHalfEffect ==
    ASSUME TypeOK, NEW w \in Wallets, head[w] # Unset, NEW p \in Heads,
           NEW rows \in [Nonces -> IntentStates], NEW pend \in SUBSET Nonces,
           NEW plan \in SUBSET Nonces, NEW resent \in BOOLEAN,
           SecondHalf(w, p, rows, pend, plan, resent)
    PROVE  \E rows2 \in [Nonces -> IntentStates], filled \in SUBSET Nonces,
              pend2 \in SUBSET Nonces, h \in Heads : Effect(w, p, rows2, filled, pend2, h)
<1>1. head[w] \in Heads /\ intent[w] \in [Nonces -> IntentStates]
  BY DEF TypeOK
<1>2. CASE CutShort(w, rows, pend)
  <2>1. ASSUME NEW n \in Nonces
        PROVE  Justified(w, n, rows[n], {})
    BY DEF Justified, SecondHalf, Settled
  <2>2. head' = [head EXCEPT ![w] = head[w]] /\ hasTxid' = [hasTxid EXCEPT ![w] = @ \cup {}]
    BY <1>2 DEF CutShort, TypeOK
  <2>3. Effect(w, p, rows, {}, pend, head[w])
    BY <1>2, <2>1, <2>2 DEF Effect, CutShort, SecondHalf
  <2> QED BY <1>1, <2>3
<1>3. CASE Repair(w, p, rows, pend, plan, resent)
  <2>1. PICK verdict \in [plan -> {"filled", "conflict", "rejected"}] :
        LET filled == {n \in plan : verdict[n] = "filled"}
            bump == HeadBumpCandidates(w, rows, filled)
        IN /\ intent' = [intent EXCEPT ![w] = [n \in Nonces |->
                IF n \in plan THEN FillState(rows[n], n \in hasTxid[w], verdict[n])
                ELSE rows[n]]]
           /\ hasTxid' = [hasTxid EXCEPT ![w] = @ \cup filled]
           /\ \E bumped \in {{}, bump} :
                pool' = [pool EXCEPT ![w] = pend \cup filled \cup bumped]
           /\ \E h \in Heads : /\ HeadMoves(w, intent'[w], p, h)
                               /\ head' = [head EXCEPT ![w] = h]
    BY <1>3 DEF Repair
  <2> DEFINE filled == {n \in plan : verdict[n] = "filled"}
             rows2 == [n \in Nonces |->
                IF n \in plan THEN FillState(rows[n], n \in hasTxid[w], verdict[n])
                ELSE rows[n]]
  <2>2. PICK bumped \in {{}, HeadBumpCandidates(w, rows, filled)} :
             pool' = [pool EXCEPT ![w] = pend \cup filled \cup bumped]
    BY <2>1
  <2>3. PICK h \in Heads : /\ HeadMoves(w, intent'[w], p, h)
                           /\ head' = [head EXCEPT ![w] = h]
    BY <2>1
  <2>4. filled \in SUBSET Nonces
    OBVIOUS
  <2>5. HeadBumpCandidates(w, rows, filled) \subseteq Nonces
    BY LowestOfSubset DEF HeadBumpCandidates
  <2>6. pend \cup filled \cup bumped \in SUBSET Nonces
    BY <2>2, <2>4, <2>5
  <2>7. intent' = [intent EXCEPT ![w] = rows2] /\ intent'[w] = rows2
    BY <2>1 DEF TypeOK
  <2>8. ASSUME NEW n \in Nonces
        PROVE  rows2[n] \in IntentStates /\ Justified(w, n, rows2[n], filled)
    <3>1. \/ rows[n] = intent[w][n]
          \/ rows[n] = "confirmed" /\ n \in hasTxid[w]
          \/ rows[n] \in {"failed", "expired"}
      BY DEF SecondHalf, Settled
    <3>2. CASE n \notin plan
      BY <3>1, <3>2 DEF Justified
    <3>3. CASE n \in plan
      <4>1. rows2[n] = FillState(rows[n], n \in hasTxid[w], verdict[n])
        BY <3>3
      <4>2. CASE verdict[n] = "filled"
        BY <3>3, <4>1, <4>2 DEF FillState, Justified, IntentStates
      <4>3. CASE verdict[n] = "rejected"
        BY <3>1, <3>3, <4>1, <4>3 DEF FillState, Justified, IntentStates
      <4>4. CASE verdict[n] = "conflict"
        BY <3>1, <3>3, <4>1, <4>4 DEF FillState, Justified, IntentStates
      <4> QED BY <3>3, <4>2, <4>3, <4>4
    <3> QED BY <3>2, <3>3
  <2>9. rows2 \in [Nonces -> IntentStates]
    BY <2>8
  <2>10. frontier' = [frontier EXCEPT ![w] = AdvanceFrontier(@, p)]
    BY DEF SecondHalf
  <2>11. hasTxid' = [hasTxid EXCEPT ![w] = @ \cup filled]
    BY <2>1
  <2> HIDE DEF filled, rows2
  <2>12. Effect(w, p, rows2, filled, pend \cup filled \cup bumped, h)
    BY <2>2, <2>3, <2>7, <2>8, <2>10, <2>11 DEF Effect
  <2> QED BY <2>4, <2>6, <2>9, <2>12
<1> QED BY <1>2, <1>3 DEF SecondHalf

\* The whole pass has such an effect.
LEMMA ReconcileEffect ==
    ASSUME TypeOK, NEW w \in Wallets, Reconcile(w)
    PROVE  /\ head[w] # Unset
           /\ UNCHANGED <<req, executed>>
           /\ queued' \in [Wallets -> SUBSET Nonces]
           /\ \E p \in Heads, rows \in [Nonces -> IntentStates], filled \in SUBSET Nonces,
                 pend \in SUBSET Nonces, h \in Heads : Effect(w, p, rows, filled, pend, h)
<1>1. PICK p \in Heads, rows \in [Nonces -> IntentStates], pend \in SUBSET Nonces,
           plan \in SUBSET Nonces, resent \in BOOLEAN :
             SecondHalf(w, p, rows, pend, plan, resent)
  BY ReconcileShape
<1>2. head[w] # Unset
  BY ReconcileShape
<1>3. \E rows2 \in [Nonces -> IntentStates], filled \in SUBSET Nonces,
         pend2 \in SUBSET Nonces, h \in Heads : Effect(w, p, rows2, filled, pend2, h)
  BY <1>1, <1>2, SecondHalfEffect
<1> QED BY <1>2, <1>3, ReconcileShape

\* A request record that owes calls, or the idle one, is a request.
LEMMA OwesType ==
    ASSUME TypeOK, NEW r \in Requests, NEW calls \in SUBSET Calls, Owes(r, calls)
    PROVE  req' \in [Requests -> ReqType]
<1>1. Idle \in ReqType
  BY CountsAssumption, SMT DEF Idle, ReqType, Wallets, Nonces
<1>2. [req[r] EXCEPT !.pc = "report", !.todo = calls] \in ReqType
  BY DEF TypeOK, ReqType
<1> QED BY <1>1, <1>2 DEF Owes, TypeOK

\* Changing one row, or one element of a wallet's set, keeps the types.
LEMMA OneRow ==
    ASSUME TypeOK, NEW w \in Wallets, NEW n \in Nonces, NEW s \in IntentStates
    PROVE  /\ [intent EXCEPT ![w][n] = s] \in [Wallets -> [Nonces -> IntentStates]]
           /\ [hasTxid EXCEPT ![w] = @ \cup {n}] \in [Wallets -> SUBSET Nonces]
           /\ [queued EXCEPT ![w] = @ \ {n}] \in [Wallets -> SUBSET Nonces]
           /\ intent \in [Wallets -> [Nonces -> IntentStates]]
           /\ hasTxid \in [Wallets -> SUBSET Nonces]
           /\ queued \in [Wallets -> SUBSET Nonces]
<1>1. intent \in [Wallets -> [Nonces -> IntentStates]]
      /\ hasTxid \in [Wallets -> SUBSET Nonces] /\ queued \in [Wallets -> SUBSET Nonces]
  BY DEF TypeOK
<1>2. [intent[w] EXCEPT ![n] = s] \in [Nonces -> IntentStates]
  BY <1>1
<1>3. [intent EXCEPT ![w] = [intent[w] EXCEPT ![n] = s]]
        \in [Wallets -> [Nonces -> IntentStates]]
  BY <1>1, <1>2
<1> QED BY <1>1, <1>3

\* Releasing a row gives it a state.
LEMMA ReleaseType ==
    ASSUME TypeOK, NEW w \in Wallets, NEW n \in Nonces,
           NEW call \in {"release_ok", "release_plain", "release_reason"},
           ReleaseNonce(w, n, call)
    PROVE  /\ intent' \in [Wallets -> [Nonces -> IntentStates]]
           /\ hasTxid' \in [Wallets -> SUBSET Nonces]
<1>1. ReleasedState(call) \in IntentStates
  BY DEF ReleasedState, IntentStates
<1>2. CASE intent[w][n] = "assigned"
  <2>1. [intent EXCEPT ![w][n] = ReleasedState(call)]
          \in [Wallets -> [Nonces -> IntentStates]]
    BY <1>1, OneRow
  <2>2. [hasTxid EXCEPT ![w] = @ \cup {n}] \in [Wallets -> SUBSET Nonces]
        /\ hasTxid \in [Wallets -> SUBSET Nonces]
    BY <1>1, OneRow
  <2>3. intent' = [intent EXCEPT ![w][n] = ReleasedState(call)]
        /\ hasTxid' \in {hasTxid, [hasTxid EXCEPT ![w] = @ \cup {n}]}
    BY <1>2 DEF ReleaseNonce
  <2> QED BY <2>1, <2>2, <2>3
<1>3. CASE intent[w][n] # "assigned"
  <2>1. UNCHANGED <<intent, hasTxid>>
    BY <1>3 DEF ReleaseNonce
  <2> QED BY <2>1 DEF TypeOK
<1> QED BY <1>2, <1>3

\* A handler call leaves rows, txids and queue in their types.
LEMMA HandleCallType ==
    ASSUME TypeOK, NEW w \in Wallets, NEW n \in Nonces, NEW call,
           HandleCall(w, n, call)
    PROVE  /\ intent' \in [Wallets -> [Nonces -> IntentStates]]
           /\ hasTxid' \in [Wallets -> SUBSET Nonces]
           /\ queued' \in [Wallets -> SUBSET Nonces]
<1>1. ASSUME NEW s \in {"broadcasted", "conflict", "failed"}, BroadcastOutcome(w, n, s)
      PROVE  /\ intent' \in [Wallets -> [Nonces -> IntentStates]]
             /\ hasTxid' \in [Wallets -> SUBSET Nonces]
             /\ queued' \in [Wallets -> SUBSET Nonces]
  <2>1. s \in IntentStates
    BY DEF IntentStates
  <2>2. intent' \in {intent, [intent EXCEPT ![w][n] = s]}
        /\ hasTxid' \in {hasTxid, [hasTxid EXCEPT ![w] = @ \cup {n}]}
        /\ queued' \in {queued, [queued EXCEPT ![w] = @ \ {n}]}
    BY <1>1, Zenon DEF BroadcastOutcome
  <2>3. [intent EXCEPT ![w][n] = s] \in [Wallets -> [Nonces -> IntentStates]]
        /\ [hasTxid EXCEPT ![w] = @ \cup {n}] \in [Wallets -> SUBSET Nonces]
        /\ [queued EXCEPT ![w] = @ \ {n}] \in [Wallets -> SUBSET Nonces]
    BY <2>1, OneRow
  <2> QED BY <2>2, <2>3 DEF TypeOK
<1>2. ASSUME call \in {"release_ok", "release_plain", "release_reason"},
             ReleaseNonce(w, n, call), UNCHANGED queued
      PROVE  /\ intent' \in [Wallets -> [Nonces -> IntentStates]]
             /\ hasTxid' \in [Wallets -> SUBSET Nonces]
             /\ queued' \in [Wallets -> SUBSET Nonces]
  BY <1>2, ReleaseType DEF TypeOK
<1>3. ASSUME queued' = [queued EXCEPT ![w] = @ \ {n}], UNCHANGED <<intent, hasTxid>>
      PROVE  /\ intent' \in [Wallets -> [Nonces -> IntentStates]]
             /\ hasTxid' \in [Wallets -> SUBSET Nonces]
             /\ queued' \in [Wallets -> SUBSET Nonces]
  BY <1>3 DEF TypeOK
<1> QED BY <1>1, <1>2, <1>3 DEF HandleCall

\* The calls owed on success and on failure are calls.
LEMMA OwedCalls ==
    ASSUME NEW r \in Requests
    PROVE  SuccessCalls(r) \in SUBSET Calls /\ FailureCalls \subseteq SUBSET Calls
BY DEF SuccessCalls, FailureCalls, Calls

\* Assigning rows keeps rows and txids in their types.
LEMMA LedgerAssignType ==
    ASSUME TypeOK, NEW w \in Wallets, NEW S \in SUBSET Nonces, LedgerAssign(w, S)
    PROVE  /\ intent' \in [Wallets -> [Nonces -> IntentStates]]
           /\ hasTxid' \in [Wallets -> SUBSET Nonces]
BY DEF LedgerAssign, TypeOK, IntentStates

\* The rows in flight are counted by a natural number.
LEMMA InFlightCountType ==
    ASSUME NEW w
    PROVE  InFlightCount(w) \in Nat
<1>1. IsFiniteSet(Nonces)
  BY CountsAssumption, FS_Interval DEF Nonces
<1> DEFINE T == {n \in Nonces : intent[w][n] \in {"assigned", "broadcasted", "confirmed"}}
<1>2. T \in SUBSET Nonces
  OBVIOUS
<1>3. IsFiniteSet(T)
  BY <1>1, <1>2, FS_Subset
<1>4. Cardinality(T) \in Nat
  BY <1>3, FS_CardinalityType
<1> QED BY <1>4 DEF InFlightCount

\* Also after a step.
LEMMA InFlightCountPrime ==
    ASSUME NEW w
    PROVE  InFlightCount(w)' \in Nat
<1>1. IsFiniteSet(Nonces)
  BY CountsAssumption, FS_Interval DEF Nonces
<1> DEFINE T == {n \in Nonces : intent'[w][n] \in {"assigned", "broadcasted", "confirmed"}}
<1>2. T \in SUBSET Nonces
  OBVIOUS
<1>3. IsFiniteSet(T)
  BY <1>1, <1>2, FS_Subset
<1>4. Cardinality(T) \in Nat
  BY <1>3, FS_CardinalityType
<1> QED BY <1>4 DEF InFlightCount

\* Assigning a set of rows adds at most that many rows in flight.
LEMMA InFlightGrowth ==
    ASSUME TypeOK, NEW w \in Wallets, NEW S \in SUBSET Nonces, LedgerAssign(w, S)
    PROVE  InFlightCount(w)' <= InFlightCount(w) + Cardinality(S)
<1> DEFINE T == {n \in Nonces : intent[w][n] \in {"assigned", "broadcasted", "confirmed"}}
           U == {n \in Nonces : intent'[w][n] \in {"assigned", "broadcasted", "confirmed"}}
<1>1. IsFiniteSet(Nonces)
  BY CountsAssumption, FS_Interval DEF Nonces
<1>2. T \in SUBSET Nonces
  OBVIOUS
<1>3. IsFiniteSet(T) /\ IsFiniteSet(S)
  BY <1>1, <1>2, FS_Subset
<1>4. U \in SUBSET (T \cup S)
  BY DEF LedgerAssign, TypeOK
<1> HIDE DEF T, U
<1>5. /\ IsFiniteSet(T \cup S)
      /\ Cardinality(T \cup S) = Cardinality(T) + Cardinality(S) - Cardinality(T \cap S)
  BY <1>3, FS_Union
<1>6. IsFiniteSet(T \cap S)
  <2>1. (T \cap S) \in SUBSET T
    OBVIOUS
  <2> QED BY <1>3, <2>1, FS_Subset
<1>7. IsFiniteSet(U) /\ Cardinality(U) <= Cardinality(T \cup S)
  BY <1>4, <1>5, FS_Subset
<1>8. /\ Cardinality(T) \in Nat /\ Cardinality(S) \in Nat /\ Cardinality(U) \in Nat
      /\ Cardinality(T \cap S) \in Nat
  BY <1>3, <1>6, <1>7, FS_CardinalityType
<1>9. Cardinality(U) <= Cardinality(T) + Cardinality(S)
  BY <1>5, <1>7, <1>8
<1> QED BY <1>9 DEF InFlightCount, T, U

\* The length of a run is positive and no more than the headroom left.
LEMMA RunLengthBound ==
    ASSUME TypeOK, NEW w \in Wallets, NEW k \in 1 .. MaxRun,
           RunWallet(w)
    PROVE  /\ head[w] \in Heads
           /\ RunLength(w, k) \in Nat \ {0}
           /\ frontier[w] # Unset => head[w] + RunLength(w, k) <= frontier[w] + ChainingLimit
           /\ frontier[w] = Unset => InFlightCount(w) + RunLength(w, k) <= ChainingLimit
<1>1. head[w] \in Heads
  <2>1. w \in 0 .. w
    BY Ranges, SMT
  <2> QED BY <2>1 DEF RunWallet, Scanned, TypeOK
<1>2. EffectiveHeadroom(w) > 0
  BY DEF RunWallet
<1>3. head[w] \in Nat /\ head[w] # Unset
  BY <1>1, Ranges
<1>4. CASE frontier[w] = Unset
  <2>1. Headroom(head, frontier, w) = ChainingLimit - InFlightCount(w)
    BY <1>4 DEF Headroom
  <2> QED BY <1>1, <1>2, <1>4, <2>1, InFlightCountType, LimitsAssumption, SMT
          DEF EffectiveHeadroom, RunLength, Larger
<1>5. CASE frontier[w] # Unset
  <2>1. frontier[w] \in Nat
    BY <1>5, Ranges DEF TypeOK
  <2>2. Headroom(head, frontier, w)
          = Larger(0, ChainingLimit - Larger(0, head[w] - frontier[w]))
    BY <1>3, <1>5 DEF Headroom
  <2> QED BY <1>1, <1>2, <1>3, <1>5, <2>1, <2>2, LimitsAssumption, SMT
          DEF EffectiveHeadroom, RunLength, Larger
<1> QED BY <1>4, <1>5

\* Types hold initially.
LEMMA TypeInit ==
    Init => TypeOK
<1> SUFFICES ASSUME Init PROVE TypeOK
  OBVIOUS
<1>1. Idle \in ReqType
  BY CountsAssumption, SMT DEF Idle, ReqType, Wallets, Nonces
<1>2. 0 \in Heads
  BY CountsAssumption, SMT DEF Heads
<1> QED BY <1>1, <1>2 DEF Init, TypeOK, IntentStates

\* A failed seeding keeps them for the wallets before the one that failed.
LEMMA TypeAssignSeedFails ==
    ASSUME TypeOK, NEW r \in Requests, AssignSeedFails(r)
    PROVE  TypeOK'
<1>1. PICK hiro \in Answers, k \in Unseeded :
         /\ \A w \in Unseeded : w < k => hiro[w] # Unset
         /\ head' = SeededHead(hiro, k)
         /\ frontier' = SeededFrontier(hiro, k)
  BY DEF AssignSeedFails
<1>2. k \in Nat
  BY Ranges DEF Unseeded
<1>3. /\ head' \in [Wallets -> Heads \cup {Unset}]
      /\ frontier' \in [Wallets -> Heads \cup {Unset}]
  BY <1>1, <1>2, Seeding
<1>4. UNCHANGED <<intent, hasTxid, queued, req, executed, pool>>
  BY DEF AssignSeedFails, chain
<1> QED BY <1>3, <1>4 DEF TypeOK

\* Once every unseeded wallet has an answer, all heads are set.
LEMMA AllSeeded ==
    ASSUME TypeOK, NEW hiro \in Answers,
           \A v \in Unseeded : hiro[v] # Unset
    PROVE  /\ SeededHead(hiro, WalletCount) \in [Wallets -> Heads]
           /\ SeededFrontier(hiro, WalletCount) \in [Wallets -> Heads \cup {Unset}]
           /\ \A v \in Wallets : head[v] # Unset
                                   => SeededHead(hiro, WalletCount)[v] = head[v]
<1> DEFINE hd == SeededHead(hiro, WalletCount)
           fr == SeededFrontier(hiro, WalletCount)
<1>1. WalletCount \in Nat /\ \A v \in Unseeded : v < WalletCount => hiro[v] # Unset
  BY CountsAssumption
<1>2. /\ hd \in [Wallets -> Heads \cup {Unset}]
      /\ fr \in [Wallets -> Heads \cup {Unset}]
      /\ \A v \in Wallets : head[v] # Unset => hd[v] = head[v]
  BY <1>1, Seeding
<1>3. ASSUME NEW v \in Wallets
      PROVE  hd[v] # Unset
  <2>1. CASE v \in Unseeded
    <3>1. v < WalletCount
      BY CountsAssumption, SMT DEF Wallets
    <3>2. hd[v] = hiro[v]
      BY <2>1, <3>1 DEF SeededHead
    <3> QED BY <2>1, <3>2
  <2>2. CASE v \notin Unseeded
    BY <1>2, <2>2 DEF Unseeded
  <2> QED BY <2>1, <2>2
<1> HIDE DEF hd, fr
<1>4. \A v \in Wallets : hd[v] \in Heads
  BY <1>2, <1>3
<1>5. hd \in [Wallets -> Heads]
  BY <1>2, <1>4
<1> QED BY <1>2, <1>5 DEF hd, fr

\* How far past a frontier f, or with how many rows in flight, n is handed out.
HandedOutWithin(w, n, f) ==
    \/ f # Unset /\ n < f + ChainingLimit
    \/ f # Unset /\ frontier[w] = Unset /\ n <= f + Lookahead
    \/ f = Unset /\ InFlightCount(w) + 1 <= ChainingLimit

\* What /assign does when it succeeds: one row of one wallet, at or above its
\* head, within the limit of the frontier it leaves.
Assigned(r, hd, fr, w, n, f) ==
    /\ \A v \in Wallets : head[v] # Unset => hd[v] = head[v]
    /\ head' = [hd EXCEPT ![w] = n + 1]
    /\ frontier' = [fr EXCEPT ![w] = f]
    /\ hd[w] <= n
    /\ HandedOutWithin(w, n, f)
    /\ LedgerAssign(w, {n})
    /\ req' = [req EXCEPT ![r] = [pc |-> "sign", w |-> w, n |-> n, todo |-> {}]]

\* A successful assignment has that shape.
LEMMA AssignShape ==
    ASSUME TypeOK, NEW r \in Requests, Assign(r)
    PROVE  \E hd \in [Wallets -> Heads], fr \in [Wallets -> Heads \cup {Unset}],
              w \in Wallets, n \in Nonces, f \in Heads \cup {Unset} : Assigned(r, hd, fr, w, n, f)
<1>1. PICK hiro \in Answers, w \in Wallets :
         LET hd == SeededHead(hiro, WalletCount)
             fr == SeededFrontier(hiro, WalletCount)
         IN /\ \A v \in Unseeded : hiro[v] # Unset
            /\ MostHeadroom(hd, fr, w)
            /\ Headroom(hd, fr, w) > SoftReject
            /\ \E next \in NextAnswers(w, fr) :
                 LET n == NonceToAssign(hd[w], next)
                 IN /\ ~BeyondLookahead(n, next)
                    /\ n \in Nonces
                    /\ head' = [hd EXCEPT ![w] = n + 1]
                    /\ frontier' = [fr EXCEPT ![w] =
                                      IF next = Unset THEN @ ELSE AdvanceFrontier(@, next)]
                    /\ LedgerAssign(w, {n})
                    /\ req' = [req EXCEPT ![r] =
                                 [pc |-> "sign", w |-> w, n |-> n, todo |-> {}]]
  BY DEF Assign
<1> DEFINE hd == SeededHead(hiro, WalletCount)
           fr == SeededFrontier(hiro, WalletCount)
<1>2. PICK next \in NextAnswers(w, fr) :
         LET n == NonceToAssign(hd[w], next)
         IN /\ ~BeyondLookahead(n, next)
            /\ n \in Nonces
            /\ head' = [hd EXCEPT ![w] = n + 1]
            /\ frontier' = [fr EXCEPT ![w] =
                              IF next = Unset THEN @ ELSE AdvanceFrontier(@, next)]
            /\ LedgerAssign(w, {n})
            /\ req' = [req EXCEPT ![r] =
                         [pc |-> "sign", w |-> w, n |-> n, todo |-> {}]]
  BY <1>1
<1> DEFINE n == NonceToAssign(hd[w], next)
           f == IF next = Unset THEN fr[w] ELSE AdvanceFrontier(fr[w], next)
<1>3. /\ hd \in [Wallets -> Heads] /\ fr \in [Wallets -> Heads \cup {Unset}]
      /\ \A v \in Wallets : head[v] # Unset => hd[v] = head[v]
  BY <1>1, AllSeeded
<1>4. Headroom(hd, fr, w) > SoftReject
  BY <1>1
<1>5. fr[w] = Unset => frontier[w] = Unset
  <2>1. hiro[w] \in Heads \cup {Unset} /\ frontier[w] \in Heads \cup {Unset}
    BY DEF Answers, TypeOK
  <2>2. CASE hiro[w] # Unset
    <3>1. AdvanceFrontier(frontier[w], hiro[w]) \in Heads
      BY <2>1, <2>2, AdvanceFrontierType
    <3>2. w < WalletCount
      BY CountsAssumption, SMT DEF Wallets
    <3> QED BY <2>2, <3>1, <3>2, Ranges DEF SeededFrontier
  <2>3. CASE hiro[w] = Unset
    BY <2>3 DEF SeededFrontier
  <2> QED BY <2>2, <2>3
<1> HIDE DEF hd, fr
<1>6. hd[w] \in Heads /\ fr[w] \in Heads \cup {Unset} /\ next \in Heads \cup {Unset}
  BY <1>3, AnswersAreHeads DEF NextAnswers
<1>7. n \in Heads /\ n >= hd[w] /\ (next # Unset => n \in {hd[w], next})
      /\ (next = Unset => n = hd[w])
  BY <1>6, NonceToAssignBound
<1>8. ~BeyondLookahead(n, next)
  BY <1>2
<1> HIDE DEF n
<1>9. /\ f \in Heads \cup {Unset}
      /\ HandedOutWithin(w, n, f)
  <2>1. hd[w] \in Nat /\ hd[w] # Unset /\ n \in Nat /\ ChainingLimit \in Nat \ {0}
        /\ SoftReject \in Nat /\ Lookahead \in Nat
    BY <1>6, <1>7, Ranges, LimitsAssumption
  <2>2. CASE fr[w] # Unset
    <3>1. fr[w] \in Nat
      BY <1>6, <2>2, Ranges
    <3>2. Larger(0, ChainingLimit - Larger(0, hd[w] - fr[w])) > SoftReject
      BY <1>4, <2>1, <2>2 DEF Headroom
    <3>3. hd[w] < fr[w] + ChainingLimit
      BY <2>1, <3>1, <3>2, SMT DEF Larger
    <3>4. CASE next = Unset
      <4>1. f = fr[w] /\ n = hd[w]
        BY <1>7, <3>4
      <4> QED BY <1>6, <2>2, <3>3, <4>1 DEF HandedOutWithin
    <3>5. CASE next # Unset
      <4>1. next \in Heads /\ next \in Nat /\ f = AdvanceFrontier(fr[w], next)
        BY <1>6, <3>5, Ranges
      <4>2. f \in Heads /\ f >= next /\ f >= fr[w]
        BY <1>6, <2>2, <4>1, AdvanceFrontierType
      <4>3. f \in Nat /\ f # Unset
        BY <4>2, Ranges
      <4> HIDE DEF f
      <4>4. n < f + ChainingLimit
        BY <1>7, <2>1, <3>1, <3>3, <3>5, <4>1, <4>2, <4>3
      <4> QED BY <4>2, <4>3, <4>4 DEF HandedOutWithin
    <3> QED BY <3>4, <3>5
  <2>3. CASE fr[w] = Unset /\ next = Unset
    <3>1. f = Unset
      BY <2>3
    <3>2. ChainingLimit - InFlightCount(w) > SoftReject
      BY <1>4, <2>3 DEF Headroom
    <3>3. InFlightCount(w) + 1 <= ChainingLimit
      BY <2>1, <3>2, InFlightCountType
    <3> QED BY <3>1, <3>3 DEF HandedOutWithin
  <2>4. CASE fr[w] = Unset /\ next # Unset
    <3>1. next \in Heads /\ f = next
      BY <1>6, <2>4 DEF AdvanceFrontier
    <3>2. f \in Nat /\ f # Unset
      BY <3>1, Ranges
    <3>3. n <= f + Lookahead
      BY <1>8, <2>1, <2>4, <3>1, <3>2 DEF BeyondLookahead
    <3> QED BY <1>5, <2>4, <3>1, <3>2, <3>3 DEF HandedOutWithin
  <2> QED BY <2>2, <2>3, <2>4
<1>10. /\ head' = [hd EXCEPT ![w] = n + 1]
       /\ frontier' = [fr EXCEPT ![w] = f]
       /\ n \in Nonces
       /\ LedgerAssign(w, {n})
       /\ req' = [req EXCEPT ![r] = [pc |-> "sign", w |-> w, n |-> n, todo |-> {}]]
  BY <1>2, <1>3 DEF n
<1>11. hd[w] <= n
  BY <1>6, <1>7, Ranges
<1> HIDE DEF f
<1>12. Assigned(r, hd, fr, w, n, f)
  BY <1>3, <1>9, <1>10, <1>11 DEF Assigned
<1> QED BY <1>3, <1>9, <1>10, <1>12

\* A successful assignment keeps the types.
LEMMA TypeAssign ==
    ASSUME TypeOK, NEW r \in Requests, Assign(r)
    PROVE  TypeOK'
<1>1. PICK hd \in [Wallets -> Heads], fr \in [Wallets -> Heads \cup {Unset}],
           w \in Wallets, n \in Nonces, f \in Heads \cup {Unset} : Assigned(r, hd, fr, w, n, f)
  BY AssignShape
<1>2. /\ head' \in [Wallets -> Heads \cup {Unset}]
      /\ frontier' \in [Wallets -> Heads \cup {Unset}]
  BY <1>1, Ranges DEF Assigned
<1>3. intent' \in [Wallets -> [Nonces -> IntentStates]]
      /\ hasTxid' \in [Wallets -> SUBSET Nonces]
  BY <1>1, LedgerAssignType DEF Assigned
<1>4. [pc |-> "sign", w |-> w, n |-> n, todo |-> {}] \in ReqType
  BY DEF ReqType
<1>5. req' \in [Requests -> ReqType]
  BY <1>1, <1>4 DEF TypeOK, Assigned
<1>6. UNCHANGED <<queued, executed, pool>>
  BY DEF Assign, chain
<1> QED BY <1>2, <1>3, <1>5, <1>6 DEF TypeOK

\* So does a refused one.
LEMMA TypeAssignRefused ==
    ASSUME TypeOK, NEW r \in Requests, AssignRefused(r)
    PROVE  TypeOK'
<1>1. PICK hiro \in Answers, w \in Wallets :
         LET hd == SeededHead(hiro, WalletCount)
             fr == SeededFrontier(hiro, WalletCount)
         IN /\ \A v \in Unseeded : hiro[v] # Unset
            /\ head' = hd
            /\ \/ frontier' = fr
               \/ \E next \in NextAnswers(w, fr) \ {Unset} :
                    frontier' = [fr EXCEPT ![w] = AdvanceFrontier(@, next)]
  BY DEF AssignRefused
<1> DEFINE hd == SeededHead(hiro, WalletCount)
           fr == SeededFrontier(hiro, WalletCount)
<1>2. hd \in [Wallets -> Heads] /\ fr \in [Wallets -> Heads \cup {Unset}]
  BY <1>1, AllSeeded
<1>3. head' = hd
      /\ \/ frontier' = fr
         \/ \E next \in NextAnswers(w, fr) \ {Unset} :
              frontier' = [fr EXCEPT ![w] = AdvanceFrontier(@, next)]
  BY <1>1
<1> HIDE DEF hd, fr
<1>4. ASSUME NEW next \in NextAnswers(w, fr) \ {Unset}
      PROVE  AdvanceFrontier(fr[w], next) \in Heads
  <2>1. next \in Heads /\ fr[w] \in Heads \cup {Unset}
    BY <1>2, <1>4, AnswersAreHeads DEF NextAnswers
  <2> QED BY <2>1, AdvanceFrontierType
<1>5. /\ head' \in [Wallets -> Heads \cup {Unset}]
      /\ frontier' \in [Wallets -> Heads \cup {Unset}]
  BY <1>2, <1>3, <1>4
<1>6. UNCHANGED <<intent, hasTxid, queued, req, executed, pool>>
  BY DEF AssignRefused, chain
<1> QED BY <1>5, <1>6 DEF TypeOK

\* A run is a set of nonces of the wallet from its head on, and moves the head
\* past it without reaching the limit.
LEMMA RunShape ==
    ASSUME TypeOK, NEW w \in Wallets, NEW k \in 1 .. MaxRun,
           RunWallet(w), TakeRun(w, k)
    PROVE  \E S \in SUBSET Nonces, h \in Heads :
             /\ head[w] \in Heads /\ head[w] \in S /\ head[w] < h
             /\ \A n \in S : head[w] <= n /\ n < h
             /\ \/ frontier[w] # Unset /\ \A n \in S : n < frontier[w] + ChainingLimit
                \/ frontier[w] = Unset /\ InFlightCount(w) + Cardinality(S) <= ChainingLimit
             /\ head' = [head EXCEPT ![w] = h]
             /\ LedgerAssign(w, S)
             /\ queued' = [queued EXCEPT ![w] = @ \cup S]
<1> DEFINE len == RunLength(w, k)
           S == head[w] .. head[w] + len - 1
<1>1. /\ head[w] \in Heads
      /\ len \in Nat \ {0}
      /\ frontier[w] # Unset => head[w] + len <= frontier[w] + ChainingLimit
      /\ frontier[w] = Unset => InFlightCount(w) + len <= ChainingLimit
  BY RunLengthBound
<1>2. /\ S \subseteq Nonces
      /\ head' = [head EXCEPT ![w] = @ + len]
      /\ LedgerAssign(w, S)
      /\ queued' = [queued EXCEPT ![w] = @ \cup S]
  BY DEF TakeRun
<1> HIDE DEF len
<1>3. head[w] \in Nat /\ frontier[w] \in Int /\ ChainingLimit \in Nat
  <2>1. frontier[w] \in Heads \cup {Unset}
    BY DEF TypeOK
  <2>2. head[w] \in Nat
    BY <1>1, Ranges
  <2>3. frontier[w] \in Int
    BY <2>1, CountsAssumption DEF Heads, Unset
  <2> QED BY <2>2, <2>3, LimitsAssumption
<1>4. head[w] \in S /\ head[w] + len - 1 \in S
  BY <1>1, <1>3
<1>5. head[w] + len \in Heads
  <2>1. head[w] + len - 1 \in Nonces
    BY <1>2, <1>4
  <2>2. (head[w] + len - 1) + 1 \in Heads
    BY <2>1, Ranges
  <2> QED BY <1>1, <1>3, <2>2
<1>6. \A n \in S : head[w] <= n /\ n < head[w] + len
  BY <1>1, <1>3
<1>8. Cardinality(S) = len
  BY <1>1, <1>3, FS_Interval
<1>9. \/ frontier[w] # Unset /\ \A n \in S : n < frontier[w] + ChainingLimit
      \/ frontier[w] = Unset /\ InFlightCount(w) + Cardinality(S) <= ChainingLimit
  BY <1>1, <1>3, <1>8
<1>7. head[w] < head[w] + len
  BY <1>1, <1>3
<1> HIDE DEF S
<1> QED BY <1>1, <1>2, <1>4, <1>5, <1>6, <1>7, <1>9

\* Taking a run keeps the types.
LEMMA TypeRun ==
    ASSUME TypeOK, NEW w \in Wallets, NEW k \in 1 .. MaxRun,
           RunWallet(w), TakeRun(w, k), UNCHANGED frontier
    PROVE  /\ head' \in [Wallets -> Heads \cup {Unset}]
           /\ intent' \in [Wallets -> [Nonces -> IntentStates]]
           /\ hasTxid' \in [Wallets -> SUBSET Nonces]
           /\ queued' \in [Wallets -> SUBSET Nonces]
           /\ head[w] \in Nonces
<1>1. PICK S \in SUBSET Nonces, h \in Heads :
             /\ head[w] \in Heads /\ head[w] \in S
             /\ head' = [head EXCEPT ![w] = h]
             /\ LedgerAssign(w, S)
             /\ queued' = [queued EXCEPT ![w] = @ \cup S]
  BY RunShape
<1>2. head' \in [Wallets -> Heads \cup {Unset}]
  BY <1>1 DEF TypeOK
<1>3. intent' \in [Wallets -> [Nonces -> IntentStates]]
      /\ hasTxid' \in [Wallets -> SUBSET Nonces]
  BY <1>1, LedgerAssignType
<1>4. queued' \in [Wallets -> SUBSET Nonces]
  BY <1>1 DEF TypeOK
<1> QED BY <1>1, <1>2, <1>3, <1>4

\* A reconciliation keeps the types; it moves a head that is set, and sets the
\* frontier.
LEMMA TypeReconcile ==
    ASSUME TypeOK, NEW w \in Wallets, Reconcile(w)
    PROVE  TypeOK'
<1>1. PICK p \in Heads, rows \in [Nonces -> IntentStates], filled \in SUBSET Nonces,
           pend \in SUBSET Nonces, h \in Heads : Effect(w, p, rows, filled, pend, h)
  BY ReconcileEffect
<1>2. AdvanceFrontier(frontier[w], p) \in Heads
  BY AdvanceFrontierType DEF TypeOK
<1>3. head[w] # Unset /\ UNCHANGED <<req, executed>>
      /\ queued' \in [Wallets -> SUBSET Nonces]
  BY ReconcileEffect
<1>4. head' \in [Wallets -> Heads \cup {Unset}]
      /\ frontier' \in [Wallets -> Heads \cup {Unset}]
  BY <1>1, <1>2 DEF Effect, TypeOK
<1>5. intent' \in [Wallets -> [Nonces -> IntentStates]]
  BY <1>1 DEF Effect, TypeOK
<1>6. hasTxid' \in [Wallets -> SUBSET Nonces] /\ pool' \in [Wallets -> SUBSET Nonces]
  BY <1>1 DEF Effect, TypeOK
<1> QED BY <1>3, <1>4, <1>5, <1>6 DEF TypeOK

\* Broadcasting puts a nonce of the wallet in its mempool.
LEMMA NodeAcceptsType ==
    ASSUME TypeOK, NEW w \in Wallets, NEW n \in Nonces, NodeAccepts(w, n)
    PROVE  pool' \in [Wallets -> SUBSET Nonces] /\ UNCHANGED executed
BY DEF NodeAccepts, TypeOK

\* Every step keeps the types.
LEMMA TypeStep ==
    TypeOK /\ [Next]_vars => TypeOK'
<1> SUFFICES ASSUME TypeOK, [Next]_vars
             PROVE  TypeOK'
  OBVIOUS
<1>1. CASE UNCHANGED vars
  BY <1>1 DEF vars, ledger, chain, TypeOK
<1>2. ASSUME NEW r \in Requests, WorkerNext(r)
      PROVE  TypeOK'
  <2>0. /\ \A calls \in SUBSET Calls : Owes(r, calls) => req' \in [Requests -> ReqType]
        /\ SuccessCalls(r) \in SUBSET Calls /\ FailureCalls \subseteq SUBSET Calls
        /\ req[r] \in ReqType /\ Idle \in ReqType
        /\ req[r].w \in Wallets /\ req[r].n \in Nonces /\ req[r].todo \in SUBSET Calls
    BY OwesType, OwedCalls, CountsAssumption, SMT
       DEF TypeOK, ReqType, Idle, Wallets, Nonces
  <2>1. CASE AssignSeedFails(r)
    BY <2>1, TypeAssignSeedFails
  <2>2. CASE Assign(r)
    BY <2>2, TypeAssign
  <2>3. CASE AssignRefused(r)
    BY <2>3, TypeAssignRefused
  <2>4. CASE HandSubmit(r)
    <3>1. PICK w \in Wallets, k \in 1 .. MaxRun :
             /\ RunWallet(w)
             /\ TakeRun(w, k)
             /\ req' = [req EXCEPT ![r] = [pc |-> "sign", w |-> w, n |-> head[w], todo |-> {}]]
      BY <2>4 DEF HandSubmit
    <3>2. UNCHANGED <<frontier, executed, pool>>
      BY <2>4 DEF HandSubmit, chain
    <3>3. /\ head' \in [Wallets -> Heads \cup {Unset}]
          /\ intent' \in [Wallets -> [Nonces -> IntentStates]]
          /\ hasTxid' \in [Wallets -> SUBSET Nonces]
          /\ queued' \in [Wallets -> SUBSET Nonces]
          /\ head[w] \in Nonces
      BY <3>1, <3>2, TypeRun
    <3>4. [pc |-> "sign", w |-> w, n |-> head[w], todo |-> {}] \in ReqType
      BY <3>3 DEF ReqType
    <3>5. req' \in [Requests -> ReqType]
      BY <3>1, <3>4 DEF TypeOK
    <3> QED BY <3>2, <3>3, <3>5 DEF TypeOK
  <2>5. CASE AbandonBeforeBroadcast(r) \/ BroadcastRejected(r)
    <3>1. req' \in [Requests -> ReqType]
      BY <2>0, <2>5 DEF AbandonBeforeBroadcast, BroadcastRejected, Calls
    <3> QED BY <2>5, <3>1
            DEF AbandonBeforeBroadcast, BroadcastRejected, ledger, chain, TypeOK
  <2>6. CASE BroadcastAccepted(r) \/ BroadcastAckLost(r)
    <3>1. req' \in [Requests -> ReqType]
      BY <2>0, <2>6 DEF BroadcastAccepted, BroadcastAckLost, Calls
    <3>2. pool' \in [Wallets -> SUBSET Nonces] /\ UNCHANGED executed
      BY <2>0, <2>6, NodeAcceptsType DEF BroadcastAccepted, BroadcastAckLost
    <3> QED BY <2>6, <3>1, <3>2
            DEF BroadcastAccepted, BroadcastAckLost, ledger, TypeOK
  <2>7. ASSUME NEW call \in req[r].todo, AfterCall(r, call)
        PROVE  req' \in [Requests -> ReqType]
    BY <2>0, <2>7 DEF AfterCall
  <2>8. CASE Deliver(r)
    <3>1. PICK call \in req[r].todo :
             HandleCall(req[r].w, req[r].n, call) /\ AfterCall(r, call)
      BY <2>8 DEF Deliver
    <3>2. /\ intent' \in [Wallets -> [Nonces -> IntentStates]]
          /\ hasTxid' \in [Wallets -> SUBSET Nonces]
          /\ queued' \in [Wallets -> SUBSET Nonces]
      BY <2>0, <3>1, HandleCallType
    <3> QED BY <2>7, <2>8, <3>1, <3>2 DEF Deliver, chain, TypeOK
  <2>9. CASE Lose(r)
    BY <2>7, <2>9 DEF Lose, ledger, chain, TypeOK
  <2>10. CASE WorkerDies(r)
    <3>1. req' \in [Requests -> ReqType]
      BY <2>0, <2>10 DEF WorkerDies, TypeOK
    <3> QED BY <2>10, <3>1 DEF WorkerDies, ledger, chain, TypeOK
  <2> QED BY <1>2, <2>1, <2>2, <2>3, <2>4, <2>5, <2>6, <2>8, <2>9, <2>10 DEF WorkerNext
<1>3. ASSUME NEW w \in Wallets, QuarantineOrphan(w)
      PROVE  TypeOK'
  <2>1. PICK n \in pool[w] \ hasTxid[w] :
         /\ intent' = [intent EXCEPT ![w][n] =
                         IF @ \in {"none", "confirmed", "failed"} THEN @ ELSE "conflict"]
         /\ head' = [head EXCEPT ![w] = IF @ <= n THEN n + 1 ELSE @]
         /\ queued' = [queued EXCEPT ![w] = @ \ {n}]
    BY <1>3 DEF QuarantineOrphan
  <2>2. n \in Nonces /\ head[w] \in Heads /\ head[w] # Unset
    BY <1>3 DEF QuarantineOrphan, TypeOK
  <2> DEFINE s == IF intent[w][n] \in {"none", "confirmed", "failed"}
                    THEN intent[w][n] ELSE "conflict"
             h == IF head[w] <= n THEN n + 1 ELSE head[w]
  <2>3. s \in IntentStates /\ h \in Heads
    BY <2>2, Ranges DEF TypeOK, IntentStates
  <2>4. intent' = [intent EXCEPT ![w][n] = s] /\ head' = [head EXCEPT ![w] = h]
    BY <2>1
  <2> HIDE DEF s, h
  <2>5. intent' \in [Wallets -> [Nonces -> IntentStates]]
        /\ queued' \in [Wallets -> SUBSET Nonces]
    BY <2>1, <2>2, <2>3, <2>4, OneRow
  <2>6. head' \in [Wallets -> Heads \cup {Unset}]
    BY <2>3, <2>4 DEF TypeOK
  <2> QED BY <1>3, <2>5, <2>6 DEF QuarantineOrphan, chain, TypeOK
<1>4. ASSUME NEW w \in Wallets, BroadcastQueued(w)
      PROVE  TypeOK'
  <2>1. PICK n \in queued[w] :
         \/ /\ NodeAccepts(w, n)
            /\ queued' = [queued EXCEPT ![w] = @ \ {n}]
            /\ IF intent[w][n] \in {"assigned", "broadcasted"}
                 THEN /\ intent' = [intent EXCEPT ![w][n] = "broadcasted"]
                      /\ hasTxid' = [hasTxid EXCEPT ![w] = @ \cup {n}]
                 ELSE UNCHANGED <<intent, hasTxid>>
         \/ /\ queued' = [queued EXCEPT ![w] = @ \ {n}]
            /\ ReleaseNonce(w, n, "release_reason")
            /\ UNCHANGED chain
         \/ /\ NodeAccepts(w, n)
            /\ UNCHANGED <<queued, intent, hasTxid>>
    BY <1>4 DEF BroadcastQueued
  <2>2. n \in Nonces /\ "broadcasted" \in IntentStates
    BY DEF TypeOK, IntentStates
  <2>3. UNCHANGED <<head, frontier, req>>
    BY <1>4 DEF BroadcastQueued
  <2>4. pool' \in [Wallets -> SUBSET Nonces] /\ UNCHANGED executed
    BY <2>1, <2>2, NodeAcceptsType DEF chain, TypeOK
  <2>5. /\ [intent EXCEPT ![w][n] = "broadcasted"] \in [Wallets -> [Nonces -> IntentStates]]
        /\ [hasTxid EXCEPT ![w] = @ \cup {n}] \in [Wallets -> SUBSET Nonces]
        /\ [queued EXCEPT ![w] = @ \ {n}] \in [Wallets -> SUBSET Nonces]
    BY <2>2, OneRow
  <2>6. ReleaseNonce(w, n, "release_reason")
          => /\ intent' \in [Wallets -> [Nonces -> IntentStates]]
             /\ hasTxid' \in [Wallets -> SUBSET Nonces]
    BY <2>2, ReleaseType
  <2>7. /\ intent' \in [Wallets -> [Nonces -> IntentStates]]
        /\ hasTxid' \in [Wallets -> SUBSET Nonces]
        /\ queued' \in [Wallets -> SUBSET Nonces]
    BY <2>1, <2>5, <2>6 DEF TypeOK
  <2> QED BY <2>3, <2>4, <2>7 DEF TypeOK
<1>5. CASE SweepHeldRun
  <2>1. PICK w \in Wallets, k \in 1 .. MaxRun : RunWallet(w) /\ TakeRun(w, k)
    BY <1>5 DEF SweepHeldRun
  <2>2. UNCHANGED <<frontier, req, executed, pool>>
    BY <1>5 DEF SweepHeldRun, chain
  <2> QED BY <2>1, <2>2, TypeRun DEF TypeOK
<1>6. CASE Reset
  BY <1>6 DEF Reset, chain, TypeOK
<1>7. CASE ClearPools
  BY <1>7 DEF ClearPools, chain, TypeOK, IntentStates
<1>8. ASSUME NEW w \in Wallets, Execute(w)
      PROVE  TypeOK'
  <2>1. executed[w] \in Nonces
    BY <1>8 DEF Execute, TypeOK
  <2>2. executed' \in [Wallets -> Heads] /\ pool' \in [Wallets -> SUBSET Nonces]
    BY <1>8, <2>1, Ranges DEF Execute, TypeOK
  <2> QED BY <1>8, <2>2 DEF Execute, ledger, TypeOK
<1>9. ASSUME NEW w \in Wallets, Evict(w) \/ ForeignBroadcast(w)
      PROVE  TypeOK'
  <2>1. ForeignNonces \subseteq Nonces
    BY CountsAssumption DEF Nonces
  <2>2. CASE Evict(w)
    BY <2>2 DEF Evict, ledger, TypeOK
  <2>3. CASE ForeignBroadcast(w)
    <3>1. pool' \in [Wallets -> SUBSET Nonces] /\ UNCHANGED executed
      BY <2>1, <2>3, NodeAcceptsType DEF ForeignBroadcast
    <3> QED BY <2>3, <3>1 DEF ForeignBroadcast, ledger, TypeOK
  <2> QED BY <1>9, <2>2, <2>3
<1>10. ASSUME NEW w \in Wallets, SeedByReconcile(w)
       PROVE  TypeOK'
  <2>1. PICK p \in PossibleNext(w) :
           /\ head' = [head EXCEPT ![w] = p]
           /\ frontier' = [frontier EXCEPT ![w] = AdvanceFrontier(@, p)]
    BY <1>10 DEF SeedByReconcile
  <2>2. p \in Heads
    BY AnswersAreHeads
  <2>3. AdvanceFrontier(frontier[w], p) \in Heads
    BY <2>2, AdvanceFrontierType DEF TypeOK
  <2> QED BY <1>10, <2>1, <2>2, <2>3 DEF SeedByReconcile, chain, TypeOK
<1> QED
  BY <1>1, <1>2, <1>3, <1>4, <1>5, <1>6, <1>7, <1>8, <1>9, <1>10, TypeReconcile
     DEF Next, ObjectNext, ChainNext

\* Every variable keeps its type.
THEOREM TypeCorrect == Spec => []TypeOK
<1>1. Init => TypeOK
  BY TypeInit
<1>2. TypeOK /\ [Next]_vars => TypeOK'
  BY TypeStep
<1> QED BY <1>1, <1>2, PTL DEF Spec

--------------------------------------------------------------------------------
(* Who owns which nonce.                                                    *)

\* An invocation's nonce is below the head of its wallet.
BusyBelowHead == \A r \in Requests : Busy(r) => req[r].n < head[req[r].w]

\* The steps that may lower a head.
Lowers == (\E w \in Wallets : Reconcile(w)) \/ Reset \/ ClearPools

\* Heads go down only when no invocation is left.
LEMMA HeadsStep ==
    ASSUME TypeOK, [Next]_vars
    PROVE  \/ SystemIdle /\ UNCHANGED req /\ Lowers
           \/ \A w \in Wallets : head[w] <= head'[w]
<1> DEFINE Up == \A w \in Wallets : head[w] <= head'[w]
<1>0. /\ head \in [Wallets -> Heads \cup {Unset}]
      /\ \A h \in Heads \cup {Unset} : h \in Int /\ (h # Unset => h >= 0) /\ Unset <= h
  BY CountsAssumption, SMT DEF TypeOK, Heads, Unset
<1>1. CASE UNCHANGED head
  BY <1>0, <1>1
<1>2. ASSUME NEW h \in [Wallets -> Heads \cup {Unset}], head' = h,
             \A v \in Wallets : head[v] # Unset => h[v] = head[v]
      PROVE  Up
  BY <1>0, <1>2
<1>3. ASSUME NEW r \in Requests, AssignSeedFails(r)
      PROVE  Up
  <2>1. PICK hiro \in Answers, k \in Unseeded :
           /\ \A w \in Unseeded : w < k => hiro[w] # Unset
           /\ head' = SeededHead(hiro, k)
    BY <1>3 DEF AssignSeedFails
  <2>2. k \in Nat
    BY Ranges DEF Unseeded
  <2> QED BY <1>2, <2>1, <2>2, Seeding
<1>4. ASSUME NEW r \in Requests, Assign(r)
      PROVE  Up
  <2>1. PICK hd \in [Wallets -> Heads], fr \in [Wallets -> Heads \cup {Unset}],
             w \in Wallets, n \in Nonces, f \in Heads \cup {Unset} : Assigned(r, hd, fr, w, n, f)
    BY <1>4, AssignShape
  <2>2. /\ \A v \in Wallets : head[v] # Unset => hd[v] = head[v]
        /\ head' = [hd EXCEPT ![w] = n + 1] /\ hd[w] <= n
    BY <2>1 DEF Assigned
  <2>3. n \in Nat /\ hd[w] \in Nat
    BY Ranges
  <2> QED BY <1>0, <2>2, <2>3
<1>5. ASSUME NEW r \in Requests, AssignRefused(r)
      PROVE  Up
  <2>1. PICK hiro \in Answers :
           /\ \A v \in Unseeded : hiro[v] # Unset
           /\ head' = SeededHead(hiro, WalletCount)
    BY <1>5 DEF AssignRefused
  <2> DEFINE h == SeededHead(hiro, WalletCount)
  <2>2. h \in [Wallets -> Heads] /\ \A v \in Wallets : head[v] # Unset => h[v] = head[v]
    BY <2>1, AllSeeded
  <2> HIDE DEF h
  <2>3. head' = h
    BY <2>1 DEF h
  <2> QED BY <1>0, <2>2, <2>3
<1>6. ASSUME NEW w \in Wallets, NEW k \in 1 .. MaxRun, RunWallet(w), TakeRun(w, k)
      PROVE  Up
  <2>1. PICK h \in Heads : head[w] < h /\ head' = [head EXCEPT ![w] = h]
    BY <1>6, RunShape
  <2> QED BY <1>0, <2>1
<1>7. ASSUME NEW w \in Wallets, Reconcile(w)
      PROVE  (SystemIdle /\ UNCHANGED req /\ Lowers) \/ Up
  <2>1. PICK p \in Heads, rows \in [Nonces -> IntentStates], filled \in SUBSET Nonces,
             pend \in SUBSET Nonces, h \in Heads : Effect(w, p, rows, filled, pend, h)
    BY <1>7, ReconcileEffect
  <2>2. UNCHANGED req
    BY <1>7, ReconcileEffect
  <2>3. head' = [head EXCEPT ![w] = h] /\ (h = head[w] \/ HeadMoves(w, rows, p, h))
    BY <2>1 DEF Effect
  <2>4. SystemIdle \/ head[w] <= h
    BY <1>0, <2>3 DEF HeadMoves
  <2>5. Lowers
    BY <1>7 DEF Lowers
  <2> QED BY <1>0, <2>2, <2>3, <2>4, <2>5
<1>8. ASSUME NEW w \in Wallets, QuarantineOrphan(w)
      PROVE  Up
  <2>1. PICK n \in pool[w] : head' = [head EXCEPT ![w] = IF @ <= n THEN n + 1 ELSE @]
    BY <1>8 DEF QuarantineOrphan
  <2>2. n \in Nat
    BY Ranges DEF TypeOK
  <2> QED BY <1>0, <2>1, <2>2
<1>9. CASE Reset \/ ClearPools
  BY <1>9 DEF Reset, ClearPools, Quiescent, Lowers
<1>10. ASSUME NEW r \in Requests, HandSubmit(r)
       PROVE  Up
  BY <1>6, <1>10 DEF HandSubmit
<1>11. CASE SweepHeldRun
  BY <1>6, <1>11 DEF SweepHeldRun
<1>16. ASSUME NEW w \in Wallets, SeedByReconcile(w)
       PROVE  Up
  <2>1. PICK p \in PossibleNext(w) : head[w] = Unset /\ head' = [head EXCEPT ![w] = p]
    BY <1>16 DEF SeedByReconcile
  <2>2. p \in Heads
    BY AnswersAreHeads
  <2> QED BY <1>0, <2>1, <2>2
<1>12. ASSUME NEW r \in Requests,
              \/ AbandonBeforeBroadcast(r) \/ BroadcastAccepted(r) \/ BroadcastAckLost(r)
              \/ BroadcastRejected(r) \/ Deliver(r) \/ Lose(r) \/ WorkerDies(r)
       PROVE  UNCHANGED head
  BY <1>12 DEF AbandonBeforeBroadcast, BroadcastAccepted, BroadcastAckLost,
               BroadcastRejected, Deliver, Lose, WorkerDies, ledger
<1>13. ASSUME NEW w \in Wallets,
              BroadcastQueued(w) \/ Execute(w) \/ Evict(w) \/ ForeignBroadcast(w)
       PROVE  UNCHANGED head
  BY <1>13 DEF BroadcastQueued, Execute, Evict, ForeignBroadcast, ledger
<1>14. CASE UNCHANGED vars
  BY <1>1, <1>14 DEF vars, ledger
<1> HIDE DEF Up
<1>15. CASE Next
  <2>1. CASE \E r \in Requests : WorkerNext(r)
    BY <1>1, <1>3, <1>4, <1>5, <1>10, <1>12, <2>1 DEF WorkerNext, Up
  <2>2. CASE ObjectNext
    BY <1>1, <1>7, <1>8, <1>9, <1>11, <1>13, <1>16, <2>2 DEF ObjectNext, Up
  <2>3. CASE ChainNext
    BY <1>1, <1>13, <2>3 DEF ChainNext, Up
  <2> QED BY <1>15, <2>1, <2>2, <2>3 DEF Next
<1> QED BY <1>14, <1>15

\* A step changes one invocation, which ends, keeps its nonce, or takes a nonce
\* at or above the head that the step leaves below it.
Fresh(r) ==
    /\ req'[r].w \in Wallets
    /\ head[req'[r].w] <= req'[r].n
    /\ req'[r].n < head'[req'[r].w]
KeepsNonce(r) == Busy(r) /\ req'[r].w = req[r].w /\ req'[r].n = req[r].n

\* Every step is such a step.
LEMMA ReqStep ==
    ASSUME TypeOK, [Next]_vars
    PROVE  \/ UNCHANGED req
           \/ \E r \in Requests :
                /\ \A s \in Requests \ {r} : req'[s] = req[s]
                /\ req'[r].pc = "idle" \/ KeepsNonce(r) \/ Fresh(r)
<1> DEFINE Step(r) == /\ \A s \in Requests \ {r} : req'[s] = req[s]
                      /\ req'[r].pc = "idle" \/ KeepsNonce(r) \/ Fresh(r)
<1>0. req \in [Requests -> ReqType] /\ Idle.pc = "idle"
  BY DEF TypeOK, Idle
<1>1. ASSUME NEW r \in Requests, NEW calls, Busy(r), Owes(r, calls)
      PROVE  Step(r)
  <2>1. CASE calls = {}
    BY <1>0, <1>1, <2>1 DEF Owes
  <2>2. CASE calls # {}
    <3>1. req'[r] = [req[r] EXCEPT !.pc = "report", !.todo = calls]
      BY <1>0, <1>1, <2>2 DEF Owes
    <3>2. req[r] \in ReqType
      BY <1>0
    <3>3. req'[r].w = req[r].w /\ req'[r].n = req[r].n
      BY <3>1, <3>2 DEF ReqType
    <3>4. \A s \in Requests \ {r} : req'[s] = req[s]
      BY <1>0, <1>1 DEF Owes
    <3> QED BY <1>1, <3>3, <3>4 DEF KeepsNonce
  <2> QED BY <2>1, <2>2
<1>2. ASSUME NEW r \in Requests, Assign(r)
      PROVE  Step(r)
  <2>1. PICK hd \in [Wallets -> Heads], fr \in [Wallets -> Heads \cup {Unset}],
             w \in Wallets, n \in Nonces, f \in Heads \cup {Unset} : Assigned(r, hd, fr, w, n, f)
    BY <1>2, AssignShape
  <2>2. /\ \A v \in Wallets : head[v] # Unset => hd[v] = head[v]
        /\ head' = [hd EXCEPT ![w] = n + 1] /\ hd[w] <= n
        /\ req' = [req EXCEPT ![r] = [pc |-> "sign", w |-> w, n |-> n, todo |-> {}]]
    BY <2>1 DEF Assigned
  <2>3. n \in Nat /\ hd[w] \in Nat
    BY Ranges
  <2>4. head[w] <= n /\ head'[w] = n + 1
    <3>1. CASE head[w] = Unset
      BY <2>2, <2>3, <3>1 DEF Unset
    <3>2. CASE head[w] # Unset
      BY <2>2, <3>2
    <3> QED BY <3>1, <3>2
  <2>5. req'[r].w = w /\ req'[r].n = n
    BY <1>0, <2>2
  <2>6. Fresh(r)
    BY <2>3, <2>4, <2>5 DEF Fresh
  <2> QED BY <1>0, <2>2, <2>6
<1>3. ASSUME NEW r \in Requests, HandSubmit(r)
      PROVE  Step(r)
  <2>1. PICK w \in Wallets, k \in 1 .. MaxRun :
           /\ RunWallet(w)
           /\ TakeRun(w, k)
           /\ req' = [req EXCEPT ![r] = [pc |-> "sign", w |-> w, n |-> head[w], todo |-> {}]]
    BY <1>3 DEF HandSubmit
  <2>2. PICK h \in Heads : head[w] \in Heads /\ head[w] < h /\ head' = [head EXCEPT ![w] = h]
    BY <2>1, RunShape
  <2>3. req'[r].w = w /\ req'[r].n = head[w]
    BY <1>0, <2>1
  <2>4. head'[w] = h /\ head[w] \in Nat
    BY <2>2, Ranges DEF TypeOK
  <2>5. Fresh(r)
    BY <2>2, <2>3, <2>4 DEF Fresh
  <2> QED BY <1>0, <2>1, <2>5
<1>4. ASSUME NEW r \in Requests, WorkerDies(r)
      PROVE  Step(r)
  BY <1>0, <1>4 DEF WorkerDies
<1>5. ASSUME NEW r \in Requests, NEW call \in req[r].todo, AfterCall(r, call), Busy(r)
      PROVE  Step(r)
  BY <1>1, <1>5 DEF AfterCall
<1>6. ASSUME NEW r \in Requests,
             AbandonBeforeBroadcast(r) \/ BroadcastAccepted(r) \/ BroadcastAckLost(r)
               \/ BroadcastRejected(r)
      PROVE  Step(r)
  <2>1. Busy(r) /\ \E calls : Owes(r, calls)
    BY <1>6 DEF AbandonBeforeBroadcast, BroadcastAccepted, BroadcastAckLost,
                BroadcastRejected, Signing, Busy
  <2> QED BY <1>1, <2>1
<1> HIDE DEF Step
<1>7. ASSUME NEW r \in Requests, Deliver(r) \/ Lose(r)
      PROVE  Step(r)
  BY <1>5, <1>7 DEF Deliver, Lose, Reporting, Busy
<1>8. ASSUME NEW r \in Requests, AssignSeedFails(r) \/ AssignRefused(r)
      PROVE  UNCHANGED req
  BY <1>8 DEF AssignSeedFails, AssignRefused
<1>9. CASE ObjectNext \/ ChainNext
  BY <1>9 DEF ObjectNext, ChainNext, SeedByReconcile, Reconcile, QuarantineOrphan, BroadcastQueued,
              SweepHeldRun, Reset, ClearPools, Execute, Evict, ForeignBroadcast
<1>10. CASE UNCHANGED vars
  BY <1>10 DEF vars
<1>11. ASSUME NEW r \in Requests, WorkerNext(r)
       PROVE  UNCHANGED req \/ Step(r)
  BY <1>2, <1>3, <1>4, <1>6, <1>7, <1>8, <1>11 DEF WorkerNext
<1> QED BY <1>9, <1>10, <1>11 DEF Next, Step

\* Ownership is inductive on top of the types.
LEMMA OwnershipStep ==
    TypeOK /\ BusyBelowHead /\ NoSharedNonce /\ [Next]_vars
      => BusyBelowHead' /\ NoSharedNonce'
<1> SUFFICES ASSUME TypeOK, BusyBelowHead, NoSharedNonce, [Next]_vars
             PROVE  BusyBelowHead' /\ NoSharedNonce'
  OBVIOUS
<1>0. /\ \A w \in Wallets : head[w] \in Int /\ head'[w] \in Int
      /\ \A r \in Requests : req[r].w \in Wallets /\ req[r].n \in Nat
      /\ \A r \in Requests : req'[r].w \in Wallets /\ req'[r].n \in Nat
  <2>1. TypeOK'
    BY TypeStep
  <2>2. Heads \cup {Unset} \subseteq Int /\ Nonces \subseteq Nat
    BY CountsAssumption, SMT DEF Heads, Unset, Nonces
  <2> QED BY <2>1, <2>2 DEF TypeOK, ReqType
<1>1. CASE SystemIdle /\ UNCHANGED req
  BY <1>1 DEF SystemIdle, Busy, BusyBelowHead, NoSharedNonce
<1>2. CASE \A w \in Wallets : head[w] <= head'[w]
  <2>1. ASSUME NEW s \in Requests, Busy(s)
        PROVE  req[s].n < head[req[s].w] /\ req[s].n < head'[req[s].w]
    BY <1>0, <1>2, <2>1 DEF BusyBelowHead
  <2>2. CASE UNCHANGED req
    BY <2>1, <2>2 DEF Busy, BusyBelowHead, NoSharedNonce
  <2>3. ASSUME NEW r \in Requests,
               \A s \in Requests \ {r} : req'[s] = req[s],
               req'[r].pc = "idle" \/ KeepsNonce(r) \/ Fresh(r)
        PROVE  BusyBelowHead' /\ NoSharedNonce'
    <3>1. ASSUME NEW s \in Requests \ {r}
          PROVE  Busy(s)' = Busy(s) /\ req'[s] = req[s]
      BY <2>3 DEF Busy
    <3>2. CASE req'[r].pc = "idle"
      BY <2>1, <3>1, <3>2 DEF Busy, BusyBelowHead, NoSharedNonce
    <3>3. CASE KeepsNonce(r)
      <4>1. BusyBelowHead'
        BY <2>1, <3>1, <3>3 DEF BusyBelowHead, KeepsNonce
      <4>2. ASSUME NEW s \in Requests \ {r}, Busy(s)
            PROVE  <<req'[r].w, req'[r].n>> # <<req[s].w, req[s].n>>
        BY <3>3, <4>2 DEF KeepsNonce, NoSharedNonce
      <4> QED BY <3>1, <4>1, <4>2 DEF NoSharedNonce
    <3>4. CASE Fresh(r)
      <4>1. BusyBelowHead'
        BY <2>1, <3>1, <3>4 DEF BusyBelowHead, Fresh
      <4>2. ASSUME NEW s \in Requests \ {r}, Busy(s)
            PROVE  <<req'[r].w, req'[r].n>> # <<req[s].w, req[s].n>>
        <5>1. req[s].n < head[req[s].w] /\ head[req'[r].w] <= req'[r].n
          BY <2>1, <3>4, <4>2 DEF Fresh
        <5> QED BY <1>0, <5>1
      <4> QED BY <3>1, <4>1, <4>2 DEF NoSharedNonce
    <3> QED BY <2>3, <3>2, <3>3, <3>4
  <2> QED BY <2>2, <2>3, ReqStep
<1> QED BY <1>1, <1>2, HeadsStep

\* No two invocations ever own the same nonce of a wallet.
THEOREM NonceIsOwnedOnce == Spec => []NoSharedNonce
<1> DEFINE Inv == TypeOK /\ BusyBelowHead /\ NoSharedNonce
<1>1. Init => Inv
  <2>1. Init => BusyBelowHead /\ NoSharedNonce
    BY DEF Init, Idle, Busy, BusyBelowHead, NoSharedNonce
  <2> QED BY <2>1, TypeInit
<1>2. Inv /\ [Next]_vars => Inv'
  BY TypeStep, OwnershipStep
<1>3. Inv => NoSharedNonce
  OBVIOUS
<1> QED BY <1>1, <1>2, <1>3, PTL DEF Spec

--------------------------------------------------------------------------------
(* Rows.                                                                    *)

\* No row is newly assigned.
NoneAssigned ==
    \A v \in Wallets, m \in Nonces : intent'[v][m] = "assigned" => intent[v][m] = "assigned"

\* Assigning a set of rows assigns no other, and their txids go.
LEMMA LedgerAssignRows ==
    ASSUME TypeOK, TxidMatchesState, NEW w \in Wallets, NEW S \in SUBSET Nonces,
           LedgerAssign(w, S)
    PROVE  /\ TxidMatchesState'
           /\ \A v \in Wallets, m \in Nonces :
                intent'[v][m] = "assigned"
                  => intent[v][m] = "assigned" \/ (v = w /\ m \in S)
<1>1. ASSUME NEW v \in Wallets, NEW m \in Nonces
      PROVE  \/ v = w /\ m \in S /\ intent'[v][m] = "assigned" /\ m \notin hasTxid'[v]
             \/ /\ intent'[v][m] = intent[v][m]
                /\ m \in hasTxid'[v] <=> m \in hasTxid[v]
  <2>1. CASE v = w
    <3>1. intent'[v][m] = IF m \in S THEN "assigned" ELSE intent[v][m]
      BY <2>1 DEF LedgerAssign, TypeOK
    <3>2. hasTxid'[v] = hasTxid[v] \ S
      BY <2>1 DEF LedgerAssign, TypeOK
    <3> QED BY <2>1, <3>1, <3>2
  <2>2. CASE v # w
    BY <2>2 DEF LedgerAssign, TypeOK
  <2> QED BY <2>1, <2>2
<1>2. TxidMatchesState'
  BY <1>1 DEF TxidMatchesState
<1> QED BY <1>1, <1>2

\* Changing one row to s, and adding its txid or not, keeps rows and txids matched
\* when s allows it.
LEMMA OneRowMatches ==
    ASSUME TypeOK, TxidMatchesState, NEW w \in Wallets, NEW n \in Nonces,
           NEW s \in {"broadcasted", "confirmed", "conflict", "failed", "expired"},
           intent' = [intent EXCEPT ![w][n] = s],
           \/ hasTxid' = [hasTxid EXCEPT ![w] = @ \cup {n}]
           \/ UNCHANGED hasTxid /\ s \in {"conflict", "failed", "expired"}
    PROVE  TxidMatchesState' /\ NoneAssigned
<1>1. ASSUME NEW v \in Wallets, NEW m \in Nonces
      PROVE  \/ v = w /\ m = n /\ intent'[v][m] = s
             \/ /\ intent'[v][m] = intent[v][m]
                /\ m \in hasTxid'[v] <=> m \in hasTxid[v]
  <2>1. intent'[v][m] = IF v = w /\ m = n THEN s ELSE intent[v][m]
    BY DEF TypeOK
  <2>2. ~(v = w /\ m = n) => (m \in hasTxid'[v] <=> m \in hasTxid[v])
    BY DEF TypeOK
  <2> QED BY <2>1, <2>2
<1>2. s \in {"broadcasted", "confirmed"} => n \in hasTxid'[w]
  BY DEF TypeOK
<1> QED BY <1>1, <1>2 DEF TxidMatchesState, NoneAssigned

\* A release assigns no row and keeps rows and txids matched.
LEMMA ReleaseRows ==
    ASSUME TypeOK, TxidMatchesState, NEW w \in Wallets, NEW n \in Nonces,
           NEW call \in {"release_ok", "release_plain", "release_reason"},
           ReleaseNonce(w, n, call)
    PROVE  TxidMatchesState' /\ NoneAssigned
<1>1. CASE intent[w][n] # "assigned"
  BY <1>1 DEF ReleaseNonce, TxidMatchesState, NoneAssigned
<1>2. CASE intent[w][n] = "assigned"
  <2> DEFINE s == ReleasedState(call)
  <2>1. /\ s \in {"confirmed", "expired", "failed"}
        /\ call # "release_ok" => s \in {"expired", "failed"}
    BY DEF ReleasedState
  <2>2. /\ intent' = [intent EXCEPT ![w][n] = s]
        /\ hasTxid' = IF call = "release_ok"
                        THEN [hasTxid EXCEPT ![w] = @ \cup {n}] ELSE hasTxid
    BY <1>2 DEF ReleaseNonce
  <2> HIDE DEF s
  <2> QED BY <2>1, <2>2, OneRowMatches
<1> QED BY <1>1, <1>2

\* So does every call a Worker makes.
LEMMA HandleCallRows ==
    ASSUME TypeOK, TxidMatchesState, NEW w \in Wallets, NEW n \in Nonces, NEW call,
           HandleCall(w, n, call)
    PROVE  TxidMatchesState' /\ NoneAssigned
<1>1. ASSUME UNCHANGED <<intent, hasTxid>>
      PROVE  TxidMatchesState' /\ NoneAssigned
  BY <1>1 DEF TxidMatchesState, NoneAssigned
<1>2. ASSUME NEW s \in {"broadcasted", "conflict", "failed"}, BroadcastOutcome(w, n, s)
      PROVE  TxidMatchesState' /\ NoneAssigned
  <2>1. CASE intent[w][n] \in {"assigned", "broadcasted"}
    <3>1. /\ intent' = [intent EXCEPT ![w][n] = s]
          /\ \/ hasTxid' = [hasTxid EXCEPT ![w] = @ \cup {n}]
             \/ UNCHANGED hasTxid /\ s \in {"conflict", "failed", "expired"}
      BY <1>2, <2>1 DEF BroadcastOutcome
    <3> QED BY <3>1, OneRowMatches
  <2>2. CASE intent[w][n] \notin {"assigned", "broadcasted"}
    BY <1>1, <1>2, <2>2 DEF BroadcastOutcome
  <2> QED BY <2>1, <2>2
<1> QED BY <1>1, <1>2, ReleaseRows DEF HandleCall

\* So does a reconciliation.
LEMMA ReconcileRows ==
    ASSUME TypeOK, TxidMatchesState, NEW w \in Wallets, Reconcile(w)
    PROVE  TxidMatchesState' /\ NoneAssigned
<1>1. PICK p \in Heads, rows \in [Nonces -> IntentStates], filled \in SUBSET Nonces,
           pend \in SUBSET Nonces, h \in Heads : Effect(w, p, rows, filled, pend, h)
  BY ReconcileEffect
<1>2. ASSUME NEW v \in Wallets, NEW m \in Nonces, v # w
      PROVE  intent'[v][m] = intent[v][m] /\ hasTxid'[v] = hasTxid[v]
  BY <1>1, <1>2 DEF Effect, TypeOK
<1>3. intent'[w] = rows /\ hasTxid'[w] = hasTxid[w] \cup filled
  BY <1>1 DEF Effect, TypeOK
<1>4. ASSUME NEW m \in Nonces
      PROVE  Justified(w, m, rows[m], filled)
  BY <1>1 DEF Effect
<1>5. ASSUME NEW m \in Nonces
      PROVE  /\ intent'[w][m] = "assigned" => intent[w][m] = "assigned"
             /\ intent'[w][m] \in {"none", "assigned", "gap_fill"} => m \notin hasTxid'[w]
             /\ intent'[w][m] \in {"broadcasted", "confirmed"} => m \in hasTxid'[w]
  BY <1>3, <1>4 DEF Justified, TxidMatchesState
<1>6. TxidMatchesState'
  BY <1>2, <1>5 DEF TxidMatchesState
<1>7. NoneAssigned
  BY <1>2, <1>5 DEF NoneAssigned
<1> QED BY <1>6, <1>7

\* So do the rest of the alarm and the operator.
LEMMA ObjectRows ==
    ASSUME TypeOK, TxidMatchesState, NEW w \in Wallets,
           QuarantineOrphan(w) \/ BroadcastQueued(w) \/ Reset \/ ClearPools
    PROVE  TxidMatchesState' /\ NoneAssigned
<1>1. ASSUME UNCHANGED <<intent, hasTxid>>
      PROVE  TxidMatchesState' /\ NoneAssigned
  BY <1>1 DEF TxidMatchesState, NoneAssigned
<1>2. CASE QuarantineOrphan(w)
  <2>1. PICK n \in pool[w] : intent' = [intent EXCEPT ![w][n] =
                         IF @ \in {"none", "confirmed", "failed"} THEN @ ELSE "conflict"]
    BY <1>2 DEF QuarantineOrphan
  <2>2. n \in Nonces /\ UNCHANGED hasTxid
    BY <1>2 DEF QuarantineOrphan, TypeOK
  <2>3. CASE intent[w][n] \in {"none", "confirmed", "failed"}
    <3>1. UNCHANGED intent
      BY <2>1, <2>2, <2>3 DEF TypeOK
    <3> QED BY <1>1, <2>2, <3>1
  <2>4. CASE intent[w][n] \notin {"none", "confirmed", "failed"}
    <3>1. intent' = [intent EXCEPT ![w][n] = "conflict"]
      BY <2>1, <2>4
    <3> QED BY <2>2, <3>1, OneRowMatches
  <2> QED BY <2>3, <2>4
<1>3. CASE BroadcastQueued(w)
  <2>1. PICK n \in queued[w] :
         \/ IF intent[w][n] \in {"assigned", "broadcasted"}
              THEN /\ intent' = [intent EXCEPT ![w][n] = "broadcasted"]
                   /\ hasTxid' = [hasTxid EXCEPT ![w] = @ \cup {n}]
              ELSE UNCHANGED <<intent, hasTxid>>
         \/ ReleaseNonce(w, n, "release_reason")
         \/ UNCHANGED <<intent, hasTxid>>
    BY <1>3 DEF BroadcastQueued
  <2>2. n \in Nonces
    BY DEF TypeOK
  <2>3. ASSUME intent' = [intent EXCEPT ![w][n] = "broadcasted"],
               hasTxid' = [hasTxid EXCEPT ![w] = @ \cup {n}]
        PROVE  TxidMatchesState' /\ NoneAssigned
    BY <2>2, <2>3, OneRowMatches
  <2>4. ASSUME ReleaseNonce(w, n, "release_reason")
        PROVE  TxidMatchesState' /\ NoneAssigned
    BY <2>2, <2>4, ReleaseRows
  <2> QED BY <1>1, <2>1, <2>3, <2>4
<1>4. CASE Reset
  BY <1>1, <1>4 DEF Reset
<1>5. CASE ClearPools
  BY <1>5 DEF ClearPools, TxidMatchesState, NoneAssigned
<1> QED BY <1>2, <1>3, <1>4, <1>5

\* How far a step that leaves nonce m of wallet v assigned may have gone.
StepWithin(v, m) ==
    \/ frontier'[v] # Unset /\ m < frontier'[v] + ChainingLimit
    \/ frontier'[v] # Unset /\ frontier[v] = Unset /\ m <= frontier'[v] + Lookahead
    \/ frontier'[v] = Unset /\ InFlightCount(v)' <= ChainingLimit

\* What a step assigns: nothing, or a row below the head it leaves and within the
\* limit.
NewlyAssignedWithin ==
    \A v \in Wallets, m \in Nonces :
        intent'[v][m] = "assigned" /\ intent[v][m] # "assigned"
          => m < head'[v] /\ StepWithin(v, m)

\* Every step assigns only such rows, and keeps rows and txids matched.
LEMMA RowsStep ==
    ASSUME TypeOK, TxidMatchesState, [Next]_vars
    PROVE  TxidMatchesState' /\ NewlyAssignedWithin
<1>1. NoneAssigned => NewlyAssignedWithin
  BY DEF NoneAssigned, NewlyAssignedWithin
<1>2. ASSUME UNCHANGED <<intent, hasTxid>>
      PROVE  TxidMatchesState' /\ NoneAssigned
  BY <1>2 DEF TxidMatchesState, NoneAssigned
<1>3. ASSUME NEW r \in Requests, Assign(r)
      PROVE  TxidMatchesState' /\ NewlyAssignedWithin
  <2>1. PICK hd \in [Wallets -> Heads], fr \in [Wallets -> Heads \cup {Unset}],
             w \in Wallets, n \in Nonces, f \in Heads \cup {Unset} : Assigned(r, hd, fr, w, n, f)
    BY <1>3, AssignShape
  <2>2. /\ head' = [hd EXCEPT ![w] = n + 1] /\ frontier' = [fr EXCEPT ![w] = f]
        /\ HandedOutWithin(w, n, f) /\ LedgerAssign(w, {n})
    BY <2>1 DEF Assigned
  <2>3. head'[w] = n + 1 /\ frontier'[w] = f /\ n \in Nat
    BY <2>2, Ranges
  <2>4. \A v \in Wallets, m \in Nonces :
           intent'[v][m] = "assigned" => intent[v][m] = "assigned" \/ (v = w /\ m \in {n})
    BY <2>2, LedgerAssignRows
  <2>5. TxidMatchesState'
    BY <2>2, LedgerAssignRows
  <2>6. Cardinality({n}) = 1
    BY FS_Singleton
  <2>7. InFlightCount(w)' <= InFlightCount(w) + 1
    BY <2>2, <2>6, InFlightGrowth
  <2>8. InFlightCount(w) \in Nat /\ InFlightCount(w)' \in Nat /\ ChainingLimit \in Nat
    BY InFlightCountType, InFlightCountPrime, LimitsAssumption
  <2>9. f = Unset /\ InFlightCount(w) + 1 <= ChainingLimit
          => InFlightCount(w)' <= ChainingLimit
    BY <2>7, <2>8
  <2>10. StepWithin(w, n)
    BY <2>2, <2>3, <2>9 DEF HandedOutWithin, StepWithin
  <2>11. n < head'[w]
    BY <2>3
  <2> QED BY <2>4, <2>5, <2>10, <2>11 DEF NewlyAssignedWithin
<1>4. ASSUME NEW w \in Wallets, NEW k \in 1 .. MaxRun, RunWallet(w), TakeRun(w, k),
             UNCHANGED frontier
      PROVE  TxidMatchesState' /\ NewlyAssignedWithin
  <2>1. PICK S \in SUBSET Nonces, h \in Heads :
             /\ \A n \in S : n < h
             /\ \/ frontier[w] # Unset /\ \A n \in S : n < frontier[w] + ChainingLimit
                \/ frontier[w] = Unset /\ InFlightCount(w) + Cardinality(S) <= ChainingLimit
             /\ head' = [head EXCEPT ![w] = h]
             /\ LedgerAssign(w, S)
    BY <1>4, RunShape
  <2>2. head'[w] = h
    BY <2>1 DEF TypeOK
  <2>3. \A v \in Wallets, m \in Nonces :
           intent'[v][m] = "assigned" => intent[v][m] = "assigned" \/ (v = w /\ m \in S)
    BY <2>1, LedgerAssignRows
  <2>4. TxidMatchesState'
    BY <2>1, LedgerAssignRows
  <2>5. InFlightCount(w)' <= InFlightCount(w) + Cardinality(S)
    BY <2>1, InFlightGrowth
  <2>6. /\ InFlightCount(w) \in Nat /\ InFlightCount(w)' \in Nat
        /\ ChainingLimit \in Nat /\ Cardinality(S) \in Nat
    <3>1. IsFiniteSet(Nonces)
      BY CountsAssumption, FS_Interval DEF Nonces
    <3>2. IsFiniteSet(S)
      BY <3>1, FS_Subset
    <3> QED BY <3>2, FS_CardinalityType, InFlightCountType, InFlightCountPrime, LimitsAssumption
  <2>7. InFlightCount(w) + Cardinality(S) <= ChainingLimit
          => InFlightCount(w)' <= ChainingLimit
    BY <2>5, <2>6
  <2>8. \A n \in S : StepWithin(w, n)
    BY <1>4, <2>1, <2>7 DEF StepWithin
  <2> QED BY <2>1, <2>2, <2>3, <2>4, <2>8 DEF NewlyAssignedWithin
<1>5. ASSUME NEW r \in Requests, Deliver(r)
      PROVE  TxidMatchesState' /\ NoneAssigned
  <2>1. PICK call : HandleCall(req[r].w, req[r].n, call)
    BY <1>5 DEF Deliver
  <2>2. req[r].w \in Wallets /\ req[r].n \in Nonces
    BY DEF TypeOK, ReqType
  <2> QED BY <2>1, <2>2, HandleCallRows
<1>6. ASSUME NEW r \in Requests,
             \/ AssignSeedFails(r) \/ AssignRefused(r) \/ AbandonBeforeBroadcast(r)
             \/ BroadcastAccepted(r) \/ BroadcastAckLost(r) \/ BroadcastRejected(r)
             \/ Lose(r) \/ WorkerDies(r)
      PROVE  UNCHANGED <<intent, hasTxid>>
  BY <1>6 DEF AssignSeedFails, AssignRefused, AbandonBeforeBroadcast, BroadcastAccepted,
              BroadcastAckLost, BroadcastRejected, Lose, WorkerDies, ledger
<1>7. ASSUME NEW r \in Requests, WorkerNext(r)
      PROVE  TxidMatchesState' /\ NewlyAssignedWithin
  <2>1. CASE HandSubmit(r)
    BY <1>4, <2>1 DEF HandSubmit
  <2> QED BY <1>1, <1>2, <1>3, <1>5, <1>6, <1>7, <2>1 DEF WorkerNext
<1>8. CASE ObjectNext
  <2>1. CASE SweepHeldRun
    BY <1>4, <2>1 DEF SweepHeldRun
  <2>2. 0 \in Wallets
    BY CountsAssumption, SMT DEF Wallets
  <2>3. ASSUME NEW w \in Wallets, SeedByReconcile(w)
        PROVE  UNCHANGED <<intent, hasTxid>>
    BY <2>3 DEF SeedByReconcile
  <2> QED BY <1>1, <1>2, <1>8, <2>1, <2>2, <2>3, ReconcileRows, ObjectRows DEF ObjectNext
<1>9. CASE ChainNext \/ UNCHANGED vars
  <2>1. UNCHANGED <<intent, hasTxid>>
    BY <1>9 DEF ChainNext, Execute, Evict, ForeignBroadcast, ledger, vars
  <2> QED BY <1>1, <1>2, <2>1
<1> QED BY <1>7, <1>8, <1>9 DEF Next

\* Assigned rows stay below the head, also when it goes down.
LEMMA AssignedStep ==
    ASSUME TypeOK, TxidMatchesState, AssignedBelowHead, [Next]_vars
    PROVE  AssignedBelowHead'
<1>1. NewlyAssignedWithin /\ TypeOK'
  BY RowsStep, TypeStep
<1>2. Heads \cup {Unset} \subseteq Int /\ Nonces \subseteq Nat
  BY CountsAssumption, SMT DEF Heads, Unset, Nonces
<1>3. \A v \in Wallets : head[v] \in Int /\ head'[v] \in Int
  BY <1>1, <1>2 DEF TypeOK
<1>4. CASE \A v \in Wallets : head[v] <= head'[v]
  <2>1. ASSUME NEW v \in Wallets, NEW m \in Nonces, intent'[v][m] = "assigned"
        PROVE  m < head'[v]
    <3>1. CASE intent[v][m] = "assigned"
      <4>1. m < head[v] /\ head[v] <= head'[v] /\ m \in Nat
        BY <1>2, <1>4, <3>1 DEF AssignedBelowHead
      <4> QED BY <1>3, <4>1
    <3>2. CASE intent[v][m] # "assigned"
      BY <1>1, <2>1, <3>2 DEF NewlyAssignedWithin
    <3> QED BY <3>1, <3>2
  <2> QED BY <2>1 DEF AssignedBelowHead
<1>5. ASSUME NEW w \in Wallets, Reconcile(w)
      PROVE  AssignedBelowHead'
  <2>1. PICK p \in Heads, rows \in [Nonces -> IntentStates], filled \in SUBSET Nonces,
             pend \in SUBSET Nonces, h \in Heads : Effect(w, p, rows, filled, pend, h)
    BY <1>5, ReconcileEffect
  <2>2. /\ intent' = [intent EXCEPT ![w] = rows] /\ head' = [head EXCEPT ![w] = h]
        /\ h = head[w] \/ HeadMoves(w, rows, p, h)
    BY <2>1 DEF Effect
  <2>3. NoneAssigned
    BY <1>5, ReconcileRows
  <2>4. ASSUME NEW m \in Nonces, rows[m] = "assigned"
        PROVE  m < h
    <3>1. intent'[w][m] = "assigned"
      BY <2>2, <2>4 DEF TypeOK
    <3>2. m < head[w] /\ m \in Nat /\ p \in Int /\ h \in Int /\ head[w] \in Int
      BY <1>2, <1>3, <2>3, <3>1 DEF NoneAssigned, AssignedBelowHead
    <3>3. CASE head[w] <= h
      BY <3>2, <3>3
    <3>4. CASE p <= h /\ \A n \in InFlightAbove(w, rows, p) : n < h
      <4>1. CASE p <= m
        BY <2>4, <3>2, <3>4, <4>1 DEF InFlightAbove
      <4>2. CASE ~(p <= m)
        BY <3>2, <3>4, <4>2
      <4> QED BY <4>1, <4>2
    <3>5. head[w] <= h \/ (p <= h /\ \A n \in InFlightAbove(w, rows, p) : n < h)
      BY <2>2, <3>2 DEF HeadMoves
    <3> QED BY <3>3, <3>4, <3>5
  <2>5. ASSUME NEW v \in Wallets, NEW m \in Nonces, intent'[v][m] = "assigned"
        PROVE  m < head'[v]
    <3>1. CASE v = w
      BY <2>2, <2>4, <2>5, <3>1 DEF TypeOK
    <3>2. CASE v # w
      BY <2>2, <2>5, <3>2 DEF TypeOK, AssignedBelowHead
    <3> QED BY <3>1, <3>2
  <2> QED BY <2>5 DEF AssignedBelowHead
<1>6. CASE Reset
  BY <1>6 DEF Reset, Quiescent, AssignedBelowHead
<1>7. CASE ClearPools
  BY <1>7 DEF ClearPools, AssignedBelowHead
<1> QED BY <1>4, <1>5, <1>6, <1>7, HeadsStep DEF Lowers

\* Rows and head together: the inductive invariant of the next two theorems.
RowsInv == TypeOK /\ AssignedBelowHead /\ TxidMatchesState

\* It always holds.
LEMMA RowsInvHolds == Spec => []RowsInv
<1>1. Init => RowsInv
  <2>1. Init => AssignedBelowHead /\ TxidMatchesState
    BY DEF Init, AssignedBelowHead, TxidMatchesState
  <2> QED BY <2>1, TypeInit DEF RowsInv
<1>2. RowsInv /\ [Next]_vars => RowsInv'
  BY TypeStep, RowsStep, AssignedStep DEF RowsInv
<1> QED BY <1>1, <1>2, PTL DEF Spec

\* No later assignment can land on a reservation that is still held.
THEOREM AssignedRowsBelowHead == Spec => []AssignedBelowHead
<1>1. RowsInv => AssignedBelowHead
  BY DEF RowsInv
<1> QED BY <1>1, RowsInvHolds, PTL

\* A row never used has no txid, and a row that was broadcast has one.
THEOREM TxidsMatch == Spec => []TxidMatchesState
<1>1. RowsInv => TxidMatchesState
  BY DEF RowsInv
<1> QED BY <1>1, RowsInvHolds, PTL

\* No assignment reaches ChainingLimit past the highest next nonce Hiro reported.
THEOREM AssignmentsWithinLimit == Spec => AssignWithinLimit
<1> DEFINE Within == \A w \in Wallets, n \in Nonces :
         intent'[w][n] = "assigned" /\ intent[w][n] # "assigned" =>
           \/ frontier'[w] # Unset /\ n < frontier'[w] + ChainingLimit
           \/ frontier'[w] # Unset /\ frontier[w] = Unset /\ n <= frontier'[w] + Lookahead
           \/ frontier'[w] = Unset /\ InFlightCount(w)' <= ChainingLimit
<1>1. RowsInv /\ [Next]_vars => [Within]_vars
  BY RowsStep DEF RowsInv, NewlyAssignedWithin, StepWithin
<1> QED BY <1>1, RowsInvHolds, PTL DEF Spec, AssignWithinLimit
================================================================================
