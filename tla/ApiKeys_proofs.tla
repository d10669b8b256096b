--------------------------- MODULE ApiKeys_proofs ---------------------------
(***************************************************************************)
(* Proofs about ApiKeys, for any number of keys, names, provisions and     *)
(* requests and whatever limits, fees and life a key has.                  *)
(*                                                                         *)
(* A key, once it has metadata, keeps it (Kept): only a provision that has *)
(* generated the key writes it first, and then the operator, whose command *)
(* puts back what it read with one field changed. An index entry or a      *)
(* caller can therefore lead only to keys whose earlier puts have landed,  *)
(* and nothing that runs beside a command can undo a revocation.           *)
(*                                                                         *)
(* Charges: a step moves one request on its way (Progress), lets one       *)
(* arrive (Comes) or moves none (Rests); what a record holds never exceeds *)
(* what its key's requests have had the occasion to charge (Due), and what *)
(* requests spent that ran alone is in today's record and in every copy of *)
(* it that is about to be put back (Covered).                              *)
(***************************************************************************)
EXTENDS ApiKeys, Sums_proofs

\* The record of a key.
Stored(k) == k \in Keys /\ meta[k] # None

\* A provisioning invocation.
Invocation == [at : {"idle", "refused", "key", "id", "index", "told", "stopped"},
               name : Names \cup {None}, key : Keys \cup {None}]

\* The invocations have the fields of their records. What a request has read
\* and counted is not bounded here: no theorem below depends on it.
Shapes ==
    /\ day \in 0..MaxDay
    /\ meta \in [Keys -> Metadata \cup {None}]
    /\ byId \in [Keys -> BOOLEAN]
    /\ index \in [Names -> Keys \cup {None}]
    /\ prov \in [Provisions -> Invocation]

\* The three puts of a provision come in order: metadata, id, index.
PutsInOrder ==
    /\ \A p \in Provisions :
          /\ prov[p].at # "idle" => prov[p].name \in Names
          /\ prov[p].at \in {"id", "index", "told"} => Stored(prov[p].key)
          /\ prov[p].at \in {"index", "told"} => byId[prov[p].key]
    /\ \A n \in Names : index[n] # None => Stored(index[n]) /\ byId[index[n]]

\* While a command runs, the metadata it has read is what KV holds.
ReadIsCurrent ==
    admin # None => Stored(admin.key) /\ meta[admin.key] = admin.saw

KeyInv == Shapes /\ PutsInOrder /\ ReadIsCurrent

\* A step leaves every stored key stored, with its activity unless revoked,
\* and every id and index entry where it was or at a key with both.
Kept == \A k \in Keys : meta[k] # None =>
           /\ meta'[k] # None
           /\ ~meta[k].active => ~meta'[k].active

--------------------------------------------------------------------------------
\* None is not the metadata of a key.
LEMMA NoneIsNoRecord == None \notin Metadata
<1>1. Metadata \subseteq [name : Names, active : BOOLEAN, expiresAt : Nat]
  BY KeyAssumption DEF Metadata
<1> QED BY <1>1, KeyAssumption

\* A new key lives until a day in range.
LEMMA NewMetadata ==
    ASSUME Shapes, NEW n \in Names
    PROVE  [name |-> n, active |-> TRUE, expiresAt |-> day + KeyLife] \in Metadata
BY KeyAssumption DEF Shapes, Metadata

\* Revocation and renewal of a record give a record, and neither of them
\* makes a revoked one active (revokeKey, renewKey).
LEMMA CommandResult ==
    ASSUME Shapes, NEW m \in Metadata
    PROVE  /\ Revoked(m) \in Metadata /\ ~Revoked(m).active
           /\ Renewed(m) \in Metadata /\ Renewed(m).active = m.active
<1>1. m \in [name : Names, active : BOOLEAN, expiresAt : 0..(MaxDay + KeyLife)]
  BY DEF Metadata
<1>2. day + KeyLife \in 0..(MaxDay + KeyLife)
  BY KeyAssumption DEF Shapes
<1>3. Revoked(m) \in [name : Names, active : BOOLEAN, expiresAt : 0..(MaxDay + KeyLife)]
  BY <1>1 DEF Revoked
<1>4. ~Revoked(m).active
  BY <1>1 DEF Revoked
<1>5. Renewed(m) \in [name : Names, active : BOOLEAN, expiresAt : 0..(MaxDay + KeyLife)]
  BY <1>1, <1>2 DEF Renewed
<1>6. Renewed(m).active = m.active
  BY <1>1 DEF Renewed
<1> QED BY <1>3, <1>4, <1>5, <1>6, Zenon DEF Metadata

\* The operations of requests do not touch keys.
RequestStep(r) ==
    \/ \E k \in Keys : Arrive(r, k)
    \/ Authenticate(r) \/ TurnAway(r) \/ CheckLimits(r) \/ CountMinute(r)
    \/ \E e \in Estimates : CheckCap(r, e)
    \/ \E f \in Fees : Sponsor(r, f)
    \/ \E taken, heard \in BOOLEAN : Send(r, taken, heard)
    \/ ReadUsage(r) \/ PutFee(r) \/ PutUse(r) \/ RequestStops(r)

keyVars == <<meta, byId, index, prov, admin, day>>

LEMMA RequestsLeaveKeys == ASSUME NEW r \in Requests, RequestStep(r) PROVE UNCHANGED keyVars
BY DEF RequestStep, keyVars, kv, Arrive, Authenticate, TurnAway, CheckLimits, CountMinute,
       CheckCap, Sponsor, Send, ReadUsage, PutFee, PutUse, RequestStops

--------------------------------------------------------------------------------
\* At first no key is stored and no invocation runs.
LEMMA InitKeys == Init => KeyInv
<1> SUFFICES ASSUME Init PROVE KeyInv
  OBVIOUS
<1>1. Shapes
  BY KeyAssumption DEF Init, Shapes, Invocation
<1>2. PutsInOrder /\ ReadIsCurrent
  BY DEF Init, PutsInOrder, ReadIsCurrent
<1> QED BY <1>1, <1>2 DEF KeyInv

\* Metadata is put first.
LEMMA StoreMetaKeeps ==
    ASSUME KeyInv, NEW p \in Provisions, NEW k \in Keys, StoreMeta(p, k)
    PROVE  KeyInv' /\ Kept
<1> DEFINE new == [name |-> prov[p].name, active |-> TRUE, expiresAt |-> day + KeyLife]
<1> USE DEF KeyInv
<1>1. new \in Metadata /\ new # None
  BY NewMetadata, NoneIsNoRecord DEF StoreMeta, PutsInOrder
<1>2. /\ meta' = [meta EXCEPT ![k] = new] /\ meta[k] = None
      /\ prov' = [prov EXCEPT ![p].at = "id", ![p].key = k]
      /\ UNCHANGED <<byId, index, admin, day>>
  BY DEF StoreMeta, Generated
<1> HIDE DEF new
<1>3. Shapes'
  <2>1. meta' \in [Keys -> Metadata \cup {None}]
    BY <1>1, <1>2 DEF Shapes
  <2>2. prov' = [prov EXCEPT ![p].at = "id", ![p].key = k]
    BY <1>2
  <2>3. prov \in [Provisions -> Invocation]
    BY DEF Shapes
  <2>4. prov' \in [Provisions -> Invocation]
    BY <2>2, <2>3 DEF Invocation
  <2> QED BY <1>2, <2>1, <2>4 DEF Shapes
<1>4. Kept /\ \A j \in Keys : meta[j] # None => meta'[j] = meta[j]
  BY <1>1, <1>2 DEF Shapes, Kept
<1>5. meta'[k] # None
  BY <1>1, <1>2 DEF Shapes
<1>6. PutsInOrder'
  <2>1. ASSUME NEW q \in Provisions, q # p PROVE prov'[q] = prov[q]
    BY <1>2, <2>1 DEF Shapes, Invocation
  <2>2. prov'[p].at = "id" /\ prov'[p].key = k /\ prov'[p].name = prov[p].name
    BY <1>2 DEF Shapes, Invocation
  <2>3. prov[p].at = "key"
    BY DEF StoreMeta
  <2>4. ASSUME NEW q \in Provisions
        PROVE  /\ prov'[q].at # "idle" => prov'[q].name \in Names
               /\ prov'[q].at \in {"id", "index", "told"} => Stored(prov[q].key)'
               /\ prov'[q].at \in {"index", "told"} => byId'[prov'[q].key]
    <3>1. CASE q = p
      BY <3>1, <1>5, <2>2, <2>3 DEF PutsInOrder, Stored
    <3>2. CASE q # p
      <4>1. prov'[q] = prov[q] /\ byId' = byId
        BY <3>2, <1>2, <2>1
      <4>2. Stored(prov[q].key) => Stored(prov[q].key)'
        BY <4>1, <1>4 DEF Stored, Kept
      <4>3. /\ prov[q].at # "idle" => prov[q].name \in Names
            /\ prov[q].at \in {"id", "index", "told"} => Stored(prov[q].key)
            /\ prov[q].at \in {"index", "told"} => byId[prov[q].key]
        BY DEF PutsInOrder
      <4> QED BY <4>1, <4>2, <4>3, Zenon
    <3> QED BY <3>1, <3>2
  <2>5. \A n \in Names : index'[n] # None => Stored(index[n])' /\ byId'[index'[n]]
    BY <1>2, <1>4 DEF PutsInOrder, Stored
  <2> QED BY <2>4, <2>5 DEF PutsInOrder
<1>7. ReadIsCurrent'
  BY <1>2, <1>4 DEF ReadIsCurrent, Stored
<1> QED BY <1>3, <1>4, <1>6, <1>7

\* The other steps of a provision: the lookup, the id, the index, the end.
LEMMA ProvisionKeeps ==
    ASSUME KeyInv, NEW p \in Provisions,
           (\E n \in Names : ProvisionLooks(p, n)) \/ StoreId(p) \/ StoreIndex(p) \/ ProvisionStops(p)
    PROVE  KeyInv' /\ Kept
<1> USE DEF KeyInv
<1>1. UNCHANGED <<meta, admin, day>>
  BY DEF ProvisionLooks, StoreId, StoreIndex, ProvisionStops, kv
<1>2. Kept /\ ReadIsCurrent'
  BY <1>1 DEF Kept, ReadIsCurrent, Stored
<1>3. ASSUME NEW n \in Names, ProvisionLooks(p, n) PROVE Shapes' /\ PutsInOrder'
  BY <1>3, <1>1 DEF ProvisionLooks, Shapes, Invocation, PutsInOrder, Stored, kv
<1>4. ASSUME StoreId(p) PROVE Shapes' /\ PutsInOrder'
  <2>1. Shapes'
    BY <1>4, <1>1 DEF StoreId, Shapes, Invocation
  <2>2. \A j \in Keys : byId[j] => byId'[j]
    BY <1>4 DEF StoreId, Shapes, Invocation
  <2>3. prov[p].at = "id" /\ prov[p].key \in Keys /\ byId'[prov[p].key]
    BY <1>4 DEF StoreId, Shapes, Invocation, PutsInOrder, Stored
  <2>4. \A q \in Provisions : /\ prov'[q].key = prov[q].key /\ prov'[q].name = prov[q].name
                              /\ q # p => prov'[q].at = prov[q].at
    BY <1>4 DEF StoreId, Shapes, Invocation
  <2>5. prov'[p].at = "index"
    BY <1>4 DEF StoreId, Shapes, Invocation
  <2>6. UNCHANGED index
    BY <1>4 DEF StoreId
  <2>7. \A q \in Provisions : /\ prov'[q].at # "idle" => prov'[q].name \in Names
                              /\ prov'[q].at \in {"id", "index", "told"} => Stored(prov[q].key)'
                              /\ prov'[q].at \in {"index", "told"} => byId'[prov'[q].key]
    BY <1>1, <2>2, <2>3, <2>4, <2>5 DEF PutsInOrder, Stored
  <2>8. \A n \in Names : index'[n] # None => Stored(index[n])' /\ byId'[index'[n]]
    BY <1>1, <2>2, <2>6 DEF PutsInOrder, Stored
  <2> QED BY <2>1, <2>7, <2>8 DEF PutsInOrder
<1>5. ASSUME StoreIndex(p) PROVE Shapes' /\ PutsInOrder'
  <2>1. Shapes'
    BY <1>5, <1>1 DEF StoreIndex, Shapes, Invocation
  <2>2. prov[p].at = "index" /\ Stored(prov[p].key) /\ byId[prov[p].key]
    BY <1>5 DEF StoreIndex, PutsInOrder
  <2>3. UNCHANGED byId /\ \A n \in Names : index'[n] = index[n] \/ index'[n] = prov[p].key
    BY <1>5 DEF StoreIndex, Shapes, Invocation
  <2>4. \A q \in Provisions : /\ prov'[q].key = prov[q].key /\ prov'[q].name = prov[q].name
                              /\ q # p => prov'[q].at = prov[q].at
    BY <1>5 DEF StoreIndex, Shapes, Invocation
  <2>5. \A n \in Names : index'[n] # None => Stored(index[n])' /\ byId'[index'[n]]
    BY <1>1, <2>2, <2>3 DEF PutsInOrder, Stored
  <2>6. \A q \in Provisions : /\ prov'[q].at # "idle" => prov'[q].name \in Names
                              /\ prov'[q].at \in {"id", "index", "told"} => Stored(prov[q].key)'
                              /\ prov'[q].at \in {"index", "told"} => byId'[prov'[q].key]
    BY <1>1, <2>2, <2>3, <2>4 DEF PutsInOrder, Stored
  <2> QED BY <2>1, <2>5, <2>6 DEF PutsInOrder
<1>6. ASSUME ProvisionStops(p) PROVE Shapes' /\ PutsInOrder'
  <2>1. Shapes'
    BY <1>6, <1>1 DEF ProvisionStops, Shapes, Invocation, kv
  <2>2. \A q \in Provisions : /\ prov'[q].key = prov[q].key /\ prov'[q].name = prov[q].name
                              /\ q # p => prov'[q].at = prov[q].at
    BY <1>6 DEF ProvisionStops, Shapes, Invocation
  <2>3. prov'[p].at = "stopped" /\ prov[p].at \in {"key", "id", "index"}
    BY <1>6 DEF ProvisionStops, Shapes, Invocation
  <2>4. \A q \in Provisions : /\ prov'[q].at # "idle" => prov'[q].name \in Names
                              /\ prov'[q].at \in {"id", "index", "told"} => Stored(prov[q].key)'
                              /\ prov'[q].at \in {"index", "told"} => byId[prov'[q].key]
    BY <1>1, <2>2, <2>3 DEF PutsInOrder, Stored
  <2> QED BY <1>6, <1>1, <2>1, <2>4 DEF ProvisionStops, PutsInOrder, Stored, kv
<1> QED BY <1>2, <1>3, <1>4, <1>5, <1>6

\* A command puts back the key it read, stored as before.
LEMMA AdminKeeps ==
    ASSUME KeyInv, AdminPuts \/ \E k \in Keys, op \in {"revoke", "renew"} : AdminReads(op, k)
    PROVE  KeyInv' /\ Kept
<1> USE DEF KeyInv
<1>1. ASSUME NEW k \in Keys, NEW op \in {"revoke", "renew"}, AdminReads(op, k)
      PROVE  KeyInv' /\ Kept
  <2>1. UNCHANGED <<meta, byId, index, prov, day>>
    BY <1>1 DEF AdminReads, kv
  <2>2. ReadIsCurrent'
    BY <1>1, <2>1 DEF AdminReads, ReadIsCurrent, Stored
  <2> QED BY <2>1, <2>2 DEF Shapes, PutsInOrder, Stored, Kept
<1>2. ASSUME AdminPuts PROVE KeyInv' /\ Kept
  <2> DEFINE new == IF admin.op = "revoke" THEN Revoked(admin.saw) ELSE Renewed(admin.saw)
  <2>1. /\ meta' = [meta EXCEPT ![admin.key] = new] /\ admin' = None
        /\ UNCHANGED <<byId, index, prov, day>>
    BY <1>2 DEF AdminPuts
  <2>2. admin.key \in Keys /\ admin.saw = meta[admin.key] /\ admin.saw \in Metadata
    BY <1>2 DEF AdminPuts, ReadIsCurrent, Stored, Shapes
  <2>3. new \in Metadata /\ new # None /\ (~admin.saw.active => ~new.active)
    BY <2>2, CommandResult, NoneIsNoRecord
  <2> HIDE DEF new
  <2>4. Shapes'
    BY <2>1, <2>2, <2>3 DEF Shapes
  <2>5. Kept
    BY <2>1, <2>2, <2>3 DEF Shapes, Kept
  <2>6. PutsInOrder' /\ ReadIsCurrent'
    BY <2>1, <2>5 DEF PutsInOrder, ReadIsCurrent, Stored, Kept
  <2> QED BY <2>4, <2>5, <2>6
<1> QED BY <1>1, <1>2

\* Every step keeps the invariant and the stored keys.
LEMMA NextKeepsKeys == ASSUME KeyInv, [Next]_vars PROVE KeyInv' /\ Kept
<1>1. ASSUME UNCHANGED <<meta, byId, index, prov, admin>>, day' \in 0..MaxDay
      PROVE  KeyInv' /\ Kept
  BY <1>1 DEF KeyInv, Shapes, PutsInOrder, ReadIsCurrent, Stored, Kept
<1>2. ASSUME NEW p \in Provisions, NEW k \in Keys, StoreMeta(p, k) PROVE KeyInv' /\ Kept
  BY <1>2, StoreMetaKeeps
<1>3. ASSUME NEW p \in Provisions,
             (\E n \in Names : ProvisionLooks(p, n)) \/ StoreId(p) \/ StoreIndex(p) \/ ProvisionStops(p)
      PROVE  KeyInv' /\ Kept
  BY <1>3, ProvisionKeeps
<1>4. ASSUME AdminPuts \/ \E k \in Keys, op \in {"revoke", "renew"} : AdminReads(op, k)
      PROVE  KeyInv' /\ Kept
  BY <1>4, AdminKeeps
<1>5. CASE NextMinute
  BY <1>1, <1>5 DEF NextMinute, KeyInv, Shapes
<1>6. CASE NextDay
  <2>1. day' \in 0..MaxDay
    BY <1>6, KeyAssumption DEF NextDay, KeyInv, Shapes
  <2> QED BY <1>1, <1>6, <2>1 DEF NextDay
<1>7. ASSUME NEW r \in Requests, RequestStep(r) PROVE KeyInv' /\ Kept
  BY <1>1, <1>7, RequestsLeaveKeys DEF keyVars, KeyInv, Shapes
<1>8. CASE UNCHANGED vars
  BY <1>1, <1>8 DEF vars, KeyInv, Shapes
<1> QED BY <1>2, <1>3, <1>4, <1>5, <1>6, <1>7, <1>8 DEF Next, RequestStep

\* KeysResolve: wherever storeKeyMetadata stops and whoever provisions the
\* same name meanwhile, an index entry and a key somebody was told lead to
\* metadata and an id (auth.ts:562-581).
THEOREM KeysAlwaysResolve == Spec => []KeysResolve
<1>1. KeyInv /\ [Next]_vars => KeyInv'
  BY NextKeepsKeys
<1>2. KeyInv => KeysResolve
  BY DEF KeyInv, PutsInOrder, KeysResolve, Stored
<1> QED BY InitKeys, <1>1, <1>2, PTL DEF Spec

--------------------------------------------------------------------------------
\* A request has the fields of its record.
Fields == {"at", "key", "saw", "minutes", "day", "sameMinute", "estimate", "fee", "taken", "revoked", "shared"}
RequestShape ==
    /\ DOMAIN req = Requests
    /\ \A q \in Requests : DOMAIN req[q] = Fields

\* A request that came with a revoked key has failed, or is about to be
\* refused: the key is still stored and still revoked.
Refused ==
    \A q \in Requests : req[q].revoked =>
        \/ req[q].at = "failed"
        \/ req[q].at = "auth" /\ Stored(req[q].key) /\ ~meta[req[q].key].active

\* What a step may do to a request: leave it where it is, let it arrive, end
\* it, or move it on from where a request with a revoked key cannot be.
Stays(q) == req'[q].at = req[q].at /\ req'[q].key = req[q].key /\ req'[q].revoked = req[q].revoked
Arrives(q) == /\ req'[q].at = "auth" /\ req'[q].key \in Keys
              /\ req'[q].revoked => meta[req'[q].key] # None /\ ~meta[req'[q].key].active
MovesOn(q) == /\ req'[q].revoked = req[q].revoked
              /\ req[q].at \notin {"auth", "failed"} \/ (req[q].at = "auth" /\ Valid(req[q].key))
Orderly == \A q \in Requests :
              DOMAIN req'[q] = Fields /\ (Stays(q) \/ Arrives(q) \/ req'[q].at = "failed" \/ MovesOn(q))

\* The arrival of a request.
LEMMA ArriveOrderly ==
    ASSUME RequestShape, NEW r \in Requests, NEW k \in Keys, Arrive(r, k)
    PROVE  RequestShape' /\ Orderly
<1> DEFINE others == {q \in Requests : req[q].at \in InFlight /\ req[q].key = k}
<1>1. req' = [q \in Requests |->
                 IF q = r THEN [IdleRequest EXCEPT !.at = "auth", !.key = k, !.shared = others # {},
                                    !.revoked = meta[k] # None /\ ~meta[k].active]
                 ELSE [req[q] EXCEPT !.shared = @ \/ q \in others]]
  BY DEF Arrive
<1> HIDE DEF others
<1>2. DOMAIN req' = Requests
  BY <1>1
<1>3. ASSUME NEW q \in Requests, q # r PROVE DOMAIN req'[q] = Fields /\ Stays(q)
  BY <1>1, <1>3 DEF RequestShape, Fields, Stays
<1>4. DOMAIN req'[r] = Fields /\ Arrives(r)
  BY <1>1 DEF IdleRequest, Fields, Arrives
<1> QED BY <1>2, <1>3, <1>4 DEF RequestShape, Orderly

\* A request ends only as failed.
LEMMA EndedShape ==
    ASSUME NEW r \in Requests, NEW taken
    PROVE  DOMAIN Ended(r, taken) = Fields /\ Ended(r, taken).at = "failed"
BY DEF Ended, IdleRequest, Fields

\* The other operations move their own request only.
LEMMA OwnStepOrderly ==
    ASSUME RequestShape, NEW r \in Requests, RequestStep(r), \A k \in Keys : ~Arrive(r, k)
    PROVE  RequestShape' /\ Orderly
<1>0. SUFFICES /\ \A q \in Requests \ {r} : req'[q] = req[q]
               /\ DOMAIN req' = Requests
               /\ DOMAIN req'[r] = Fields /\ (req'[r].at = "failed" \/ MovesOn(r))
  BY <1>0 DEF RequestShape, Orderly, Stays
<1> USE DEF RequestShape
<1>1. CASE Authenticate(r)
  BY <1>1, EndedShape DEF Authenticate, MovesOn, Fields
<1>2. CASE TurnAway(r)
  BY <1>2, EndedShape DEF TurnAway
<1>3. CASE CheckLimits(r)
  <2>1. CASE ~IsFree(req[r].key)
    BY <1>3, <2>1 DEF CheckLimits, MovesOn, Fields
  <2>2. CASE /\ IsFree(req[r].key)
             /\ \/ minute[req[r].key] >= MinuteLimit
                \/ usage[req[r].key].requests >= DailyLimit
    BY <1>3, <2>2, EndedShape DEF CheckLimits
  <2>3. CASE /\ IsFree(req[r].key)
             /\ ~ \/ minute[req[r].key] >= MinuteLimit
                  \/ usage[req[r].key].requests >= DailyLimit
    BY <1>3, <2>3 DEF CheckLimits, MovesOn, Fields
  <2> QED BY <2>1, <2>2, <2>3
<1>4. CASE CountMinute(r)
  BY <1>4 DEF CountMinute, MovesOn, Fields
<1>5. ASSUME NEW e \in Estimates, CheckCap(r, e) PROVE <1>0!1
  BY <1>5, EndedShape DEF CheckCap, MovesOn, Fields
<1>6. ASSUME NEW f \in Fees, Sponsor(r, f) PROVE <1>0!1
  BY <1>6 DEF Sponsor, MovesOn, Fields
<1>7. ASSUME NEW taken \in BOOLEAN, NEW heard \in BOOLEAN, Send(r, taken, heard) PROVE <1>0!1
  BY <1>7, EndedShape DEF Send, MovesOn, Fields
<1>8. CASE ReadUsage(r)
  BY <1>8 DEF ReadUsage, MovesOn, Fields
<1>9. CASE PutFee(r)
  BY <1>9 DEF PutFee, MovesOn, Fields
<1>10. CASE PutUse(r)
  BY <1>10 DEF PutUse, MovesOn, Fields
<1>11. CASE RequestStops(r)
  BY <1>11, EndedShape DEF RequestStops
<1> QED BY <1>1, <1>2, <1>3, <1>4, <1>5, <1>6, <1>7, <1>8, <1>9, <1>10, <1>11 DEF RequestStep

\* The rest of the system leaves requests where they are.
LEMMA OthersOrderly ==
    ASSUME RequestShape, [Next]_vars, \A r \in Requests : ~RequestStep(r)
    PROVE  RequestShape' /\ Orderly
<1>1. ASSUME UNCHANGED req PROVE RequestShape' /\ Orderly
  BY <1>1 DEF RequestShape, Orderly, Stays
<1>2. ASSUME NewMinute PROVE RequestShape' /\ Orderly
  <2>1. DOMAIN req' = Requests
    BY <1>2 DEF NewMinute
  <2>2. ASSUME NEW q \in Requests PROVE DOMAIN req'[q] = Fields /\ Stays(q)
    BY <1>2 DEF NewMinute, RequestShape, Fields, Stays
  <2> QED BY <2>1, <2>2 DEF RequestShape, Orderly
<1>3. UNCHANGED req \/ NewMinute
  BY DEF Next, vars, RequestStep, ProvisionLooks, StoreMeta, StoreId, StoreIndex,
         ProvisionStops, AdminReads, AdminPuts, NextMinute, NextDay
<1> QED BY <1>1, <1>2, <1>3

RefusalInv == KeyInv /\ RequestShape /\ Refused

\* No request is there at first.
LEMMA InitRefused == Init => RefusalInv
<1>1. Init => RequestShape /\ Refused
  BY DEF Init, IdleRequest, RequestShape, Refused, Fields
<1> QED BY <1>1, InitKeys DEF RefusalInv

\* An orderly step beside which stored keys stay stored and revoked.
LEMMA NextRefuses == RefusalInv /\ [Next]_vars => RefusalInv'
<1> SUFFICES ASSUME RefusalInv, [Next]_vars PROVE RefusalInv'
  OBVIOUS
<1>1. KeyInv' /\ Kept
  BY NextKeepsKeys DEF RefusalInv
<1>2. RequestShape' /\ Orderly
  BY ArriveOrderly, OwnStepOrderly, OthersOrderly DEF RefusalInv, RequestStep
<1>3. ASSUME NEW q \in Requests, req'[q].revoked, req'[q].at # "failed"
      PROVE  req'[q].at = "auth" /\ Stored(req[q].key)' /\ ~meta'[req'[q].key].active
  <2>1. CASE Stays(q)
    BY <1>1, <1>3, <2>1 DEF RefusalInv, Refused, Stays, Stored, Kept
  <2>2. CASE Arrives(q)
    BY <1>1, <1>3, <2>2 DEF Arrives, Stored, Kept
  <2>3. CASE MovesOn(q)
    BY <1>3, <2>3 DEF RefusalInv, Refused, MovesOn, Valid, Live
  <2> QED BY <1>2, <1>3, <2>1, <2>2, <2>3 DEF Orderly
<1> QED BY <1>1, <1>2, <1>3 DEF RefusalInv, Refused, Stored

\* RevokedNotServed: whatever the operator's commands, expiries and other
\* requests do in between, a request that comes with a revoked key is not
\* let past validateKey (auth.ts:131-188).
THEOREM RevokedKeysServeNothing == Spec => []RevokedNotServed
<1>1. RefusalInv => RevokedNotServed
  BY DEF RefusalInv, Refused, RevokedNotServed
<1> QED BY InitRefused, NextRefuses, <1>1, PTL DEF Spec

--------------------------------------------------------------------------------
(* What requests have read and counted. *)

Tally == [requests : Nat, feesPaid : Nat]
Request == [at : InFlight \cup {"idle", "failed", "ok"}, key : Keys \cup {None}, saw : Tally,
            minutes : 0..MinuteLimit, day : Nat, sameMinute : BOOLEAN,
            estimate : Estimates \cup {0}, fee : Fees \cup {0}, taken : BOOLEAN, revoked : BOOLEAN, shared : BOOLEAN]

\* A request under way has a key, and one that is about to count itself has
\* found room in the minute it read.
Proper(x) ==
    /\ x.at \in InFlight => x.key \in Keys
    /\ x.at = "count" => x.minutes < MinuteLimit

CountersTyped ==
    /\ day \in Nat
    /\ usage \in [Keys -> Tally]
    /\ minute \in [Keys -> 0..MinuteLimit]

RequestsTyped ==
    /\ req \in [Requests -> Request]
    /\ \A r \in Requests : Proper(req[r])

\* A record counts no more requests than were answered, and neither does a
\* copy of it that a request holds.
Answered == {r \in Requests : req[r].at = "ok"}
CountsAnswered ==
    /\ \A k \in Keys : usage[k].requests <= Cardinality(Answered)
    /\ \A r \in Requests : req[r].saw.requests <= Cardinality(Answered)

TallyInv == CountersTyped /\ RequestsTyped /\ CountsAnswered

LEMMA EmptyTally == EmptyUsage \in Tally /\ EmptyUsage.requests = 0
BY DEF EmptyUsage, Tally

LEMMA IdleTyped == IdleRequest \in Request /\ Proper(IdleRequest)
BY EmptyTally, RequestAssumption DEF IdleRequest, Request, Proper, InFlight

LEMMA EndedTyped ==
    ASSUME RequestsTyped, NEW r \in Requests, NEW taken \in BOOLEAN
    PROVE  /\ Ended(r, taken) \in Request /\ Proper(Ended(r, taken))
           /\ Ended(r, taken).at = "failed" /\ Ended(r, taken).saw = EmptyUsage
<1> DEFINE f == IF taken THEN req[r].fee ELSE 0
           k == req[r].key
           v == req[r].revoked
<1>1. f \in Fees \cup {0} /\ k \in Keys \cup {None} /\ v \in BOOLEAN
  BY DEF RequestsTyped, Request
<1> HIDE DEF f, k, v
<1>2. Ended(r, taken) = [IdleRequest EXCEPT !.at = "failed", !.key = k, !.taken = taken,
                             !.fee = f, !.revoked = v]
  BY DEF Ended, f, k, v
<1>3. Ended(r, taken) = [at |-> "failed", key |-> k, saw |-> EmptyUsage, minutes |-> 0, day |-> 0,
                         sameMinute |-> TRUE, estimate |-> 0, fee |-> f, taken |-> taken, revoked |-> v,
                         shared |-> FALSE]
  BY <1>2 DEF IdleRequest
<1>4. Ended(r, taken) \in Request
  BY <1>1, <1>3, EmptyTally, RequestAssumption DEF Request, InFlight
<1> QED BY <1>3, <1>4 DEF Proper, InFlight

\* What a step may make of its request: a proper one, that was not answered
\* before, whose copy of a record is new only if it is empty or just read.
Becomes(r, x) ==
    /\ x \in Request /\ Proper(x)
    /\ req[r].at # "ok"
    /\ x.saw \in {req[r].saw, EmptyUsage} \cup {usage[k] : k \in Keys}

\* A step that gives request r the fields of x.
Steps(r, x) == req' = [req EXCEPT ![r] = x] /\ Becomes(r, x)

\* A request has the fields of its record, whichever step it is at.
LEMMA Moved ==
    ASSUME NEW x \in Request, NEW at \in InFlight \cup {"idle", "failed", "ok"}
    PROVE  LET y == [x EXCEPT !.at = at]
           IN y \in Request /\ y.at = at /\ y.key = x.key /\ y.minutes = x.minutes /\ y.saw = x.saw
BY DEF Request

\* A request whose copy of a record and count are replaced, too.
LEMMA MovedWith ==
    ASSUME NEW x \in Request, NEW at \in InFlight \cup {"idle", "failed", "ok"},
           NEW saw \in Tally, NEW d \in Nat, NEW m \in 0..MinuteLimit, NEW b \in BOOLEAN
    PROVE  /\ [x EXCEPT !.saw = saw, !.day = d, !.at = at] \in Request
           /\ [x EXCEPT !.saw = saw, !.at = at] \in Request
           /\ [x EXCEPT !.minutes = m, !.at = at] \in Request
           /\ [x EXCEPT !.minutes = m, !.sameMinute = b, !.at = at] \in Request
           /\ \A f \in Fees : [x EXCEPT !.fee = f, !.at = at] \in Request
           /\ [x EXCEPT !.taken = b, !.at = at] \in Request
BY DEF Request

LEMMA AuthenticateSteps ==
    ASSUME RequestsTyped, NEW r \in Requests, Authenticate(r)
    PROVE  \E x : Steps(r, x)
<1> DEFINE x == IF Valid(req[r].key) THEN [req[r] EXCEPT !.at = "limits"] ELSE Ended(r, FALSE)
<1>1. req' = [req EXCEPT ![r] = x] /\ req[r].at = "auth"
  BY DEF Authenticate
<1>2. req[r] \in Request /\ Proper(req[r])
  BY DEF RequestsTyped
<1>3. CASE Valid(req[r].key)
  <2>1. x = [req[r] EXCEPT !.at = "limits"]
    BY <1>3
  <2>2. "limits" \in InFlight /\ "auth" \in InFlight
    BY DEF InFlight
  <2> HIDE DEF x
  <2>3. x \in Request /\ x.at = "limits" /\ x.key = req[r].key /\ x.saw = req[r].saw
    BY <1>2, <2>1, <2>2, Moved
  <2> QED BY <1>1, <1>2, <2>2, <2>3 DEF Steps, Becomes, Proper
<1>4. CASE ~Valid(req[r].key)
  <2>1. x = Ended(r, FALSE)
    BY <1>4
  <2> HIDE DEF x
  <2> QED BY <1>1, <2>1, EndedTyped DEF Steps, Becomes
<1> QED BY <1>3, <1>4

LEMMA EndSteps ==
    ASSUME RequestsTyped, NEW r \in Requests, TurnAway(r) \/ RequestStops(r)
    PROVE  \E x : Steps(r, x)
<1>1. PICK taken \in BOOLEAN : req' = [req EXCEPT ![r] = Ended(r, taken)]
  BY DEF TurnAway, RequestStops, RequestsTyped, Request
<1>2. req[r].at # "ok"
  BY DEF TurnAway, RequestStops, InFlight
<1> QED BY <1>1, <1>2, EndedTyped DEF Steps, Becomes

LEMMA CheckLimitsSteps ==
    ASSUME RequestsTyped, CountersTyped, NEW r \in Requests, CheckLimits(r)
    PROVE  \E x : Steps(r, x)
<1> DEFINE k == req[r].key
           room == ~(minute[k] >= MinuteLimit \/ usage[k].requests >= DailyLimit)
<1>1. req[r] \in Request /\ Proper(req[r]) /\ req[r].at = "limits"
  BY DEF RequestsTyped, CheckLimits
<1>2. {"limits", "cap", "count"} \subseteq InFlight
  BY DEF InFlight
<1>3. k \in Keys
  BY <1>1, <1>2 DEF Proper
<1>4. CASE ~IsFree(k)
  <2>1. req' = [req EXCEPT ![r] = [req[r] EXCEPT !.at = "cap"]]
    BY <1>4 DEF CheckLimits
  <2>2. [req[r] EXCEPT !.at = "cap"] \in Request /\ Proper([req[r] EXCEPT !.at = "cap"])
        /\ [req[r] EXCEPT !.at = "cap"].saw = req[r].saw
    BY <1>1, <1>2, <1>3, Moved DEF Proper
  <2> QED BY <1>1, <2>1, <2>2 DEF Steps, Becomes
<1>5. CASE IsFree(k) /\ ~room
  <2>1. req' = [req EXCEPT ![r] = Ended(r, FALSE)]
    BY <1>5 DEF CheckLimits
  <2> QED BY <1>1, <2>1, EndedTyped DEF Steps, Becomes
<1>6. CASE IsFree(k) /\ room
  <2> DEFINE x == [req[r] EXCEPT !.minutes = minute[k], !.at = "count"]
  <2>1. req' = [req EXCEPT ![r] = x]
    BY <1>6 DEF CheckLimits
  <2>2. minute[k] \in 0..MinuteLimit /\ minute[k] < MinuteLimit
    BY <1>3, <1>6, RequestAssumption DEF CountersTyped
  <2>3. x \in Request
    BY <1>1, <1>2, <2>2, MovedWith, EmptyTally
  <2>4. x.minutes = minute[k] /\ x.key = k /\ x.saw = req[r].saw
    BY <1>1 DEF Request
  <2> HIDE DEF x
  <2> QED BY <1>1, <1>3, <2>1, <2>2, <2>3, <2>4 DEF Steps, Becomes, Proper
<1> QED BY <1>4, <1>5, <1>6

LEMMA CountMinuteSteps ==
    ASSUME RequestsTyped, CountersTyped, NEW r \in Requests, CountMinute(r)
    PROVE  (\E x : Steps(r, x)) /\ CountersTyped'
<1> DEFINE x == [req[r] EXCEPT !.minutes = 0, !.sameMinute = TRUE, !.at = "cap"]
<1>1. req[r] \in Request /\ Proper(req[r]) /\ req[r].at = "count" /\ req[r].key \in Keys
  BY DEF RequestsTyped, CountMinute, Proper, InFlight
<1>2. req' = [req EXCEPT ![r] = x]
  BY DEF CountMinute
<1>3. "cap" \in InFlight /\ 0 \in 0..MinuteLimit
  BY RequestAssumption DEF InFlight
<1>4. x \in Request
  BY <1>1, <1>3, MovedWith, EmptyTally
<1>5. x.at = "cap" /\ x.key = req[r].key /\ x.saw = req[r].saw
  BY <1>1 DEF Request
<1> HIDE DEF x
<1>6. Steps(r, x)
  BY <1>1, <1>2, <1>4, <1>5 DEF Steps, Becomes, Proper
<1>7. req[r].minutes + 1 \in 0..MinuteLimit
  BY <1>1, RequestAssumption DEF Request, Proper
<1>8. minute' \in [Keys -> 0..MinuteLimit] /\ UNCHANGED <<usage, day>>
  BY <1>7 DEF CountMinute, CountersTyped
<1> QED BY <1>6, <1>8 DEF CountersTyped

LEMMA CheckCapSteps ==
    ASSUME RequestsTyped, NEW r \in Requests, NEW e \in Estimates, CheckCap(r, e)
    PROVE  \E x : Steps(r, x)
<1> DEFINE fits == IsFree(req[r].key) => WithinCap(usage[req[r].key].feesPaid, e)
           x == [req[r] EXCEPT !.at = "sponsor", !.estimate = e]
<1>1. req[r] \in Request /\ Proper(req[r]) /\ req[r].at = "cap"
  BY DEF RequestsTyped, CheckCap
<1>2. {"cap", "sponsor"} \subseteq InFlight
  BY DEF InFlight
<1>3. CASE fits
  <2>1. req' = [req EXCEPT ![r] = x]
    BY <1>3 DEF CheckCap
  <2>2. x \in Request /\ x.at = "sponsor" /\ x.key = req[r].key /\ x.saw = req[r].saw
    BY <1>1, <1>2 DEF Request
  <2> HIDE DEF x
  <2> QED BY <1>1, <1>2, <2>1, <2>2 DEF Steps, Becomes, Proper
<1>4. CASE ~fits
  <2>1. req' = [req EXCEPT ![r] = Ended(r, FALSE)]
    BY <1>4 DEF CheckCap
  <2> QED BY <1>1, <2>1, EndedTyped DEF Steps, Becomes
<1> QED BY <1>3, <1>4

LEMMA SponsorSteps ==
    ASSUME RequestsTyped, NEW r \in Requests, NEW f \in Fees, Sponsor(r, f)
    PROVE  \E x : Steps(r, x)
<1> DEFINE x == [req[r] EXCEPT !.fee = f, !.at = "send"]
<1>1. req[r] \in Request /\ Proper(req[r]) /\ req[r].at = "sponsor"
  BY DEF RequestsTyped, Sponsor
<1>2. {"sponsor", "send"} \subseteq InFlight
  BY DEF InFlight
<1>3. req' = [req EXCEPT ![r] = x]
  BY DEF Sponsor
<1>4. x \in Request /\ x.at = "send" /\ x.key = req[r].key /\ x.saw = req[r].saw
  BY <1>1, <1>2 DEF Request
<1> HIDE DEF x
<1> QED BY <1>1, <1>2, <1>3, <1>4 DEF Steps, Becomes, Proper

LEMMA SendSteps ==
    ASSUME RequestsTyped, NEW r \in Requests, NEW taken \in BOOLEAN, NEW heard \in BOOLEAN,
           Send(r, taken, heard)
    PROVE  \E x : Steps(r, x)
<1> DEFINE x == [req[r] EXCEPT !.taken = TRUE, !.at = "readFee"]
<1>1. req[r] \in Request /\ Proper(req[r]) /\ req[r].at = "send"
  BY DEF RequestsTyped, Send
<1>2. {"send", "readFee"} \subseteq InFlight
  BY DEF InFlight
<1>3. CASE heard
  <2>1. req' = [req EXCEPT ![r] = x]
    BY <1>3 DEF Send
  <2>2. x \in Request /\ x.at = "readFee" /\ x.key = req[r].key /\ x.saw = req[r].saw
    BY <1>1, <1>2 DEF Request
  <2> HIDE DEF x
  <2> QED BY <1>1, <1>2, <2>1, <2>2 DEF Steps, Becomes, Proper
<1>4. CASE ~heard
  <2>1. req' = [req EXCEPT ![r] = Ended(r, taken)]
    BY <1>4 DEF Send
  <2> QED BY <1>1, <2>1, EndedTyped DEF Steps, Becomes
<1> QED BY <1>3, <1>4

LEMMA ReadUsageSteps ==
    ASSUME RequestsTyped, CountersTyped, NEW r \in Requests, ReadUsage(r)
    PROVE  \E x : Steps(r, x)
<1> DEFINE at == IF req[r].at = "readFee" THEN "putFee" ELSE "putUse"
           k == req[r].key
           x == [req[r] EXCEPT !.saw = usage[k], !.day = day, !.at = at]
<1>1. req[r] \in Request /\ Proper(req[r]) /\ req[r].at \in {"readFee", "readUse"}
  BY DEF RequestsTyped, ReadUsage
<1>2. at \in InFlight /\ {"readFee", "readUse"} \subseteq InFlight /\ at # "count"
  BY DEF InFlight
<1>3. k \in Keys /\ usage[k] \in Tally /\ day \in Nat
  BY <1>1, <1>2 DEF CountersTyped, Proper
<1>4. req' = [req EXCEPT ![r] = x]
  BY DEF ReadUsage
<1> HIDE DEF at
<1>5. x \in Request
  <2>1. TRUE \in BOOLEAN /\ 0 \in 0..MinuteLimit
    BY RequestAssumption
  <2> QED BY <1>1, <1>2, <1>3, <2>1, MovedWith
<1>6. x.at = at /\ x.key = k /\ x.saw = usage[k]
  BY <1>1 DEF Request
<1> HIDE DEF x
<1> QED BY <1>1, <1>2, <1>3, <1>4, <1>5, <1>6 DEF Steps, Becomes, Proper

\* The record a request puts back: its copy and its fee.
LEMMA ChargedTyped ==
    ASSUME RequestsTyped, NEW r \in Requests
    PROVE  /\ Charged(r) \in Tally /\ Charged(r).requests = req[r].saw.requests
           /\ [Charged(r) EXCEPT !.requests = @ + 1] \in Tally
           /\ [Charged(r) EXCEPT !.requests = @ + 1].requests = req[r].saw.requests + 1
<1> DEFINE saw == req[r].saw
           fee == req[r].fee
<1>1. saw \in Tally /\ fee \in Nat
  <2>1. req[r] \in Request
    BY DEF RequestsTyped
  <2>2. saw \in Tally /\ fee \in Fees \cup {0}
    BY <2>1 DEF Request
  <2>3. Fees \cup {0} \subseteq Nat
    BY RequestAssumption
  <2> QED BY <2>2, <2>3
<1>2. Charged(r) = [saw EXCEPT !.feesPaid = @ + fee]
  BY DEF Charged
<1> HIDE DEF saw, fee
<1>3. Charged(r) = [requests |-> saw.requests, feesPaid |-> saw.feesPaid + fee]
  BY <1>1, <1>2 DEF Tally
<1>4. [Charged(r) EXCEPT !.requests = @ + 1]
        = [requests |-> saw.requests + 1, feesPaid |-> saw.feesPaid + fee]
  BY <1>3
<1>5. saw.requests \in Nat /\ saw.feesPaid + fee \in Nat
  BY <1>1 DEF Tally
<1>6. saw = req[r].saw
  BY DEF saw
<1> QED BY <1>3, <1>4, <1>5, <1>6 DEF Tally

LEMMA PutFeeSteps ==
    ASSUME RequestsTyped, CountersTyped, NEW r \in Requests, PutFee(r)
    PROVE  (\E x : Steps(r, x)) /\ CountersTyped'
<1> DEFINE x == [req[r] EXCEPT !.saw = EmptyUsage, !.day = 0, !.at = "readUse"]
<1>1. req[r] \in Request /\ Proper(req[r]) /\ req[r].at = "putFee"
  BY DEF RequestsTyped, PutFee
<1>2. {"putFee", "readUse"} \subseteq InFlight /\ TRUE \in BOOLEAN /\ 0 \in (0..MinuteLimit) \cap Nat
  BY RequestAssumption DEF InFlight
<1>3. req' = [req EXCEPT ![r] = x]
  BY DEF PutFee
<1>4. x \in Request
  BY <1>1, <1>2, MovedWith, EmptyTally
<1>5. x.at = "readUse" /\ x.key = req[r].key /\ x.saw = EmptyUsage
  BY <1>1 DEF Request
<1> HIDE DEF x
<1>6. Steps(r, x)
  BY <1>1, <1>2, <1>3, <1>4, <1>5 DEF Steps, Becomes, Proper
<1>7. usage' \in [Keys -> Tally] /\ UNCHANGED <<minute, day>>
  BY ChargedTyped DEF PutFee, PutToday, CountersTyped
<1> QED BY <1>6, <1>7 DEF CountersTyped

LEMMA PutUseSteps ==
    ASSUME RequestsTyped, CountersTyped, NEW r \in Requests, PutUse(r)
    PROVE  /\ \E x : Steps(r, x) /\ x.at = "ok"
           /\ CountersTyped'
<1> DEFINE x == [req[r] EXCEPT !.saw = EmptyUsage, !.at = "ok"]
<1>1. req[r] \in Request /\ Proper(req[r]) /\ req[r].at = "putUse"
  BY DEF RequestsTyped, PutUse
<1>2. "putUse" \in InFlight /\ "ok" \notin InFlight /\ TRUE \in BOOLEAN /\ 0 \in 0..MinuteLimit
  BY RequestAssumption DEF InFlight
<1>3. req' = [req EXCEPT ![r] = x]
  BY DEF PutUse
<1>4. x \in Request
  BY <1>1, <1>2, MovedWith, EmptyTally
<1>5. x.at = "ok" /\ x.key = req[r].key /\ x.saw = EmptyUsage
  BY <1>1 DEF Request
<1> HIDE DEF x
<1>6. Steps(r, x)
  BY <1>1, <1>2, <1>3, <1>4, <1>5 DEF Steps, Becomes, Proper
<1>7. usage' \in [Keys -> Tally] /\ UNCHANGED <<minute, day>>
  BY ChargedTyped DEF PutUse, PutToday, CountersTyped
<1> QED BY <1>5, <1>6, <1>7 DEF CountersTyped

\* An answer stays, so the answered requests become no fewer.
LEMMA AnsweredGrows ==
    ASSUME \A q \in Requests : req[q].at = "ok" => req'[q].at = "ok"
    PROVE  /\ Answered \subseteq Answered' /\ IsFiniteSet(Answered) /\ IsFiniteSet(Answered')
           /\ Cardinality(Answered) \in Nat /\ Cardinality(Answered') \in Nat
           /\ Cardinality(Answered) <= Cardinality(Answered')
<1>1. IsFiniteSet(Requests)
  BY RequestAssumption
<1>2. Answered \subseteq Requests /\ Answered' \subseteq Requests /\ Answered \subseteq Answered'
  BY DEF Answered
<1>3. IsFiniteSet(Answered) /\ IsFiniteSet(Answered')
  BY <1>1, <1>2, FS_Subset
<1> QED BY <1>2, <1>3, FS_Subset, FS_CardinalityType

\* A step of a request that puts no record keeps the invariant.
LEMMA StepsKeep ==
    ASSUME TallyInv, CountersTyped', UNCHANGED usage, NEW r \in Requests, NEW x, Steps(r, x)
    PROVE  TallyInv'
<1> USE DEF TallyInv
<1>1. \A q \in Requests : req'[q] = IF q = r THEN x ELSE req[q]
  BY DEF Steps, RequestsTyped
<1>2. RequestsTyped'
  BY <1>1 DEF Steps, Becomes, RequestsTyped
<1>3. \A q \in Requests : req[q].at = "ok" => req'[q].at = "ok"
  BY <1>1 DEF Steps, Becomes
<1> DEFINE n == Cardinality(Answered)
           m == Cardinality(Answered')
<1>4. n \in Nat /\ m \in Nat /\ n <= m
  BY <1>3, AnsweredGrows
<1>5. /\ \A k \in Keys : usage[k].requests \in Nat /\ usage[k].requests <= n
      /\ \A q \in Requests : req[q].saw.requests \in Nat /\ req[q].saw.requests <= n
  BY DEF CountsAnswered, CountersTyped, RequestsTyped, Request, Tally
<1> HIDE DEF n, m
<1>6. x.saw.requests \in Nat /\ x.saw.requests <= m
  BY <1>4, <1>5, EmptyTally DEF Steps, Becomes
<1>7. \A q \in Requests : req'[q].saw.requests <= m
  BY <1>1, <1>4, <1>5, <1>6
<1>8. \A k \in Keys : usage'[k].requests <= m
  BY <1>4, <1>5
<1>9. CountsAnswered'
  BY <1>7, <1>8 DEF CountsAnswered, m
<1> QED BY <1>2, <1>9

\* A record put back counts what its request had read, and itself if it is
\* answered by that.
LEMMA PutsKeep ==
    ASSUME TallyInv, NEW r \in Requests, PutFee(r) \/ PutUse(r)
    PROVE  TallyInv'
<1> USE DEF TallyInv
<1>1. CountersTyped'
  BY PutFeeSteps, PutUseSteps
<1>2. PICK x : Steps(r, x) /\ (PutUse(r) => x.at = "ok")
  <2>1. CASE PutUse(r)
    BY <2>1, PutUseSteps
  <2>2. CASE ~PutUse(r)
    BY <2>2, PutFeeSteps
  <2> QED BY <2>1, <2>2
<1>3. \A q \in Requests : req'[q] = IF q = r THEN x ELSE req[q]
  BY <1>2 DEF Steps, RequestsTyped
<1>4. RequestsTyped'
  BY <1>2, <1>3 DEF Steps, Becomes, RequestsTyped
<1>5. \A q \in Requests : req[q].at = "ok" => req'[q].at = "ok"
  BY <1>2, <1>3 DEF Steps, Becomes
<1> DEFINE n == Cardinality(Answered)
           m == Cardinality(Answered')
<1>6. n \in Nat /\ m \in Nat /\ n <= m /\ IsFiniteSet(Answered) /\ Answered \subseteq Answered'
      /\ IsFiniteSet(Answered')
  BY <1>5, AnsweredGrows
<1>7. PutUse(r) => n + 1 <= m
  <2> SUFFICES ASSUME PutUse(r) PROVE n + 1 <= m
    OBVIOUS
  <2>1. r \notin Answered /\ Answered \cup {r} \subseteq Answered'
    BY <1>2, <1>3, <1>6 DEF Steps, Becomes, Answered
  <2>2. Cardinality(Answered \cup {r}) = n + 1
    BY <1>6, <2>1, FS_AddElement
  <2>3. Cardinality(Answered \cup {r}) <= m
    BY <1>6, <2>1, FS_Subset
  <2> QED BY <2>2, <2>3
<1>8. /\ \A k \in Keys : usage[k].requests \in Nat /\ usage[k].requests <= n
      /\ \A q \in Requests : req[q].saw.requests \in Nat /\ req[q].saw.requests <= n
  BY DEF CountsAnswered, CountersTyped, RequestsTyped, Request, Tally
<1>9. PICK c \in Nat : /\ c <= m
                       /\ \A k \in Keys : usage'[k].requests \in {usage[k].requests, c}
  <2>1. CASE PutUse(r)
    <3>1. req[r].saw.requests + 1 \in Nat /\ req[r].saw.requests + 1 <= m
      BY <1>6, <1>7, <1>8, <2>1
    <3>2. \A k \in Keys : usage'[k].requests \in {usage[k].requests, req[r].saw.requests + 1}
      BY <2>1, ChargedTyped DEF PutUse, PutToday, CountersTyped
    <3> QED BY <3>1, <3>2
  <2>2. CASE PutFee(r)
    <3>1. req[r].saw.requests \in Nat /\ req[r].saw.requests <= m
      BY <1>6, <1>8
    <3>2. \A k \in Keys : usage'[k].requests \in {usage[k].requests, req[r].saw.requests}
      BY <2>2, ChargedTyped DEF PutFee, PutToday, CountersTyped
    <3> QED BY <3>1, <3>2
  <2> QED BY <2>1, <2>2
<1> HIDE DEF n, m
<1>10. \A k \in Keys : usage'[k].requests <= m
  BY <1>6, <1>8, <1>9
<1>11. x.saw.requests <= m
  BY <1>2, <1>6, <1>8, EmptyTally DEF Steps, Becomes
<1>12. \A q \in Requests : req'[q].saw.requests <= m
  BY <1>3, <1>6, <1>8, <1>11
<1>13. CountsAnswered'
  BY <1>10, <1>12 DEF CountsAnswered, m
<1> QED BY <1>1, <1>4, <1>13

\* The requests of a step that leaves every one of them its place, or lets
\* it arrive: the records are counted as before.
LEMMA OthersKeep ==
    ASSUME TallyInv, CountersTyped', RequestsTyped',
           \A k \in Keys : usage'[k].requests \in {usage[k].requests, 0},
           \A q \in Requests : /\ req[q].at = "ok" => req'[q].at = "ok"
                               /\ req'[q].saw \in {req[q].saw, EmptyUsage}
    PROVE  TallyInv'
<1> USE DEF TallyInv
<1> DEFINE n == Cardinality(Answered)
           m == Cardinality(Answered')
<1>1. n \in Nat /\ m \in Nat /\ n <= m
  BY AnsweredGrows
<1>2. /\ \A k \in Keys : usage[k].requests \in Nat /\ usage[k].requests <= n
      /\ \A q \in Requests : req[q].saw.requests \in Nat /\ req[q].saw.requests <= n
  BY DEF CountsAnswered, CountersTyped, RequestsTyped, Request, Tally
<1> HIDE DEF n, m
<1>3. \A k \in Keys : usage'[k].requests <= m
  BY <1>1, <1>2
<1>4. \A q \in Requests : req'[q].saw.requests <= m
  BY <1>1, <1>2, EmptyTally
<1>5. CountsAnswered'
  BY <1>3, <1>4 DEF CountsAnswered, m
<1> QED BY <1>5

LEMMA ArriveKeeps ==
    ASSUME TallyInv, NEW r \in Requests, NEW k \in Keys, Arrive(r, k)
    PROVE  TallyInv'
<1> USE DEF TallyInv
<1> DEFINE others == {q \in Requests : req[q].at \in InFlight /\ req[q].key = k}
           b == others # {}
           v == meta[k] # None /\ ~meta[k].active
           s(q) == req[q].shared \/ q \in others
           new == [IdleRequest EXCEPT !.at = "auth", !.key = k, !.shared = b, !.revoked = v]
           old(q) == [req[q] EXCEPT !.shared = s(q)]
<1>1. /\ req' = [q \in Requests |-> IF q = r THEN new ELSE old(q)]
      /\ UNCHANGED <<usage, minute, day>> /\ req[r].at = "idle"
  BY DEF Arrive, kv
<1>2. b \in BOOLEAN /\ v \in BOOLEAN /\ \A q \in Requests : s(q) \in BOOLEAN
  OBVIOUS
<1> HIDE DEF others, b, v, s
<1>3. new \in Request /\ Proper(new) /\ new.saw = EmptyUsage
  <2> HIDE DEF new
  <2>0. new = [IdleRequest EXCEPT !.at = "auth", !.key = k, !.shared = b, !.revoked = v]
    BY DEF new
  <2>1. new = [at |-> "auth", key |-> k, saw |-> EmptyUsage, minutes |-> 0, day |-> 0,
               sameMinute |-> TRUE, estimate |-> 0, fee |-> 0, taken |-> FALSE, revoked |-> v,
               shared |-> b]
    BY <2>0 DEF IdleRequest
  <2>2. "auth" \in InFlight /\ 0 \in (0..MinuteLimit) \cap Nat
    BY RequestAssumption DEF InFlight
  <2> QED BY <1>2, <2>1, <2>2, EmptyTally DEF Request, Proper
<1>4. ASSUME NEW q \in Requests
      PROVE  old(q) \in Request /\ Proper(old(q)) /\ old(q).saw = req[q].saw /\ old(q).at = req[q].at
  <2>1. req[q] \in Request /\ Proper(req[q]) /\ s(q) \in BOOLEAN
    BY <1>2 DEF RequestsTyped
  <2> QED BY <2>1 DEF Request, Proper
<1> HIDE DEF new, old
<1>5. RequestsTyped'
  BY <1>1, <1>3, <1>4 DEF RequestsTyped
<1>6. \A q \in Requests : /\ req[q].at = "ok" => req'[q].at = "ok"
                          /\ req'[q].saw \in {req[q].saw, EmptyUsage}
  BY <1>1, <1>3, <1>4
<1>7. CountersTyped' /\ \A j \in Keys : usage'[j].requests = usage[j].requests
  BY <1>1 DEF CountersTyped
<1> QED BY <1>5, <1>6, <1>7, OthersKeep

LEMMA TimeKeeps ==
    ASSUME TallyInv, NextMinute \/ NextDay
    PROVE  TallyInv'
<1> USE DEF TallyInv
<1> DEFINE s(q) == req[q].sameMinute /\ req[q].at # "count"
           old(q) == [req[q] EXCEPT !.sameMinute = s(q)]
<1>1. req' = [q \in Requests |-> old(q)]
  BY DEF NextMinute, NextDay, NewMinute
<1>2. ASSUME NEW q \in Requests
      PROVE  old(q) \in Request /\ Proper(old(q)) /\ old(q).saw = req[q].saw /\ old(q).at = req[q].at
  <2>1. req[q] \in Request /\ Proper(req[q]) /\ s(q) \in BOOLEAN
    BY DEF RequestsTyped
  <2> HIDE DEF s
  <2> QED BY <2>1 DEF Request, Proper
<1> HIDE DEF old
<1>3. RequestsTyped'
  BY <1>1, <1>2 DEF RequestsTyped
<1>4. \A q \in Requests : req'[q].at = req[q].at /\ req'[q].saw = req[q].saw
  BY <1>1, <1>2
<1>5. minute' \in [Keys -> 0..MinuteLimit] /\ day' \in Nat
  BY RequestAssumption DEF NextMinute, NextDay, NewMinute, CountersTyped
<1>6. usage' \in [Keys -> Tally] /\ \A j \in Keys : usage'[j].requests \in {usage[j].requests, 0}
  BY EmptyTally DEF NextMinute, NextDay, CountersTyped
<1> QED BY <1>3, <1>4, <1>5, <1>6, OthersKeep DEF CountersTyped

\* Provisioning and the operator touch neither requests nor records.
LEMMA KeyStepsKeep == ASSUME TallyInv, UNCHANGED <<usage, minute, day, req>> PROVE TallyInv'
BY DEF TallyInv, CountersTyped, RequestsTyped, CountsAnswered, Answered

LEMMA InitTally == Init => TallyInv
<1> SUFFICES ASSUME Init PROVE TallyInv
  OBVIOUS
<1>1. CountersTyped
  BY EmptyTally, RequestAssumption DEF Init, CountersTyped
<1>2. RequestsTyped
  BY IdleTyped DEF Init, RequestsTyped
<1>3. Answered = {} /\ Cardinality(Answered) = 0
  BY FS_EmptySet DEF Init, Answered, IdleRequest
<1>4. \A r \in Requests : req[r].saw = EmptyUsage
  BY DEF Init, IdleRequest
<1>5. CountsAnswered
  BY <1>3, <1>4, EmptyTally DEF Init, CountsAnswered
<1> QED BY <1>1, <1>2, <1>5 DEF TallyInv

LEMMA NextTally == ASSUME TallyInv, [Next]_vars PROVE TallyInv'
<1>1. ASSUME NEW r \in Requests, NEW k \in Keys, Arrive(r, k) PROVE TallyInv'
  BY <1>1, ArriveKeeps
<1>2. ASSUME NEW r \in Requests,
             \/ Authenticate(r) \/ TurnAway(r) \/ CheckLimits(r)
             \/ \E e \in Estimates : CheckCap(r, e)
             \/ \E f \in Fees : Sponsor(r, f)
             \/ \E taken, heard \in BOOLEAN : Send(r, taken, heard)
             \/ ReadUsage(r) \/ RequestStops(r)
      PROVE  TallyInv'
  <2>1. CountersTyped /\ RequestsTyped
    BY DEF TallyInv
  <2>2. \E x : Steps(r, x)
    BY <1>2, <2>1, AuthenticateSteps, EndSteps, CheckLimitsSteps, CheckCapSteps, SponsorSteps,
       SendSteps, ReadUsageSteps
  <2>3. UNCHANGED <<usage, minute, day>>
    BY <1>2 DEF Authenticate, TurnAway, CheckLimits, CheckCap, Sponsor, Send, ReadUsage,
                RequestStops, kv
  <2>4. CountersTyped'
    BY <2>1, <2>3 DEF CountersTyped
  <2> QED BY <2>2, <2>3, <2>4, StepsKeep
<1>3. ASSUME NEW r \in Requests, CountMinute(r) PROVE TallyInv'
  <2>1. (\E x : Steps(r, x)) /\ CountersTyped'
    BY <1>3, CountMinuteSteps DEF TallyInv
  <2> QED BY <1>3, <2>1, StepsKeep DEF CountMinute
<1>4. ASSUME NEW r \in Requests, PutFee(r) \/ PutUse(r) PROVE TallyInv'
  BY <1>4, PutsKeep
<1>5. CASE NextMinute \/ NextDay
  BY <1>5, TimeKeeps
<1>6. ASSUME UNCHANGED <<usage, minute, day, req>> PROVE TallyInv'
  BY <1>6, KeyStepsKeep
<1>7. CASE \/ AdminPuts \/ UNCHANGED vars
           \/ \E k \in Keys, op \in {"revoke", "renew"} : AdminReads(op, k)
           \/ \E p \in Provisions : \/ \E n \in Names : ProvisionLooks(p, n)
                                    \/ \E k \in Keys : StoreMeta(p, k)
                                    \/ StoreId(p) \/ StoreIndex(p) \/ ProvisionStops(p)
  <2>1. UNCHANGED <<usage, minute, day, req>>
    BY <1>7 DEF AdminPuts, vars, AdminReads, ProvisionLooks, StoreMeta, StoreId, StoreIndex,
                ProvisionStops, kv
  <2> QED BY <1>6, <2>1
<1> QED BY <1>1, <1>2, <1>3, <1>4, <1>5, <1>7 DEF Next

\* TypeOK: no step takes a counter past its limit, a record past the
\* requests there are or a field out of its range. The count per minute
\* needs that a request which is about to put it has found room in what it
\* read (auth.ts:193-271), the record that an answered request is
\* counted once (auth.ts:276-311).
THEOREM TypeCorrect == Spec => []TypeOK
<1>1. Init => KeyInv /\ TallyInv
  BY InitKeys, InitTally
<1>2. KeyInv /\ TallyInv /\ [Next]_vars => KeyInv' /\ TallyInv'
  BY NextKeepsKeys, NextTally
<1>3. KeyInv /\ TallyInv => TypeOK
  <2> SUFFICES ASSUME KeyInv, TallyInv PROVE TypeOK
    OBVIOUS
  <2> DEFINE N == Cardinality(Requests)
             n == Cardinality(Answered)
  <2>1. N \in Nat /\ n \in Nat /\ n <= N
    BY RequestAssumption, FS_Subset, FS_CardinalityType DEF Answered
  <2> HIDE DEF n
  <2>2. ASSUME NEW u \in Tally, u.requests <= n PROVE u \in Usage
    <3>1. u.requests \in 0..N
      BY <2>1, <2>2 DEF Tally
    <3> HIDE DEF N
    <3> QED BY <2>2, <3>1 DEF Tally, Usage, N
  <2>3. /\ usage \in [Keys -> Tally] /\ minute \in [Keys -> 0..MinuteLimit]
        /\ \A k \in Keys : usage[k].requests <= n
    BY DEF TallyInv, CountersTyped, CountsAnswered, n
  <2>4. usage \in [Keys -> Usage]
    BY <2>2, <2>3
  <2>5. /\ \A r \in Requests : req[r] \in Request
        /\ \A r \in Requests : req[r].saw.requests <= n
    BY DEF TallyInv, RequestsTyped, CountsAnswered, n
  <2>6. ASSUME NEW r \in Requests
        PROVE  /\ req[r].at \in InFlight \cup {"idle", "failed", "ok"}
               /\ req[r].key \in Keys \cup {None}
               /\ req[r].saw \in Usage
               /\ req[r].minutes \in 0..MinuteLimit
               /\ req[r].estimate \in Estimates \cup {0} /\ req[r].fee \in Fees \cup {0}
    <3>1. req[r] \in Request
      BY <2>5
    <3>2. req[r].saw \in Tally
      BY <3>1 DEF Request
    <3>3. req[r].saw \in Usage
      BY <2>2, <2>5, <3>2
    <3> QED BY <3>1, <3>3 DEF Request
  <2>7. admin # None => admin.key \in Keys /\ admin.saw \in Metadata
    BY DEF KeyInv, Shapes, ReadIsCurrent, Stored
  <2>8. \A p \in Provisions :
           /\ prov[p].at \in {"idle", "refused", "key", "id", "index", "told", "stopped"}
           /\ prov[p].name \in Names \cup {None}
           /\ prov[p].key \in Keys \cup {None}
    BY DEF KeyInv, Shapes, Invocation
  <2>9. /\ meta \in [Keys -> Metadata \cup {None}] /\ byId \in [Keys -> BOOLEAN]
        /\ index \in [Names -> Keys \cup {None}] /\ day \in 0..MaxDay
    BY DEF KeyInv, Shapes
  <2> QED BY <2>3, <2>4, <2>6, <2>7, <2>8, <2>9 DEF TypeOK
<1> QED BY <1>1, <1>2, <1>3, PTL DEF Spec

--------------------------------------------------------------------------------
(* What a request does to itself on its way. *)

\* Steps at which a node has the request's transaction, and those behind the
\* check of the cap.
Charging == {"readFee", "putFee", "readUse", "putUse"}
Checked == {"sponsor", "send"} \cup Charging

Kin(r) == req'[r].key = req[r].key /\ req'[r].shared = req[r].shared
SameEstimate(r) == req'[r].estimate = req[r].estimate

\* It fails.
Fails(r) ==
    /\ req[r].at \in InFlight /\ req'[r].at = "failed"
    /\ req'[r].key = req[r].key /\ req'[r].day = 0
    /\ req'[r].taken => req'[r].fee = req[r].fee
    /\ req[r].at \in Charging => req'[r].taken = req[r].taken

\* It comes nearer to the broadcast.
Nears(r) ==
    /\ Kin(r) /\ req'[r].taken = req[r].taken /\ req'[r].day = req[r].day
    /\ req[r].at \in {"auth", "limits", "count", "cap", "sponsor"}
    /\ req'[r].at \in {"limits", "count", "cap", "sponsor", "send"}
    /\ req[r].at = "auth" => Valid(req[r].key)
    /\ req'[r].at = "sponsor" /\ IsFree(req[r].key)
          => WithinCap(usage[req[r].key].feesPaid, req'[r].estimate)
    /\ req'[r].at = "send" => req[r].at = "sponsor" /\ SameEstimate(r)

\* A node takes its transaction and says so.
Sends(r) ==
    /\ Kin(r) /\ SameEstimate(r) /\ req[r].at = "send" /\ req'[r].at = "readFee"
    /\ req'[r].taken /\ req'[r].fee = req[r].fee /\ req'[r].day = req[r].day

\* It gets today's record.
Reads(r) ==
    /\ Kin(r) /\ SameEstimate(r) /\ req'[r].taken = req[r].taken /\ req'[r].fee = req[r].fee
    /\ \/ req[r].at = "readFee" /\ req'[r].at = "putFee"
       \/ req[r].at = "readUse" /\ req'[r].at = "putUse"
    /\ req'[r].saw = usage[req[r].key] /\ req'[r].day = day

\* It puts the record back with its fee.
Puts(r) ==
    /\ Kin(r) /\ SameEstimate(r) /\ req'[r].taken = req[r].taken /\ req'[r].fee = req[r].fee
    /\ \/ req[r].at = "putFee" /\ req'[r].at = "readUse" /\ req'[r].day = 0
       \/ req[r].at = "putUse" /\ req'[r].at = "ok" /\ req'[r].day = req[r].day
    /\ \A k \in Keys :
          usage'[k].feesPaid = IF k = req[r].key /\ req[r].day = day
                               THEN req[r].saw.feesPaid + req[r].fee ELSE usage[k].feesPaid

OnlyMoves(r) == \A q \in Requests \ {r} : req'[q] = req[q]
Progress(r) ==
    /\ OnlyMoves(r) /\ UNCHANGED <<meta, day>>
    /\ \/ UNCHANGED usage /\ (Fails(r) \/ Nears(r) \/ Sends(r) \/ Reads(r))
       \/ Puts(r)

\* The fields of a request that ended.
LEMMA EndedFails ==
    ASSUME RequestsTyped, NEW r \in Requests, NEW taken \in BOOLEAN,
           req' = [req EXCEPT ![r] = Ended(r, taken)], req[r].at \in InFlight,
           req[r].at \in Charging => taken = req[r].taken
    PROVE  OnlyMoves(r) /\ Fails(r)
<1>1. /\ Ended(r, taken).at = "failed" /\ Ended(r, taken).key = req[r].key
      /\ Ended(r, taken).day = 0 /\ Ended(r, taken).taken = taken
      /\ taken => Ended(r, taken).fee = req[r].fee
  BY DEF Ended, IdleRequest
<1>2. req'[r] = Ended(r, taken) /\ OnlyMoves(r)
  BY DEF RequestsTyped, OnlyMoves
<1> QED BY <1>1, <1>2 DEF Fails

\* Every operation of a request but its arrival is one of these.
LEMMA Progresses ==
    ASSUME CountersTyped, RequestsTyped, NEW r \in Requests, RequestStep(r),
           \A k \in Keys : ~Arrive(r, k)
    PROVE  Progress(r)
<1> DEFINE x == req[r]
<1>1. x \in Request /\ req \in [Requests -> Request]
  BY DEF RequestsTyped
<1>2. ASSUME NEW y, req' = [req EXCEPT ![r] = y] PROVE req'[r] = y /\ OnlyMoves(r)
  BY <1>1, <1>2 DEF OnlyMoves
<1>3. UNCHANGED <<meta, day>>
  BY DEF RequestStep, Authenticate, TurnAway, CheckLimits, CountMinute, CheckCap, Sponsor, Send,
         ReadUsage, PutFee, PutUse, RequestStops, kv
<1>4. FALSE \in BOOLEAN
  OBVIOUS
<1>5. CASE Authenticate(r)
  <2>1. x.at = "auth" /\ UNCHANGED usage
    BY <1>5 DEF Authenticate, kv
  <2>2. CASE Valid(x.key)
    <3>1. req'[r] = [x EXCEPT !.at = "limits"] /\ OnlyMoves(r)
      BY <1>2, <1>5, <2>2 DEF Authenticate
    <3>2. Nears(r)
      BY <1>1, <2>1, <2>2, <3>1 DEF Request, Nears, Kin, SameEstimate
    <3> QED BY <1>3, <2>1, <3>1, <3>2 DEF Progress
  <2>3. CASE ~Valid(x.key)
    <3>1. req' = [req EXCEPT ![r] = Ended(r, FALSE)]
      BY <1>5, <2>3 DEF Authenticate
    <3> QED BY <1>3, <1>4, <2>1, <3>1, EndedFails DEF Progress, InFlight, Charging
  <2> QED BY <2>2, <2>3
<1>6. CASE TurnAway(r)
  <2>1. req' = [req EXCEPT ![r] = Ended(r, FALSE)] /\ x.at \in {"limits", "sponsor"} /\ UNCHANGED usage
    BY <1>6 DEF TurnAway, kv
  <2> QED BY <1>3, <1>4, <2>1, EndedFails DEF Progress, InFlight, Charging
<1>7. CASE CheckLimits(r)
  <2>1. x.at = "limits" /\ UNCHANGED usage
    BY <1>7 DEF CheckLimits, kv
  <2> DEFINE full == minute[x.key] >= MinuteLimit \/ usage[x.key].requests >= DailyLimit
  <2>2. CASE ~IsFree(x.key)
    <3>1. req'[r] = [x EXCEPT !.at = "cap"] /\ OnlyMoves(r)
      BY <1>2, <1>7, <2>2 DEF CheckLimits
    <3>2. Nears(r)
      BY <1>1, <2>1, <3>1 DEF Request, Nears, Kin, SameEstimate
    <3> QED BY <1>3, <2>1, <3>1, <3>2 DEF Progress
  <2>3. CASE IsFree(x.key) /\ full
    <3>1. req' = [req EXCEPT ![r] = Ended(r, FALSE)]
      BY <1>7, <2>3 DEF CheckLimits
    <3> QED BY <1>3, <1>4, <2>1, <3>1, EndedFails DEF Progress, InFlight, Charging
  <2>4. CASE IsFree(x.key) /\ ~full
    <3> DEFINE m == minute[x.key]
    <3>1. req'[r] = [x EXCEPT !.minutes = m, !.at = "count"] /\ OnlyMoves(r)
      BY <1>2, <1>7, <2>4 DEF CheckLimits
    <3>2. Nears(r)
      BY <1>1, <2>1, <3>1 DEF Request, Nears, Kin, SameEstimate
    <3> QED BY <1>3, <2>1, <3>1, <3>2 DEF Progress
  <2> QED BY <2>2, <2>3, <2>4
<1>8. CASE CountMinute(r)
  <2>1. x.at = "count" /\ UNCHANGED usage
    BY <1>8 DEF CountMinute
  <2> DEFINE y == [x EXCEPT !.minutes = 0, !.sameMinute = TRUE, !.at = "cap"]
  <2>2. req' = [req EXCEPT ![r] = y]
    BY <1>8 DEF CountMinute
  <2>3. req'[r] = y /\ OnlyMoves(r)
    BY <1>2, <2>2
  <2>4. Nears(r)
    BY <1>1, <2>1, <2>3 DEF Request, Nears, Kin, SameEstimate
  <2> QED BY <1>3, <2>1, <2>3, <2>4 DEF Progress
<1>9. ASSUME NEW e \in Estimates, CheckCap(r, e) PROVE Progress(r)
  <2>1. x.at = "cap" /\ UNCHANGED usage
    BY <1>9 DEF CheckCap, kv
  <2> DEFINE fits == IsFree(x.key) => WithinCap(usage[x.key].feesPaid, e)
  <2>2. CASE fits
    <3>1. req'[r] = [x EXCEPT !.at = "sponsor", !.estimate = e] /\ OnlyMoves(r)
      BY <1>2, <1>9, <2>2 DEF CheckCap
    <3>2. /\ Kin(r) /\ req'[r].taken = x.taken /\ req'[r].day = x.day /\ req'[r].at = "sponsor"
          /\ req'[r].estimate = e
      BY <1>1, <3>1 DEF Request, Kin
    <3>3. Nears(r)
      BY <2>1, <2>2, <3>2 DEF Nears
    <3> QED BY <1>3, <2>1, <3>1, <3>3 DEF Progress
  <2>3. CASE ~fits
    <3>1. req' = [req EXCEPT ![r] = Ended(r, FALSE)]
      BY <1>9, <2>3 DEF CheckCap
    <3> QED BY <1>3, <1>4, <2>1, <3>1, EndedFails DEF Progress, InFlight, Charging
  <2> QED BY <2>2, <2>3
<1>10. ASSUME NEW f \in Fees, Sponsor(r, f) PROVE Progress(r)
  <2>1. x.at = "sponsor" /\ UNCHANGED usage
    BY <1>10 DEF Sponsor, kv
  <2> DEFINE y == [x EXCEPT !.fee = f, !.at = "send"]
  <2>2. req' = [req EXCEPT ![r] = y]
    BY <1>10 DEF Sponsor
  <2>3. req'[r] = y /\ OnlyMoves(r)
    BY <1>2, <2>2
  <2>4. Nears(r)
    BY <1>1, <2>1, <2>3 DEF Request, Nears, Kin, SameEstimate
  <2> QED BY <1>3, <2>1, <2>3, <2>4 DEF Progress
<1>11. ASSUME NEW taken \in BOOLEAN, NEW heard \in BOOLEAN, Send(r, taken, heard) PROVE Progress(r)
  <2>1. x.at = "send" /\ UNCHANGED usage
    BY <1>11 DEF Send, kv
  <2>2. CASE heard
    <3>1. req'[r] = [x EXCEPT !.taken = TRUE, !.at = "readFee"] /\ OnlyMoves(r)
      BY <1>2, <1>11, <2>2 DEF Send
    <3>2. Sends(r)
      BY <1>1, <2>1, <3>1 DEF Request, Sends, Kin, SameEstimate
    <3> QED BY <1>3, <2>1, <3>1, <3>2 DEF Progress
  <2>3. CASE ~heard
    <3>1. req' = [req EXCEPT ![r] = Ended(r, taken)]
      BY <1>11, <2>3 DEF Send
    <3> QED BY <1>3, <2>1, <3>1, EndedFails DEF Progress, InFlight, Charging
  <2> QED BY <2>2, <2>3
<1>12. CASE ReadUsage(r)
  <2>1. x.at \in {"readFee", "readUse"} /\ UNCHANGED usage
    BY <1>12 DEF ReadUsage, kv
  <2> DEFINE at == IF x.at = "readFee" THEN "putFee" ELSE "putUse"
             u == usage[x.key]
             y == [x EXCEPT !.saw = u, !.day = day, !.at = at]
  <2>2. req' = [req EXCEPT ![r] = y]
    BY <1>12 DEF ReadUsage
  <2>3. req'[r] = y /\ OnlyMoves(r)
    BY <1>2, <2>2
  <2> HIDE DEF at, u
  <2>4. /\ Kin(r) /\ SameEstimate(r) /\ req'[r].taken = x.taken /\ req'[r].fee = x.fee /\ req'[r].at = at
        /\ req'[r].saw = u /\ req'[r].day = day
    BY <1>1, <2>3 DEF Request, Kin, SameEstimate
  <2>5. Reads(r)
    BY <2>1, <2>4 DEF Reads, at, u
  <2> QED BY <1>3, <2>1, <2>3, <2>5 DEF Progress
<1>13. CASE RequestStops(r)
  <2>1. req' = [req EXCEPT ![r] = Ended(r, x.taken)] /\ x.at \in InFlight /\ UNCHANGED usage
    BY <1>13 DEF RequestStops, kv
  <2>2. x.taken \in BOOLEAN
    BY <1>1 DEF Request
  <2> QED BY <1>3, <2>1, <2>2, EndedFails DEF Progress
<1>14. ASSUME NEW record, PutToday(r, record),
              record.feesPaid = x.saw.feesPaid + x.fee,
              req[r].at \in {"putFee", "putUse"}
       PROVE  \A k \in Keys :
                 usage'[k].feesPaid = IF k = x.key /\ x.day = day
                                      THEN x.saw.feesPaid + x.fee ELSE usage[k].feesPaid
  BY <1>14 DEF PutToday, CountersTyped
<1>15. Charged(r).feesPaid = x.saw.feesPaid + x.fee
       /\ [Charged(r) EXCEPT !.requests = @ + 1].feesPaid = x.saw.feesPaid + x.fee
  <2> DEFINE w == x.saw
             c == x.fee
  <2>1. w \in Tally
    BY <1>1 DEF Request
  <2>2. Charged(r) = [w EXCEPT !.feesPaid = @ + c]
    BY DEF Charged
  <2> HIDE DEF w, c
  <2>3. Charged(r) = [requests |-> w.requests, feesPaid |-> w.feesPaid + c]
    BY <2>1, <2>2 DEF Tally
  <2>4. w.feesPaid + c = x.saw.feesPaid + x.fee
    BY DEF w, c
  <2> QED BY <2>3, <2>4
<1>16. CASE PutFee(r)
  <2> DEFINE y == [x EXCEPT !.saw = EmptyUsage, !.day = 0, !.at = "readUse"]
  <2>1. x.at = "putFee" /\ req' = [req EXCEPT ![r] = y] /\ PutToday(r, Charged(r))
    BY <1>16 DEF PutFee
  <2>2. req'[r] = y /\ OnlyMoves(r)
    BY <1>2, <2>1
  <2>3. /\ Kin(r) /\ SameEstimate(r) /\ req'[r].taken = x.taken /\ req'[r].fee = x.fee
        /\ req'[r].at = "readUse" /\ req'[r].day = 0
    BY <1>1, <2>2 DEF Request, Kin, SameEstimate
  <2>4. Puts(r)
    BY <1>14, <1>15, <2>1, <2>3 DEF Puts
  <2> QED BY <1>3, <2>2, <2>4 DEF Progress
<1>17. CASE PutUse(r)
  <2> DEFINE y == [x EXCEPT !.saw = EmptyUsage, !.at = "ok"]
  <2>1. /\ x.at = "putUse" /\ req' = [req EXCEPT ![r] = y]
        /\ PutToday(r, [Charged(r) EXCEPT !.requests = @ + 1])
    BY <1>17 DEF PutUse
  <2>2. req'[r] = y /\ OnlyMoves(r)
    BY <1>2, <2>1
  <2>3. /\ Kin(r) /\ SameEstimate(r) /\ req'[r].taken = x.taken /\ req'[r].fee = x.fee
        /\ req'[r].at = "ok" /\ req'[r].day = x.day
    BY <1>1, <2>2 DEF Request, Kin, SameEstimate
  <2>4. Puts(r)
    BY <1>14, <1>15, <2>1, <2>3 DEF Puts
  <2> QED BY <1>3, <2>2, <2>4 DEF Progress
<1> QED BY <1>5, <1>6, <1>7, <1>8, <1>9, <1>10, <1>11, <1>12, <1>13, <1>16, <1>17 DEF RequestStep

\* A request that another one's arrival, the clock or an operation of keys
\* leaves where it is.
Waits(q) == /\ req'[q].at = req[q].at /\ req'[q].key = req[q].key /\ req'[q].taken = req[q].taken
            /\ req'[q].fee = req[q].fee /\ req'[q].saw = req[q].saw /\ req'[q].day = req[q].day
            /\ req'[q].estimate = req[q].estimate

Beside(k) == {q \in Requests : req[q].at \in InFlight /\ req[q].key = k}

\* A request comes with key k, beside those of its key that are under way.
Comes(r, k) ==
    /\ req[r].at = "idle" /\ req'[r].at = "auth" /\ req'[r].key = k
    /\ ~req'[r].taken /\ req'[r].day = 0
    /\ req'[r].shared = (Beside(k) # {})
    /\ \A q \in Requests \ {r} : Waits(q) /\ (req'[q].shared = (req[q].shared \/ q \in Beside(k)))
    /\ UNCHANGED <<meta, usage, day>>

\* Nobody moves; at most a day ends.
Rests ==
    /\ \A q \in Requests : Waits(q) /\ req'[q].shared = req[q].shared
    /\ \/ UNCHANGED <<usage, day>>
       \/ day' = day + 1 /\ usage' = [k \in Keys |-> EmptyUsage]

LEMMA ArriveComes ==
    ASSUME RequestsTyped, NEW r \in Requests, NEW k \in Keys, Arrive(r, k)
    PROVE  Comes(r, k)
<1> DEFINE b == Beside(k) # {}
           v == meta[k] # None /\ ~meta[k].active
           s(q) == req[q].shared \/ q \in Beside(k)
           new == [IdleRequest EXCEPT !.at = "auth", !.key = k, !.shared = b, !.revoked = v]
           old(q) == [req[q] EXCEPT !.shared = s(q)]
<1>1. /\ req' = [q \in Requests |-> IF q = r THEN new ELSE old(q)]
      /\ UNCHANGED <<meta, usage, day>> /\ req[r].at = "idle"
  BY DEF Arrive, kv, Beside
<1> HIDE DEF b, v, s
<1>2. new.at = "auth" /\ new.key = k /\ new.taken = FALSE /\ new.day = 0 /\ new.shared = b
  BY DEF IdleRequest
<1>3. ASSUME NEW q \in Requests
      PROVE  /\ old(q).at = req[q].at /\ old(q).key = req[q].key /\ old(q).taken = req[q].taken
             /\ old(q).fee = req[q].fee /\ old(q).saw = req[q].saw /\ old(q).day = req[q].day
             /\ old(q).estimate = req[q].estimate
             /\ old(q).shared = s(q)
  <2>1. req[q] \in Request
    BY DEF RequestsTyped
  <2> QED BY <2>1 DEF Request
<1> HIDE DEF new, old
<1>4. req'[r] = new /\ \A q \in Requests \ {r} : req'[q] = old(q)
  BY <1>1
<1>5. \A q \in Requests \ {r} : Waits(q) /\ req'[q].shared = s(q)
  BY <1>3, <1>4 DEF Waits
<1>6. /\ b = (Beside(k) # {})
      /\ \A q \in Requests \ {r} : s(q) = (req[q].shared \/ q \in Beside(k))
  BY Zenon DEF b, s
<1>7. /\ req[r].at = "idle" /\ req'[r].at = "auth" /\ req'[r].key = k
      /\ ~req'[r].taken /\ req'[r].day = 0
  BY <1>1, <1>2, <1>4
<1>8. req'[r].shared = (Beside(k) # {})
  BY <1>2, <1>4, <1>6, Zenon
<1>9. \A q \in Requests \ {r} : Waits(q) /\ (req'[q].shared = (req[q].shared \/ q \in Beside(k)))
  BY <1>5, <1>6, Zenon
<1>10. UNCHANGED <<meta, usage, day>>
  BY <1>1
<1> QED BY <1>7, <1>8, <1>9, <1>10, Zenon DEF Comes

LEMMA TimeRests == ASSUME RequestsTyped, NextMinute \/ NextDay PROVE Rests
<1> DEFINE s(q) == req[q].sameMinute /\ req[q].at # "count"
           old(q) == [req[q] EXCEPT !.sameMinute = s(q)]
<1>1. req' = [q \in Requests |-> old(q)]
  BY DEF NextMinute, NextDay, NewMinute
<1>2. ASSUME NEW q \in Requests
      PROVE  /\ old(q).at = req[q].at /\ old(q).key = req[q].key /\ old(q).taken = req[q].taken
             /\ old(q).fee = req[q].fee /\ old(q).saw = req[q].saw /\ old(q).day = req[q].day
             /\ old(q).estimate = req[q].estimate
             /\ old(q).shared = req[q].shared
  <2>1. req[q] \in Request
    BY DEF RequestsTyped
  <2> HIDE DEF s
  <2> QED BY <2>1 DEF Request
<1> HIDE DEF old
<1>3. \A q \in Requests : Waits(q) /\ req'[q].shared = req[q].shared
  BY <1>1, <1>2 DEF Waits
<1>4. \/ UNCHANGED <<usage, day>>
      \/ day' = day + 1 /\ usage' = [k \in Keys |-> EmptyUsage]
  BY DEF NextMinute, NextDay
<1> QED BY <1>3, <1>4 DEF Rests

\* What a step may do to the requests.
LEMMA StepKinds ==
    ASSUME TallyInv, [Next]_vars
    PROVE  \/ \E r \in Requests, k \in Keys : Comes(r, k)
           \/ \E r \in Requests : Progress(r)
           \/ Rests
<1> USE DEF TallyInv
<1>1. ASSUME NEW r \in Requests, RequestStep(r) PROVE (\E k \in Keys : Comes(r, k)) \/ Progress(r)
  BY <1>1, ArriveComes, Progresses
<1>2. CASE NextMinute \/ NextDay
  BY <1>2, TimeRests
<1>3. ASSUME UNCHANGED <<usage, day, req>> PROVE Rests
  BY <1>3 DEF Rests, Waits
<1>4. CASE \/ AdminPuts \/ UNCHANGED vars
           \/ \E k \in Keys, op \in {"revoke", "renew"} : AdminReads(op, k)
           \/ \E p \in Provisions : \/ \E n \in Names : ProvisionLooks(p, n)
                                    \/ \E k \in Keys : StoreMeta(p, k)
                                    \/ StoreId(p) \/ StoreIndex(p) \/ ProvisionStops(p)
  <2>1. UNCHANGED <<usage, day, req>>
    BY <1>4 DEF AdminPuts, vars, AdminReads, ProvisionLooks, StoreMeta, StoreId, StoreIndex,
                ProvisionStops, kv
  <2> QED BY <1>3, <2>1
<1> QED BY <1>1, <1>2, <1>4 DEF Next, RequestStep

--------------------------------------------------------------------------------
(* Charges. *)

\* The requests of a key that may have charged it once, and twice.
Once(k) == {r \in Requests : /\ req[r].key = k /\ req[r].taken
                             /\ req[r].at \notin {"readFee", "putFee"}}
Twice(k) == {r \in Requests : /\ req[r].key = k /\ req[r].taken
                              /\ req[r].at \notin {"readFee", "putFee", "readUse", "putUse"}}
Due(k) == SumOfFees(Once(k)) + SumOfFees(Twice(k))

\* A request charges only after a node took its transaction.
TakenFirst ==
    \A r \in Requests : /\ req[r].at \in Charging => req[r].taken
                        /\ req[r].taken => req[r].at \in Charging \cup {"ok", "failed"}

\* No record and no copy of one holds more than its key may have been charged.
NothingUndue ==
    /\ \A k \in Keys : usage[k].feesPaid <= Due(k)
    /\ \A r \in Requests : req[r].at \in {"putFee", "putUse"} =>
          req[r].saw.feesPaid <= Due(req[r].key)

ChargeInv == TallyInv /\ TakenFirst /\ NothingUndue

\* A step keeps what a request has charged: its key, its fee and how far it is.
KeepsCharge(q) ==
    req[q].taken =>
        /\ req'[q].taken /\ req'[q].key = req[q].key /\ req'[q].fee = req[q].fee
        /\ req[q].at \notin {"readFee", "putFee"} => req'[q].at \notin {"readFee", "putFee"}
        /\ req[q].at \notin Charging => req'[q].at \notin Charging

LEMMA ChargesKept ==
    ASSUME TallyInv, TakenFirst, [Next]_vars
    PROVE  TakenFirst' /\ \A q \in Requests : KeepsCharge(q)
<1>1. ASSUME NEW q \in Requests, Waits(q) PROVE TakenFirst!(q)' /\ KeepsCharge(q)
  BY <1>1 DEF Waits, TakenFirst, KeepsCharge
<1>2. ASSUME NEW r \in Requests, NEW k \in Keys, Comes(r, k)
      PROVE  TakenFirst' /\ \A q \in Requests : KeepsCharge(q)
  <2>1. TakenFirst!(r)' /\ KeepsCharge(r)
    BY <1>2 DEF Comes, TakenFirst, KeepsCharge, Charging
  <2> QED BY <1>1, <1>2, <2>1 DEF Comes, TakenFirst
<1>3. ASSUME NEW r \in Requests, Progress(r)
      PROVE  TakenFirst' /\ \A q \in Requests : KeepsCharge(q)
  <2>1. TakenFirst!(r)' /\ KeepsCharge(r)
    <3>1. /\ req[r].at \in Charging => req[r].taken
          /\ req[r].taken => req[r].at \in Charging \cup {"ok", "failed"}
      BY DEF TakenFirst
    <3>2. CASE Fails(r)
      BY <3>1, <3>2 DEF Fails, TakenFirst, KeepsCharge, Charging, InFlight
    <3>3. CASE Nears(r)
      BY <3>1, <3>3 DEF Nears, Kin, TakenFirst, KeepsCharge, Charging
    <3>4. CASE Sends(r)
      BY <3>1, <3>4 DEF Sends, Kin, TakenFirst, KeepsCharge, Charging
    <3>5. CASE Reads(r)
      BY <3>1, <3>5 DEF Reads, Kin, TakenFirst, KeepsCharge, Charging
    <3>6. CASE Puts(r)
      BY <3>1, <3>6 DEF Puts, Kin, TakenFirst, KeepsCharge, Charging
    <3> QED BY <1>3, <3>2, <3>3, <3>4, <3>5, <3>6 DEF Progress
  <2>2. ASSUME NEW q \in Requests, q # r PROVE TakenFirst!(q)' /\ KeepsCharge(q)
    <3>1. Waits(q)
      BY <1>3, <2>2 DEF Progress, OnlyMoves, Waits
    <3> QED BY <1>1, <3>1
  <2> QED BY <2>1, <2>2 DEF TakenFirst
<1>4. CASE Rests
  BY <1>1, <1>4 DEF Rests, TakenFirst
<1> QED BY <1>2, <1>3, <1>4, StepKinds

\* The numbers of a request.
LEMMA Numbers ==
    ASSUME NEW x \in Request
    PROVE  x.fee \in Nat /\ x.saw \in Tally /\ x.saw.feesPaid \in Nat
<1>1. x.fee \in Fees \cup {0} /\ x.saw \in Tally
  BY DEF Request
<1>2. Fees \cup {0} \subseteq Nat
  BY RequestAssumption
<1>3. x.saw.feesPaid \in Nat
  BY <1>1 DEF Tally
<1> QED BY <1>1, <1>2, <1>3

\* What the requests of S owed, those of T owe afterwards, and more if T has
\* somebody else.
LEMMA OwesMore ==
    ASSUME RequestsTyped, RequestsTyped', NEW S \in SUBSET Requests, NEW T \in SUBSET Requests,
           S \subseteq T, \A r \in S : req'[r].fee = req[r].fee
    PROVE  LET before == SumOf([r \in S |-> req[r].fee], S)
               after == SumOf([r \in T |-> req'[r].fee], T)
           IN /\ before \in Nat /\ after \in Nat /\ before <= after
              /\ \A x \in T \ S : before + req'[x].fee <= after
<1> DEFINE f == [r \in S |-> req[r].fee]
           g == [r \in T |-> req'[r].fee]
<1>1. \A r \in Requests : req[r].fee \in Nat /\ req'[r].fee \in Nat
  <2>1. \A r \in Requests : req[r] \in Request /\ req'[r] \in Request
    BY DEF RequestsTyped
  <2> QED BY <2>1, Numbers
<1>2. IsFiniteSet(S) /\ IsFiniteSet(T)
  BY RequestAssumption, FS_Subset
<1>3. /\ \A r \in T : g[r] \in Nat /\ g[r] = req'[r].fee
      /\ \A r \in S : f[r] = g[r]
  BY <1>1
<1> HIDE DEF f, g
<1>4. SumOf(f, S) \in Nat /\ SumOf(g, T) \in Nat /\ SumOf(f, S) <= SumOf(g, T)
  BY <1>2, <1>3, SumGrows
<1>5. ASSUME NEW x \in T \ S PROVE SumOf(f, S) + g[x] <= SumOf(g, T)
  <2> DEFINE U == S \cup {x}
  <2>1. U = S \cup {x} /\ x \notin S /\ U \subseteq T
    OBVIOUS
  <2> HIDE DEF U
  <2>2. (\A r \in U : g[r] \in Nat) /\ (\A r \in S : f[r] = g[r])
    BY <1>3, <2>1
  <2>3. \E a, b \in Nat : a = SumOf(f, S) /\ b = g[x] /\ SumOf(g, U) = a + b
    BY <1>2, <2>1, <2>2, SumAdds
  <2>4. SumOf(g, U) <= SumOf(g, T)
    BY <1>2, <1>3, <2>1, SumGrows
  <2> QED BY <2>3, <2>4
<1>6. \A x \in T \ S : SumOf(f, S) + req'[x].fee <= SumOf(g, T)
  BY <1>3, <1>5
<1> QED BY <1>4, <1>6 DEF f, g

\* What is due only grows, and by the fee of a request that puts its record.
LEMMA DueGrows ==
    ASSUME TallyInv, TallyInv', \A q \in Requests : KeepsCharge(q), NEW k \in Keys
    PROVE  /\ Due(k) \in Nat /\ Due(k)' \in Nat /\ Due(k) <= Due(k)'
           /\ \A r \in Requests :
                 Puts(r) /\ req[r].key = k /\ req[r].taken => Due(k) + req[r].fee <= Due(k)'
<1> DEFINE a == SumOfFees(Once(k))
           b == SumOfFees(Twice(k))
           A == SumOfFees(Once(k))'
           B == SumOfFees(Twice(k))'
<1>1. /\ Once(k) \subseteq Once(k)' /\ Once(k)' \subseteq Requests
      /\ \A r \in Once(k) : req'[r].fee = req[r].fee
  BY DEF Once, KeepsCharge
<1>2. /\ Twice(k) \subseteq Twice(k)' /\ Twice(k)' \subseteq Requests
      /\ \A r \in Twice(k) : req'[r].fee = req[r].fee
  BY DEF Twice, KeepsCharge, Charging
<1>3. /\ a \in Nat /\ A \in Nat /\ a <= A
      /\ \A x \in Once(k)' \ Once(k) : a + req'[x].fee <= A
  BY <1>1, OwesMore DEF SumOfFees, TallyInv
<1>4. /\ b \in Nat /\ B \in Nat /\ b <= B
      /\ \A x \in Twice(k)' \ Twice(k) : b + req'[x].fee <= B
  BY <1>2, OwesMore DEF SumOfFees, TallyInv
<1>5. Due(k) = a + b /\ Due(k)' = A + B
  BY DEF Due
<1>6. ASSUME NEW r \in Requests, Puts(r), req[r].key = k, req[r].taken
      PROVE  /\ req'[r].fee = req[r].fee
             /\ r \in Once(k)' \ Once(k) \/ r \in Twice(k)' \ Twice(k)
  BY <1>6 DEF Puts, Kin, Once, Twice
<1>7. \A r \in Requests : req[r].fee \in Nat
  <2>1. \A r \in Requests : req[r] \in Request
    BY DEF TallyInv, RequestsTyped
  <2> QED BY <2>1, Numbers
<1> HIDE DEF a, b, A, B
<1>8. ASSUME NEW r \in Requests, Puts(r), req[r].key = k, req[r].taken
      PROVE  a + b + req[r].fee <= A + B
  <2> DEFINE c == req[r].fee
  <2>1. c \in Nat /\ (a + c <= A \/ b + c <= B)
    BY <1>3, <1>4, <1>6, <1>7, <1>8
  <2> HIDE DEF c
  <2>2. a + b + c <= A + B
    BY <1>3, <1>4, <2>1
  <2> QED BY <2>2 DEF c
<1>9. a + b \in Nat /\ A + B \in Nat /\ a + b <= A + B
  BY <1>3, <1>4
<1> QED BY <1>5, <1>8, <1>9

LEMMA InitCharges == Init => ChargeInv
<1> SUFFICES ASSUME Init PROVE ChargeInv
  OBVIOUS
<1>1. TallyInv /\ TakenFirst
  BY InitTally DEF Init, TakenFirst, IdleRequest, Charging
<1>2. \A k \in Keys : Once(k) = {} /\ Twice(k) = {}
  BY DEF Init, IdleRequest, Once, Twice
<1>3. \A k \in Keys : Due(k) = 0
  BY <1>2, SumOfNone DEF Due, SumOfFees
<1>4. \A k \in Keys : usage[k].feesPaid = 0
  BY DEF Init, EmptyUsage
<1>5. \A r \in Requests : req[r].at = "idle"
  BY DEF Init, IdleRequest
<1> QED BY <1>1, <1>3, <1>4, <1>5 DEF ChargeInv, NothingUndue

LEMMA NextCharges == ASSUME ChargeInv, [Next]_vars PROVE ChargeInv'
<1>1. TallyInv /\ TakenFirst /\ NothingUndue /\ TallyInv'
  BY NextTally DEF ChargeInv
<1>2. TakenFirst' /\ \A q \in Requests : KeepsCharge(q)
  BY <1>1, ChargesKept
<1>3. \A k \in Keys : /\ Due(k) \in Nat /\ Due(k)' \in Nat /\ Due(k) <= Due(k)'
                      /\ usage[k].feesPaid \in Nat /\ usage[k].feesPaid <= Due(k)
  BY <1>1, <1>2, DueGrows DEF TallyInv, CountersTyped, Tally, NothingUndue
<1>4. \A r \in Requests : /\ req[r].fee \in Nat /\ req[r].saw.feesPaid \in Nat
                          /\ req[r].at \in InFlight => req[r].key \in Keys
  <2>1. \A r \in Requests : req[r] \in Request /\ Proper(req[r])
    BY <1>1 DEF TallyInv, RequestsTyped
  <2>2. \A r \in Requests : req[r].fee \in Nat /\ req[r].saw.feesPaid \in Nat
    BY <2>1, Numbers
  <2> QED BY <2>1, <2>2 DEF Proper
<1>5. ASSUME NEW q \in Requests, Waits(q), req'[q].at \in {"putFee", "putUse"}
      PROVE  req'[q].saw.feesPaid <= Due(req[q].key)'
  <2>1. /\ req'[q].key = req[q].key /\ req'[q].saw = req[q].saw
        /\ req[q].at \in {"putFee", "putUse"} /\ req[q].key \in Keys
    BY <1>4, <1>5 DEF Waits, InFlight
  <2>2. req[q].saw.feesPaid <= Due(req[q].key)
    BY <1>1, <2>1 DEF NothingUndue
  <2>3. Due(req[q].key) <= Due(req[q].key)' /\ req[q].saw.feesPaid \in Nat
        /\ Due(req[q].key) \in Nat /\ Due(req[q].key)' \in Nat
    BY <1>3, <1>4, <2>1
  <2> QED BY <2>1, <2>2, <2>3
<1>6. SUFFICES /\ \A k \in Keys : usage'[k].feesPaid <= Due(k)'
               /\ \A q \in Requests : req'[q].at \in {"putFee", "putUse"} =>
                     req'[q].saw.feesPaid <= Due(req[q].key)' /\ req'[q].key = req[q].key
  BY <1>1, <1>2, <1>6 DEF ChargeInv, NothingUndue, Due, Once, Twice, SumOfFees
<1>7. ASSUME UNCHANGED usage PROVE \A k \in Keys : usage'[k].feesPaid <= Due(k)'
  BY <1>3, <1>7
<1>8. ASSUME NEW r \in Requests, NEW k \in Keys, Comes(r, k) PROVE <1>6!1
  <2>1. \A q \in Requests \ {r} : Waits(q)
    BY <1>8 DEF Comes
  <2> QED BY <1>5, <1>7, <1>8, <2>1 DEF Comes, Waits
<1>9. ASSUME NEW r \in Requests, Progress(r) PROVE <1>6!1
  <2>1. \A q \in Requests \ {r} : Waits(q)
    BY <1>9 DEF Progress, OnlyMoves, Waits
  <2>2. \A q \in Requests \ {r} : req'[q].at \in {"putFee", "putUse"} =>
           req'[q].saw.feesPaid <= Due(req[q].key)' /\ req'[q].key = req[q].key
    BY <1>5, <2>1 DEF Waits
  <2>3. CASE UNCHANGED usage /\ (Fails(r) \/ Nears(r) \/ Sends(r))
    <3>1. req'[r].at \notin {"putFee", "putUse"}
      BY <2>3 DEF Fails, Nears, Sends
    <3> QED BY <1>7, <2>2, <2>3, <3>1
  <2>4. CASE UNCHANGED usage /\ Reads(r)
    <3>1. req'[r].saw = usage[req[r].key] /\ req'[r].key = req[r].key /\ req[r].key \in Keys
      BY <1>4, <2>4 DEF Reads, Kin, InFlight
    <3>2. req'[r].saw.feesPaid <= Due(req[r].key)'
      BY <1>3, <3>1
    <3> QED BY <1>7, <2>2, <2>4, <3>1, <3>2
  <2>5. CASE Puts(r)
    <3>1. req'[r].at \notin {"putFee", "putUse"}
      BY <2>5 DEF Puts
    <3>2. PICK j \in Keys : j = req[r].key
      BY <1>4, <2>5 DEF Puts, InFlight
    <3> DEFINE c == req[r].fee
               u == req[r].saw.feesPaid
    <3>3. req[r].taken /\ c \in Nat /\ u \in Nat /\ u <= Due(j)
      BY <1>1, <1>4, <2>5, <3>2 DEF Puts, TakenFirst, NothingUndue, Charging
    <3>4. Due(j) + c <= Due(j)'
      BY <1>1, <1>2, <2>5, <3>2, <3>3, DueGrows
    <3>5. \A k \in Keys : usage'[k].feesPaid = IF k = j /\ req[r].day = day
                                               THEN u + c ELSE usage[k].feesPaid
      BY <2>5, <3>2 DEF Puts
    <3>6. Due(j) \in Nat /\ Due(j)' \in Nat
      BY <1>3
    <3> HIDE DEF c, u
    <3>7. u + c <= Due(j)'
      BY <3>3, <3>4, <3>6
    <3>8. \A k \in Keys : usage'[k].feesPaid <= Due(k)'
      BY <1>3, <3>5, <3>7
    <3> QED BY <2>2, <3>1, <3>8
  <2> QED BY <1>9, <2>3, <2>4, <2>5 DEF Progress
<1>10. CASE Rests
  <2>1. \A q \in Requests : Waits(q)
    BY <1>10 DEF Rests
  <2>2. ASSUME usage' = [k \in Keys |-> EmptyUsage] PROVE \A k \in Keys : usage'[k].feesPaid <= Due(k)'
    BY <1>3, <2>2 DEF EmptyUsage
  <2>3. \A k \in Keys : usage'[k].feesPaid <= Due(k)'
    BY <1>7, <1>10, <2>2 DEF Rests
  <2> QED BY <1>5, <2>1, <2>3 DEF Waits
<1> QED BY <1>1, <1>8, <1>9, <1>10, StepKinds

\* ChargedForTaken: a record holds at most two charges of each request that
\* a node took, however the gets and puts of concurrent requests fall
\* (auth.ts:277 and 423).
THEOREM ChargedTwiceAtMost == Spec => []ChargedForTaken
<1>1. ASSUME ChargeInv PROVE ChargedForTaken
  <2> SUFFICES ASSUME NEW k \in Keys
               PROVE  usage[k].feesPaid
                        <= 2 * SumOfFees({r \in Requests : req[r].key = k /\ req[r].taken})
    BY DEF ChargedForTaken
  <2> DEFINE T == {r \in Requests : req[r].key = k /\ req[r].taken}
             t == SumOfFees(T)
             a == SumOfFees(Once(k))
             b == SumOfFees(Twice(k))
  <2>1. \A r \in T : req[r].fee \in Nat
    <3>1. \A r \in Requests : req[r] \in Request
      BY <1>1 DEF ChargeInv, TallyInv, RequestsTyped
    <3> QED BY <3>1, Numbers
  <2>2. IsFiniteSet(T)
    BY RequestAssumption, FS_Subset
  <2>3. ASSUME NEW S \in SUBSET T
        PROVE  SumOfFees(S) <= t /\ SumOfFees(S) \in Nat /\ t \in Nat
    <3> DEFINE f == [r \in S |-> req[r].fee]
               g == [r \in T |-> req[r].fee]
    <3>1. (\A r \in T : g[r] \in Nat) /\ (\A r \in S : f[r] = g[r])
      BY <2>1
    <3> HIDE DEF f, g, T
    <3>2. SumOf(f, S) <= SumOf(g, T) /\ SumOf(f, S) \in Nat /\ SumOf(g, T) \in Nat
      BY <2>2, <3>1, SumGrows
    <3> QED BY <3>2 DEF SumOfFees, f, g
  <2>4. Once(k) \subseteq T /\ Twice(k) \subseteq T
    BY DEF Once, Twice
  <2>5. a <= t /\ b <= t /\ a \in Nat /\ b \in Nat /\ t \in Nat
    BY <2>3, <2>4
  <2>6. usage[k].feesPaid <= a + b /\ usage[k].feesPaid \in Nat
    BY <1>1 DEF ChargeInv, NothingUndue, Due, TallyInv, CountersTyped, Tally
  <2> HIDE DEF t, a, b
  <2>7. usage[k].feesPaid <= 2 * t
    BY <2>5, <2>6
  <2> QED BY <2>7 DEF t
<1>2. ChargeInv /\ [Next]_vars => ChargeInv'
  BY NextCharges
<1>3. ChargeInv => ChargedForTaken
  BY <1>1
<1> QED BY InitCharges, <1>2, <1>3, PTL DEF Spec

--------------------------------------------------------------------------------
(* The cap. *)

\* What the requests of a key that never ran beside another one of it have
\* been answered for today.
Alone(k) == {r \in Requests : /\ req[r].at = "ok" /\ req[r].key = k
                              /\ ~req[r].shared /\ req[r].day = day}
Spent(k) == SumOfFees(Alone(k))

\* A request that was let in has a stored key.
Served == {"limits", "count", "cap", "ok"} \cup Checked
ServedStored == \A r \in Requests : req[r].at \in Served => Stored(req[r].key)

\* No request holds a record of a day to come.
Dated == \A r \in Requests : req[r].day <= day

\* Requests of a key under way at once know of each other.
SideBySide ==
    \A r, q \in Requests :
        /\ r # q /\ req[r].at \in InFlight /\ req[q].at \in InFlight
        /\ req[r].key = req[q].key
        => req[r].shared

\* Today's record, and every copy of it about to be put back, holds all that
\* was spent alone.
Covered ==
    \A k \in Keys :
        /\ Spent(k) <= usage[k].feesPaid
        /\ \A r \in Requests : /\ req[r].at \in {"putFee", "putUse"} /\ req[r].key = k
                               /\ req[r].day = day
                               => Spent(k) <= req[r].saw.feesPaid

\* What a free key's other requests spent left room for the estimate of the
\* last of them.
LastHadRoom(k) ==
    Alone(k) # {} => \E last \in Alone(k) : SumOfFees(Alone(k) \ {last}) + req[last].estimate <= Cap

\* And a request of it that passed the check and is alone still finds room
\* for its estimate.
HasRoom(k) ==
    /\ LastHadRoom(k)
    /\ \A r \in Requests : req[r].at \in Checked /\ req[r].key = k /\ ~req[r].shared
                           => Spent(k) + req[r].estimate <= Cap
RoomLeft == \A k \in Keys : Stored(k) /\ IsFree(k) => HasRoom(k)

CapInv == KeyInv /\ TallyInv /\ ServedStored /\ Dated /\ SideBySide /\ Covered /\ RoomLeft

\* A stored key keeps its name: commands change its activity and its expiry.
LEMMA NamesKept ==
    ASSUME KeyInv, [Next]_vars, NEW k \in Keys, meta[k] # None
    PROVE  meta'[k] # None /\ meta'[k].name = meta[k].name
<1>1. meta'[k] # None
  BY NextKeepsKeys DEF Kept
<1>2. ASSUME NEW m \in Metadata PROVE Revoked(m).name = m.name /\ Renewed(m).name = m.name
  <2>1. m \in [name : Names, active : BOOLEAN, expiresAt : 0..(MaxDay + KeyLife)]
    BY DEF Metadata
  <2> QED BY <2>1 DEF Revoked, Renewed
<1>3. CASE UNCHANGED meta
  BY <1>3
<1>4. ASSUME NEW p \in Provisions, NEW j \in Keys, StoreMeta(p, j) PROVE meta'[k] = meta[k]
  BY <1>4 DEF StoreMeta, Generated, KeyInv, Shapes
<1>5. CASE AdminPuts
  <2> DEFINE new == IF admin.op = "revoke" THEN Revoked(admin.saw) ELSE Renewed(admin.saw)
  <2>1. meta' = [meta EXCEPT ![admin.key] = new]
    BY <1>5 DEF AdminPuts
  <2>2. admin.saw = meta[admin.key] /\ admin.saw \in Metadata
    BY <1>5 DEF AdminPuts, ReadIsCurrent, Stored, KeyInv, Shapes
  <2>3. new.name = admin.saw.name
    BY <1>2, <2>2
  <2> HIDE DEF new
  <2> QED BY <1>1, <2>1, <2>2, <2>3 DEF KeyInv, Shapes
<1>6. \/ UNCHANGED meta \/ AdminPuts
      \/ \E p \in Provisions, j \in Keys : StoreMeta(p, j)
  <2>1. ASSUME NEW r \in Requests, RequestStep(r) PROVE UNCHANGED meta
    BY <2>1, RequestsLeaveKeys DEF keyVars
  <2> QED BY <2>1 DEF Next, vars, kv, RequestStep, ProvisionLooks, StoreId, StoreIndex,
                      ProvisionStops, AdminReads, NextMinute, NextDay
<1> QED BY <1>1, <1>3, <1>4, <1>5, <1>6

\* The number of microSTX of a request, by the type of its fee.
LEMMA FeesTyped ==
    ASSUME RequestsTyped, NEW r \in Requests
    PROVE  req[r].fee \in Nat /\ req[r].fee \in Fees \cup {0} /\ req[r].saw.feesPaid \in Nat
<1>1. req[r] \in Request
  BY DEF RequestsTyped
<1>2. req[r].fee \in Fees \cup {0}
  BY <1>1 DEF Request
<1> QED BY <1>1, <1>2, Numbers

LEMMA SpentNumber == ASSUME RequestsTyped, NEW k PROVE Spent(k) \in Nat
<1> DEFINE f == [r \in Alone(k) |-> req[r].fee]
<1>1. IsFiniteSet(Alone(k)) /\ \A r \in Alone(k) : f[r] \in Nat
  BY RequestAssumption, FS_Subset, FeesTyped DEF Alone
<1> HIDE DEF f
<1>2. SumOf(f, Alone(k)) \in Nat
  BY <1>1, UnitsFinite
<1> QED BY <1>2 DEF f, Spent, SumOfFees

\* The same requests have spent the same.
LEMMA SpentSame ==
    ASSUME NEW k, Alone(k)' = Alone(k), \A r \in Alone(k) : req'[r].fee = req[r].fee
    PROVE  Spent(k)' = Spent(k)
<1>1. [r \in Alone(k)' |-> req'[r].fee] = [r \in Alone(k) |-> req[r].fee]
  OBVIOUS
<1> QED BY <1>1 DEF Spent, SumOfFees

\* One more has spent its fee more.
LEMMA SpentMore ==
    ASSUME RequestsTyped, RequestsTyped', NEW k, NEW r \in Requests, r \notin Alone(k),
           Alone(k)' = Alone(k) \cup {r}, \A q \in Requests : req'[q].fee = req[q].fee
    PROVE  \E a, b \in Nat : a = Spent(k) /\ b = req[r].fee /\ Spent(k)' = a + b
<1> DEFINE S == Alone(k)
           T == Alone(k)'
           f == [q \in S |-> req[q].fee]
           g == [q \in T |-> req'[q].fee]
<1>1. IsFiniteSet(S)
  BY RequestAssumption, FS_Subset DEF Alone
<1>2. T = S \cup {r} /\ r \notin S /\ S \subseteq Requests
  BY DEF Alone
<1>3. (\A q \in T : g[q] \in Nat) /\ (\A q \in S : f[q] = g[q]) /\ g[r] = req[r].fee
  BY <1>2, FeesTyped
<1> HIDE DEF S, T, f, g
<1>4. \E a, b \in Nat : a = SumOf(f, S) /\ b = g[r] /\ SumOf(g, T) = a + b
  BY <1>1, <1>2, <1>3, SumAdds
<1>5. Spent(k) = SumOf(f, S)
  BY DEF Spent, SumOfFees, f, S
<1>6. Spent(k)' = SumOf(g, T)
  BY DEF Spent, SumOfFees, g, T
<1> QED BY <1>3, <1>4, <1>5, <1>6

\* A request whose part in what was spent alone a step does not change.
PartKept(q) ==
    /\ (req'[q].at = "ok" /\ ~req'[q].shared /\ req'[q].day = day')
          <=> (req[q].at = "ok" /\ ~req[q].shared /\ req[q].day = day)
    /\ req[q].at = "ok" => req'[q].key = req[q].key /\ req'[q].fee = req[q].fee /\ SameEstimate(q)

\* A request that ran alone puts today's record for the last time.
AnswersAlone(r) ==
    Puts(r) /\ OnlyMoves(r) /\ req'[r].at = "ok" /\ ~req[r].shared /\ req[r].day = day

LEMMA SpentKept ==
    ASSUME NEW k, \A q \in Requests : PartKept(q)
    PROVE  Spent(k)' = Spent(k)
<1>1. Alone(k)' = Alone(k)
  BY DEF PartKept, Alone
<1>2. \A q \in Alone(k) : req'[q].fee = req[q].fee
  BY DEF PartKept, Alone
<1> QED BY <1>1, <1>2, SpentSame

\* An answer adds its fee to what its key has spent, and to nothing else.
LEMMA SpentByAnswer ==
    ASSUME TallyInv, TallyInv', NEW r \in Requests, AnswersAlone(r), UNCHANGED day, NEW k
    PROVE  /\ req[r].key # k => Spent(k)' = Spent(k)
           /\ req[r].key = k => \E a, b \in Nat : a = Spent(k) /\ b = req[r].fee /\ Spent(k)' = a + b
<1>1. \A q \in Requests : q # r => req'[q] = req[q]
  BY DEF AnswersAlone, OnlyMoves
<1>2. /\ req'[r].at = "ok" /\ ~req'[r].shared /\ req'[r].day = day' /\ req[r].at # "ok"
      /\ req'[r].key = req[r].key /\ req'[r].fee = req[r].fee
  BY DEF AnswersAlone, Puts, Kin
<1>3. CASE req[r].key # k
  <2>1. Alone(k)' = Alone(k)
    BY <1>1, <1>2, <1>3 DEF Alone
  <2>2. \A q \in Alone(k) : req'[q].fee = req[q].fee
    BY <1>1, <1>2 DEF Alone
  <2> QED BY <1>3, <2>1, <2>2, SpentSame
<1>4. CASE req[r].key = k
  <2>1. Alone(k)' = Alone(k) \cup {r} /\ r \notin Alone(k)
    BY <1>1, <1>2, <1>4 DEF Alone
  <2>2. \A q \in Requests : req'[q].fee = req[q].fee
    BY <1>1, <1>2
  <2> QED BY <1>4, <2>1, <2>2, SpentMore DEF TallyInv
<1> QED BY <1>3, <1>4

\* At midnight nothing is spent.
LEMMA SpentAtMidnight ==
    ASSUME TallyInv, Dated, Rests, day' = day + 1, NEW k
    PROVE  Alone(k)' = {} /\ Spent(k)' = 0
<1>1. ASSUME NEW q \in Requests PROVE req'[q].day # day'
  <2>1. req[q] \in Request
    BY DEF TallyInv, RequestsTyped
  <2>2. req[q].day \in Nat /\ day \in Nat /\ req[q].day <= day
    BY <2>1 DEF Request, TallyInv, CountersTyped, Dated
  <2> QED BY <2>2 DEF Rests, Waits
<1>2. Alone(k)' = {}
  BY <1>1 DEF Alone
<1> QED BY <1>2, SumOfNone DEF Spent, SumOfFees

\* What a step does to what was spent alone.
LEMMA SpentSteps ==
    ASSUME TallyInv, [Next]_vars
    PROVE  \/ Rests /\ day' = day + 1 /\ usage' = [k \in Keys |-> EmptyUsage]
           \/ \E r \in Requests : AnswersAlone(r) /\ UNCHANGED <<meta, day>>
           \/ UNCHANGED day /\ \A q \in Requests : PartKept(q)
<1>1. ASSUME NEW r \in Requests, NEW k \in Keys, Comes(r, k)
      PROVE  UNCHANGED day /\ \A q \in Requests : PartKept(q)
  <2>1. UNCHANGED day /\ req[r].at = "idle" /\ req'[r].at = "auth"
    BY <1>1 DEF Comes
  <2>2. ASSUME NEW q \in Requests \ {r} PROVE PartKept(q)
    <3>1. Waits(q) /\ (req'[q].shared = (req[q].shared \/ q \in Beside(k)))
      BY <1>1, <2>2 DEF Comes
    <3>2. req[q].at = "ok" => q \notin Beside(k)
      BY DEF Beside, InFlight
    <3> QED BY <2>1, <3>1, <3>2 DEF Waits, PartKept, SameEstimate
  <2>3. PartKept(r)
    BY <2>1 DEF PartKept
  <2> QED BY <2>1, <2>2, <2>3
<1>2. ASSUME NEW r \in Requests, Progress(r), ~AnswersAlone(r)
      PROVE  UNCHANGED day /\ \A q \in Requests : PartKept(q)
  <2>1. UNCHANGED day /\ OnlyMoves(r)
    BY <1>2 DEF Progress
  <2>2. ASSUME NEW q \in Requests \ {r} PROVE PartKept(q)
    BY <2>1, <2>2 DEF OnlyMoves, PartKept, SameEstimate
  <2>3. CASE ~Puts(r)
    <3>1. req[r].at # "ok" /\ req'[r].at # "ok"
      BY <1>2, <2>3 DEF Progress, Fails, Nears, Sends, Reads, InFlight
    <3> QED BY <2>1, <2>2, <3>1 DEF PartKept
  <2>4. CASE Puts(r)
    <3>1. req[r].at # "ok" /\ (req'[r].at = "ok" => req'[r].day = req[r].day)
          /\ req'[r].shared = req[r].shared
      BY <2>4 DEF Puts, Kin
    <3>2. req'[r].at = "ok" => req[r].shared \/ req[r].day # day
      BY <1>2, <2>1, <2>4 DEF AnswersAlone
    <3> QED BY <2>1, <2>2, <3>1, <3>2 DEF PartKept
  <2> QED BY <2>3, <2>4
<1>3. ASSUME NEW r \in Requests, Progress(r), AnswersAlone(r)
      PROVE  \E q \in Requests : AnswersAlone(q) /\ UNCHANGED <<meta, day>>
  BY <1>3 DEF Progress
<1>4. CASE Rests
  <2>1. CASE UNCHANGED day
    <3>1. \A q \in Requests : PartKept(q)
      BY <1>4, <2>1 DEF Rests, Waits, PartKept, SameEstimate
    <3> QED BY <2>1, <3>1, Zenon
  <2>2. CASE ~UNCHANGED day
    <3>1. day' = day + 1 /\ usage' = [k \in Keys |-> EmptyUsage]
      BY <1>4, <2>2 DEF Rests
    <3> QED BY <1>4, <3>1, Zenon
  <2> QED BY <2>1, <2>2
<1> QED BY <1>1, <1>2, <1>3, <1>4, StepKinds, Zenon

LEMMA ServedKept == ASSUME CapInv, [Next]_vars PROVE ServedStored'
<1>1. ASSUME NEW k, Stored(k) PROVE k \in Keys /\ meta'[k] # None
  BY <1>1, NamesKept DEF CapInv, Stored
<1>2. SUFFICES ASSUME NEW q \in Requests, req'[q].at \in Served
               PROVE  Stored(req[q].key) /\ req'[q].key = req[q].key
  BY <1>1, <1>2 DEF ServedStored, Stored
<1>3. req[q].at \in Served => Stored(req[q].key)
  BY DEF CapInv, ServedStored
<1>4. CASE Waits(q)
  BY <1>2, <1>3, <1>4 DEF Waits
<1>5. ASSUME NEW r \in Requests, NEW k \in Keys, Comes(r, k), ~Waits(q) PROVE FALSE
  <2>1. q = r /\ req'[r].at = "auth"
    BY <1>5 DEF Comes
  <2> QED BY <1>2, <2>1 DEF Served, Checked, Charging
<1>6. ASSUME NEW r \in Requests, Progress(r), ~Waits(q)
      PROVE  Stored(req[q].key) /\ req'[q].key = req[q].key
  <2>1. q = r
    BY <1>6 DEF Progress, OnlyMoves, Waits
  <2>2. req'[r].at # "failed"
    BY <1>2, <2>1 DEF Served, Checked, Charging
  <2>3. CASE Nears(r)
    <3>1. req[r].at \in InFlight /\ (req[r].at = "auth" => meta[req[r].key] # None)
      BY <2>3 DEF Nears, InFlight, Valid, Live
    <3>2. req[r].key \in Keys
      BY <3>1 DEF CapInv, TallyInv, RequestsTyped, Proper
    <3>3. req[r].at = "auth" \/ req[r].at \in Served
      BY <2>3 DEF Nears, Served, Checked
    <3> QED BY <1>3, <2>1, <2>3, <3>1, <3>2, <3>3 DEF Stored, Nears, Kin
  <2>4. CASE Sends(r) \/ Reads(r) \/ Puts(r)
    <3>1. req[r].at \in Served /\ req'[r].key = req[r].key
      BY <2>4 DEF Sends, Reads, Puts, Kin, Served, Checked, Charging
    <3> QED BY <1>3, <2>1, <3>1
  <2> QED BY <1>6, <2>2, <2>3, <2>4 DEF Progress, Fails
<1>7. CASE Rests
  BY <1>4, <1>7 DEF Rests
<1>8. TallyInv
  BY DEF CapInv
<1> QED BY <1>4, <1>5, <1>6, <1>7, <1>8, StepKinds, Zenon

LEMMA DatedKept == ASSUME TallyInv, Dated, [Next]_vars PROVE Dated'
<1>1. day \in Nat /\ \A q \in Requests : req[q].day \in Nat /\ req[q].day <= day
  <2>1. \A q \in Requests : req[q] \in Request
    BY DEF TallyInv, RequestsTyped
  <2> QED BY <2>1 DEF TallyInv, CountersTyped, Dated, Request
<1>2. ASSUME NEW r \in Requests, NEW k \in Keys, Comes(r, k) PROVE Dated'
  <2>1. day' = day /\ req'[r].day = 0 /\ \A q \in Requests \ {r} : req'[q].day = req[q].day
    BY <1>2 DEF Comes, Waits
  <2> QED BY <1>1, <2>1 DEF Dated
<1>3. ASSUME NEW r \in Requests, Progress(r) PROVE Dated'
  <2>1. day' = day /\ \A q \in Requests \ {r} : req'[q].day = req[q].day
    BY <1>3 DEF Progress, OnlyMoves
  <2>2. req'[r].day \in {0, day, req[r].day}
    BY <1>3 DEF Progress, Fails, Nears, Sends, Reads, Puts
  <2> QED BY <1>1, <2>1, <2>2 DEF Dated
<1>4. CASE Rests
  <2>1. \A q \in Requests : req'[q].day = req[q].day
    BY <1>4 DEF Rests, Waits
  <2>2. day' = day \/ day' = day + 1
    BY <1>4 DEF Rests
  <2> QED BY <1>1, <2>1, <2>2 DEF Dated
<1> QED BY <1>2, <1>3, <1>4, StepKinds

\* A request that is under way after a step was so before, with its key, and
\* still knows of its company.
GoesOn(q) ==
    req'[q].at \in InFlight =>
        /\ req[q].at \in InFlight /\ req'[q].key = req[q].key
        /\ req[q].shared => req'[q].shared

LEMMA WaitsGoesOn == ASSUME NEW q, Waits(q), req[q].shared => req'[q].shared PROVE GoesOn(q)
BY DEF Waits, GoesOn

LEMMA ProgressGoesOn ==
    ASSUME NEW r \in Requests, Progress(r), NEW q \in Requests
    PROVE  GoesOn(q)
<1>1. CASE q # r
  BY <1>1 DEF Progress, OnlyMoves, GoesOn
<1>2. CASE q = r
  <2>1. CASE Fails(r)
    BY <1>2, <2>1 DEF Fails, GoesOn, InFlight
  <2>2. CASE ~Fails(r)
    <3>1. req[r].at \in InFlight /\ req'[r].key = req[r].key /\ req'[r].shared = req[r].shared
      BY <2>2 DEF Progress, Nears, Sends, Reads, Puts, Kin, InFlight
    <3> QED BY <1>2, <3>1 DEF GoesOn
  <2> QED BY <2>1, <2>2
<1> QED BY <1>1, <1>2

LEMMA SideKept == ASSUME TallyInv, SideBySide, [Next]_vars PROVE SideBySide'
<1>1. ASSUME \A q \in Requests : GoesOn(q) PROVE SideBySide'
  BY <1>1 DEF SideBySide, GoesOn
<1>2. ASSUME NEW r \in Requests, NEW k \in Keys, Comes(r, k) PROVE SideBySide'
  <2>1. /\ req'[r].key = k /\ req[r].at = "idle"
        /\ req'[r].shared = (Beside(k) # {})
    BY <1>2 DEF Comes
  <2>2. ASSUME NEW q \in Requests \ {r}
        PROVE  /\ req'[q].at = req[q].at /\ req'[q].key = req[q].key
               /\ req'[q].shared = (req[q].shared \/ q \in Beside(k))
    BY <1>2 DEF Comes, Waits
  <2>3. ASSUME NEW p \in Requests, NEW q \in Requests, p # q,
               req'[p].at \in InFlight, req'[q].at \in InFlight, req'[p].key = req'[q].key
        PROVE  req'[p].shared
    <3>1. CASE p = r
      <4>1. q \in Beside(k)
        BY <2>1, <2>2, <2>3, <3>1 DEF Beside
      <4> QED BY <2>1, <3>1, <4>1
    <3>2. CASE q = r
      <4>1. p \in Beside(k)
        BY <2>1, <2>2, <2>3, <3>2 DEF Beside
      <4> QED BY <2>2, <2>3, <3>2, <4>1
    <3>3. CASE p # r /\ q # r
      <4>1. req[p].shared
        BY <2>2, <2>3, <3>3 DEF SideBySide
      <4> QED BY <2>2, <3>3, <4>1
    <3> QED BY <3>1, <3>2, <3>3
  <2> QED BY <2>3 DEF SideBySide
<1>3. ASSUME NEW r \in Requests, Progress(r) PROVE SideBySide'
  BY <1>1, <1>3, ProgressGoesOn
<1>4. CASE Rests
  BY <1>1, <1>4, WaitsGoesOn DEF Rests
<1> QED BY <1>2, <1>3, <1>4, StepKinds

\* Beside a request that ran alone no other one of its key is under way.
LEMMA AloneOnItsKey ==
    ASSUME TallyInv, SideBySide, NEW r \in Requests, AnswersAlone(r),
           NEW q \in Requests \ {r}, req[q].at \in InFlight
    PROVE  req[q].key # req[r].key
<1>1. req[r].at \in InFlight /\ ~req[r].shared
  BY DEF AnswersAlone, Puts, InFlight
<1> QED BY <1>1 DEF SideBySide

LEMMA CoveredKept == ASSUME CapInv, TallyInv', [Next]_vars PROVE Covered'
<1>1. TallyInv /\ Dated /\ SideBySide /\ Covered
  BY DEF CapInv
<1>2. \A k : Spent(k) \in Nat
  BY <1>1, SpentNumber DEF TallyInv
<1>3. \A q \in Requests : /\ req[q].fee \in Nat /\ req[q].saw.feesPaid \in Nat
                          /\ req'[q].saw.feesPaid \in Nat
  <2>1. \A q \in Requests : req[q] \in Request /\ req'[q] \in Request
    BY <1>1 DEF TallyInv, RequestsTyped
  <2> QED BY <2>1, Numbers
<1>4. \A k \in Keys : usage[k].feesPaid \in Nat /\ Spent(k) <= usage[k].feesPaid
  BY <1>1 DEF TallyInv, CountersTyped, Tally, Covered
<1>5. \A q \in Requests, k \in Keys :
         req[q].at \in {"putFee", "putUse"} /\ req[q].key = k /\ req[q].day = day
         => Spent(k) <= req[q].saw.feesPaid
  BY <1>1 DEF Covered
<1>6. SUFFICES /\ \A k \in Keys : Spent(k)' <= usage'[k].feesPaid
               /\ \A q \in Requests, k \in Keys :
                     req'[q].at \in {"putFee", "putUse"} /\ req'[q].key = k /\ req'[q].day = day'
                     => Spent(k)' <= req'[q].saw.feesPaid
  BY <1>6 DEF Covered
<1>7. ASSUME Rests, day' = day + 1, usage' = [k \in Keys |-> EmptyUsage] PROVE <1>6!1
  <2>1. \A k : Spent(k)' = 0
    BY <1>1, <1>7, SpentAtMidnight
  <2>2. \A k \in Keys : usage'[k].feesPaid = 0
    BY <1>7 DEF EmptyUsage
  <2> QED BY <1>3, <2>1, <2>2
<1>8. ASSUME NEW r \in Requests, AnswersAlone(r), UNCHANGED day PROVE <1>6!1
  <2>1. PICK j : j = req[r].key
    OBVIOUS
  <2> DEFINE c == req[r].fee
             u == req[r].saw.feesPaid
  <2>2. c \in Nat /\ u \in Nat /\ \E a, b \in Nat : a = Spent(j) /\ b = c /\ Spent(j)' = a + b
    BY <1>1, <1>3, <1>8, <2>1, SpentByAnswer
  <2>3. \A k : k # j => Spent(k)' = Spent(k)
    BY <1>1, <1>8, <2>1, SpentByAnswer
  <2>4. /\ req[r].at = "putUse" /\ req[r].day = day /\ req'[r].at = "ok"
        /\ \A k \in Keys : usage'[k].feesPaid = IF k = j THEN u + c ELSE usage[k].feesPaid
    BY <1>8, <2>1 DEF AnswersAlone, Puts
  <2>5. j \in Keys => Spent(j) <= u
    BY <1>5, <2>1, <2>4
  <2>6. \A k \in Keys : Spent(k)' <= usage'[k].feesPaid
    <3> HIDE DEF c, u
    <3>1. j \in Keys => Spent(j)' <= u + c
      BY <2>2, <2>5
    <3> QED BY <1>4, <2>3, <2>4, <3>1
  <2>7. ASSUME NEW q \in Requests, NEW k \in Keys, req'[q].at \in {"putFee", "putUse"},
               req'[q].key = k, req'[q].day = day'
        PROVE  Spent(k)' <= req'[q].saw.feesPaid
    <3>1. q # r /\ req'[q] = req[q]
      BY <1>8, <2>4, <2>7 DEF AnswersAlone, OnlyMoves
    <3>2. req[q].key # j
      BY <1>1, <1>8, <2>1, <2>7, <3>1, AloneOnItsKey DEF InFlight
    <3> QED BY <1>5, <1>8, <2>3, <2>7, <3>1, <3>2
  <2> QED BY <2>6, <2>7
<1>9. ASSUME UNCHANGED day, \A q \in Requests : PartKept(q) PROVE <1>6!1
  <2>1. \A k : Spent(k)' = Spent(k)
    BY <1>9, SpentKept
  <2>2. ASSUME NEW q \in Requests, Waits(q), NEW k \in Keys, req'[q].at \in {"putFee", "putUse"},
               req'[q].key = k, req'[q].day = day'
        PROVE  Spent(k)' <= req'[q].saw.feesPaid
    BY <1>5, <1>9, <2>1, <2>2 DEF Waits
  <2>3. ASSUME UNCHANGED usage PROVE \A k \in Keys : Spent(k)' <= usage'[k].feesPaid
    BY <1>4, <2>1, <2>3
  <2>4. ASSUME NEW r \in Requests, NEW k \in Keys, Comes(r, k) PROVE <1>6!1
    <3>1. UNCHANGED usage /\ req'[r].at = "auth" /\ \A q \in Requests \ {r} : Waits(q)
      BY <2>4 DEF Comes
    <3> QED BY <2>2, <2>3, <3>1
  <2>5. ASSUME NEW r \in Requests, Progress(r) PROVE <1>6!1
    <3>1. \A q \in Requests \ {r} : Waits(q)
      BY <2>5 DEF Progress, OnlyMoves, Waits
    <3>2. CASE UNCHANGED usage /\ (Fails(r) \/ Nears(r) \/ Sends(r))
      <4>1. req'[r].at \notin {"putFee", "putUse"}
        BY <3>2 DEF Fails, Nears, Sends
      <4> QED BY <2>2, <2>3, <3>1, <3>2, <4>1
    <3>3. CASE UNCHANGED usage /\ Reads(r)
      <4>1. req'[r].saw = usage[req[r].key] /\ req'[r].key = req[r].key
        BY <3>3 DEF Reads, Kin
      <4>2. \A k \in Keys : req'[r].key = k => Spent(k)' <= req'[r].saw.feesPaid
        BY <1>4, <2>1, <4>1
      <4> QED BY <2>2, <2>3, <3>1, <3>3, <4>2
    <3>4. CASE Puts(r)
      <4>1. req'[r].at \notin {"putFee", "putUse"} /\ req[r].at \in {"putFee", "putUse"}
        BY <3>4 DEF Puts
      <4> DEFINE c == req[r].fee
                 u == req[r].saw.feesPaid
      <4>2. c \in Nat /\ u \in Nat
        BY <1>3
      <4>3. \A k \in Keys : k = req[r].key /\ req[r].day = day => Spent(k) <= u
        BY <1>5, <4>1
      <4>4. \A k \in Keys : usage'[k].feesPaid = IF k = req[r].key /\ req[r].day = day
                                                 THEN u + c ELSE usage[k].feesPaid
        BY <3>4 DEF Puts
      <4> HIDE DEF c, u
      <4>5. \A k \in Keys : Spent(k) <= u => Spent(k) <= u + c
        BY <1>2, <4>2
      <4>6. \A k \in Keys : Spent(k)' <= usage'[k].feesPaid
        BY <1>4, <2>1, <4>3, <4>4, <4>5
      <4> QED BY <2>2, <3>1, <4>1, <4>6
    <3> QED BY <2>5, <3>2, <3>3, <3>4 DEF Progress
  <2>6. CASE Rests
    <3>1. UNCHANGED usage
      <4>1. day \in Nat
        BY <1>1 DEF TallyInv, CountersTyped
      <4> QED BY <1>9, <2>6, <4>1 DEF Rests
    <3> QED BY <2>2, <2>3, <2>6, <3>1 DEF Rests
  <2> QED BY <1>1, <2>4, <2>5, <2>6, StepKinds
<1> QED BY <1>1, <1>7, <1>8, <1>9, SpentSteps

\* A request past the check of the cap was past it before, or has just found
\* room for the estimate beside today's record.
LEMMA PassesCheck ==
    ASSUME CapInv, [Next]_vars, NEW q \in Requests, req'[q].at \in Checked, ~req'[q].shared
    PROVE  /\ req'[q].key = req[q].key /\ ~req[q].shared /\ Stored(req[q].key)
           /\ \/ req[q].at \in Checked /\ SameEstimate(q)
              \/ /\ UNCHANGED <<meta, usage>>
                 /\ IsFree(req[q].key) => WithinCap(usage[req[q].key].feesPaid, req'[q].estimate)
<1>1. req[q].at \in Served => Stored(req[q].key)
  BY DEF CapInv, ServedStored
<1>2. Checked \subseteq Served /\ Checked \subseteq InFlight /\ "failed" \notin Checked
  BY DEF Checked, Served, Charging, InFlight
<1>3. CASE Waits(q)
  <2>1. ~req[q].shared
    <3>1. ASSUME NEW r \in Requests, NEW k \in Keys, Comes(r, k) PROVE ~req[q].shared
      <4>1. q # r
        BY <3>1 DEF Comes, Checked, Charging
      <4> QED BY <3>1, <4>1 DEF Comes
    <3>2. ASSUME NEW r \in Requests, Progress(r) PROVE ~req[q].shared
      BY <1>2, <3>2, ProgressGoesOn DEF GoesOn
    <3>3. CASE Rests
      BY <3>3 DEF Rests
    <3> QED BY <3>1, <3>2, <3>3, StepKinds DEF CapInv
  <2> QED BY <1>1, <1>2, <1>3, <2>1 DEF Waits, SameEstimate
<1>4. ASSUME NEW r \in Requests, Progress(r), ~Waits(q)
      PROVE  /\ req'[q].key = req[q].key /\ ~req[q].shared /\ Stored(req[q].key)
             /\ \/ req[q].at \in Checked /\ SameEstimate(q)
                \/ /\ UNCHANGED <<meta, usage>>
                   /\ IsFree(req[q].key) => WithinCap(usage[req[q].key].feesPaid, req'[q].estimate)
  <2>1. q = r /\ ~Fails(r) /\ UNCHANGED meta
    BY <1>2, <1>4 DEF Progress, OnlyMoves, Waits, Fails
  <2>2. req'[r].key = req[r].key /\ req'[r].shared = req[r].shared
    BY <1>4, <2>1 DEF Progress, Nears, Sends, Reads, Puts, Kin
  <2>3. CASE Nears(r)
    <3>1. UNCHANGED usage
      BY <1>4, <2>3 DEF Progress, Nears, Puts
    <3>2. req[r].at \in InFlight /\ (req[r].at = "auth" => meta[req[r].key] # None)
      BY <2>3 DEF Nears, InFlight, Valid, Live
    <3>3. req[r].key \in Keys
      BY <3>2 DEF CapInv, TallyInv, RequestsTyped, Proper
    <3>4. req[r].at = "auth" \/ req[r].at \in Served
      BY <2>3 DEF Nears, Served, Checked
    <3>5. Stored(req[r].key)
      BY <1>1, <2>1, <3>2, <3>3, <3>4 DEF Stored
    <3>6. \/ req[r].at \in Checked /\ SameEstimate(r)
          \/ IsFree(req[r].key) => WithinCap(usage[req[r].key].feesPaid, req'[r].estimate)
      BY <2>1, <2>3 DEF Nears, Checked, Charging
    <3> QED BY <2>1, <2>2, <3>1, <3>5, <3>6
  <2>4. CASE Sends(r) \/ Reads(r) \/ Puts(r)
    <3>1. req[r].at \in Checked /\ SameEstimate(r)
      BY <2>4 DEF Sends, Reads, Puts, Checked, Charging
    <3> QED BY <1>1, <1>2, <2>1, <2>2, <3>1
  <2> QED BY <1>4, <2>1, <2>3, <2>4 DEF Progress
<1>5. ASSUME NEW r \in Requests, NEW k \in Keys, Comes(r, k) PROVE Waits(q)
  <2>1. q # r
    BY <1>5 DEF Comes, Checked, Charging
  <2> QED BY <1>5, <2>1 DEF Comes
<1>6. Rests => Waits(q)
  BY DEF Rests
<1>7. TallyInv
  BY DEF CapInv
<1> QED BY <1>3, <1>4, <1>5, <1>6, <1>7, StepKinds, Zenon

\* As long as the same requests were answered alone, the last of them is.
LEMMA LastKept ==
    ASSUME NEW k, LastHadRoom(k), Alone(k)' = Alone(k),
           \A q \in Alone(k) : req'[q].fee = req[q].fee /\ SameEstimate(q)
    PROVE  LastHadRoom(k)'
<1>1. SUFFICES ASSUME Alone(k) # {}
               PROVE  \E last \in Alone(k)' :
                         SumOfFees(Alone(k) \ {last})' + req'[last].estimate <= Cap
  BY <1>1 DEF LastHadRoom
<1>2. PICK last \in Alone(k) : SumOfFees(Alone(k) \ {last}) + req[last].estimate <= Cap
  BY <1>1 DEF LastHadRoom
<1> DEFINE S == Alone(k) \ {last}
           T == Alone(k)' \ {last}
<1>3. T = S /\ [q \in T |-> req'[q].fee] = [q \in S |-> req[q].fee]
  OBVIOUS
<1>4. SumOfFees(Alone(k) \ {last})' = SumOfFees(S)
  BY <1>3 DEF SumOfFees
<1> QED BY <1>2, <1>4 DEF SameEstimate

\* A request that is answered alone, and found room until then, is the last.
LEMMA LastAnswered ==
    ASSUME NEW k, NEW r \in Requests, r \notin Alone(k), Alone(k)' = Alone(k) \cup {r},
           \A q \in Requests : req'[q].fee = req[q].fee,
           SameEstimate(r), Spent(k) + req[r].estimate <= Cap
    PROVE  LastHadRoom(k)'
<1> DEFINE S == Alone(k)
           T == Alone(k)' \ {r}
<1>1. T = S /\ S \subseteq Requests
  BY DEF Alone
<1>2. [q \in T |-> req'[q].fee] = [q \in S |-> req[q].fee]
  BY <1>1
<1>3. SumOfFees(Alone(k) \ {r})' = Spent(k)
  BY <1>1, <1>2 DEF SumOfFees, Spent
<1>4. r \in Alone(k)' /\ SumOfFees(Alone(k) \ {r})' + req'[r].estimate <= Cap
  BY <1>3 DEF SameEstimate
<1> QED BY <1>4 DEF LastHadRoom

LEMMA RoomKept == ASSUME CapInv, TallyInv', [Next]_vars PROVE RoomLeft'
<1>1. TallyInv /\ Dated /\ SideBySide /\ Covered /\ RoomLeft
  BY DEF CapInv
<1>2. \A k : Spent(k) \in Nat
  BY <1>1, SpentNumber DEF TallyInv
<1>3. \A q \in Requests : req[q].estimate \in Nat /\ req'[q].estimate \in Nat
  <2>1. \A q \in Requests : req[q] \in Request /\ req'[q] \in Request
    BY <1>1 DEF TallyInv, RequestsTyped
  <2>2. ASSUME NEW x \in Request PROVE x.estimate \in Nat
    <3>1. x.estimate \in Estimates \cup {0}
      BY DEF Request
    <3>2. Estimates \cup {0} \subseteq Nat
      BY RequestAssumption
    <3> QED BY <3>1, <3>2
  <2> QED BY <2>1, <2>2
<1>4. Cap \in Nat
  BY RequestAssumption
<1>5. ASSUME NEW k \in Keys, Stored(k), IsFree(k)'
      PROVE  /\ IsFree(k) /\ LastHadRoom(k)
             /\ \A r \in Requests : req[r].at \in Checked /\ req[r].key = k /\ ~req[r].shared
                                    => Spent(k) + req[r].estimate <= Cap
  <2>1. IsFree(k)
    BY <1>5, NamesKept DEF CapInv, Stored, IsFree
  <2> QED BY <1>1, <1>5, <2>1 DEF RoomLeft, HasRoom
<1>6. ASSUME NEW k \in Keys, ~Stored(k) PROVE Alone(k) = {}
  BY <1>6 DEF Alone, CapInv, ServedStored, Served
\* A request past the check leaves its key room for its estimate.
<1>7. ASSUME NEW q \in Requests, NEW k \in Keys, req'[q].at \in Checked, req'[q].key = k,
             ~req'[q].shared, IsFree(k)'
      PROVE  Spent(k) + req'[q].estimate <= Cap
  <2>1. /\ req[q].key = k /\ ~req[q].shared /\ Stored(k)
        /\ \/ req[q].at \in Checked /\ SameEstimate(q)
           \/ IsFree(k) => WithinCap(usage[k].feesPaid, req'[q].estimate)
    BY <1>7, PassesCheck
  <2>2. IsFree(k)
    BY <1>5, <1>7, <2>1
  <2>3. CASE req[q].at \in Checked /\ SameEstimate(q)
    BY <1>5, <1>7, <2>1, <2>3 DEF SameEstimate
  <2>4. CASE WithinCap(usage[k].feesPaid, req'[q].estimate)
    <3> DEFINE u == usage[k].feesPaid
               e == req'[q].estimate
    <3>1. u \in Nat /\ Spent(k) <= u /\ e \in Nat
      BY <1>1, <1>3 DEF TallyInv, CountersTyped, Tally, Covered
    <3>2. u + e <= Cap
      BY <2>4 DEF WithinCap
    <3> HIDE DEF u, e
    <3>3. Spent(k) + e <= Cap
      BY <1>2, <1>4, <3>1, <3>2
    <3> QED BY <3>3 DEF e
  <2> QED BY <2>1, <2>2, <2>3, <2>4
<1>8. SUFFICES ASSUME NEW k \in Keys, IsFree(k)' PROVE HasRoom(k)'
  BY <1>8 DEF RoomLeft
<1>9. LastHadRoom(k)
  BY <1>5, <1>6, <1>8 DEF LastHadRoom
<1>10. CASE Spent(k)' = Spent(k) /\ LastHadRoom(k)'
  BY <1>7, <1>8, <1>10 DEF HasRoom
<1>11. CASE Alone(k)' = {} /\ Spent(k)' = 0
  <2>1. ASSUME NEW e \in Nat, Spent(k) + e <= Cap PROVE 0 + e <= Cap
    BY <1>2, <1>4, <2>1
  <2>2. LastHadRoom(k)'
    BY <1>11 DEF LastHadRoom
  <2>3. \A q \in Requests : req'[q].at \in Checked /\ req'[q].key = k /\ ~req'[q].shared
                            => 0 + req'[q].estimate <= Cap
    BY <1>3, <1>7, <1>8, <2>1
  <2> QED BY <1>11, <2>2, <2>3 DEF HasRoom
<1>12. ASSUME NEW r \in Requests, AnswersAlone(r), UNCHANGED <<meta, day>>, req[r].key = k
       PROVE  HasRoom(k)'
  <2>1. /\ \A q \in Requests : q # r => req'[q] = req[q]
        /\ req'[r].at = "ok" /\ ~req'[r].shared /\ req'[r].day = day' /\ req'[r].key = k
        /\ req'[r].fee = req[r].fee /\ SameEstimate(r)
    BY <1>12 DEF AnswersAlone, OnlyMoves, Puts, Kin
  <2>2. req[r].at \in Checked /\ ~req[r].shared /\ req[r].at # "ok"
    BY <1>12 DEF AnswersAlone, Puts, Checked, Charging
  <2>3. Stored(k)
    BY <1>12, <2>2 DEF CapInv, ServedStored, Served
  <2>4. Spent(k) + req[r].estimate <= Cap
    BY <1>5, <1>8, <1>12, <2>2, <2>3
  <2>5. Alone(k)' = Alone(k) \cup {r} /\ r \notin Alone(k)
    BY <1>12, <2>1, <2>2 DEF Alone
  <2>6. \A q \in Requests : req'[q].fee = req[q].fee
    BY <2>1
  <2>7. LastHadRoom(k)'
    BY <2>1, <2>4, <2>5, <2>6, LastAnswered
  <2>8. ASSUME NEW q \in Requests, req'[q].at \in Checked, req'[q].key = k, ~req'[q].shared
        PROVE  FALSE
    <3>1. q # r /\ req'[q] = req[q]
      BY <2>1, <2>8 DEF Checked, Charging
    <3>2. req[q].at \in InFlight
      BY <2>8, <3>1 DEF Checked, Charging, InFlight
    <3> QED BY <1>1, <1>12, <2>8, <3>1, <3>2, AloneOnItsKey
  <2> QED BY <2>7, <2>8 DEF HasRoom
<1>13. ASSUME NEW r \in Requests, AnswersAlone(r), UNCHANGED <<meta, day>>, req[r].key # k
       PROVE  Spent(k)' = Spent(k) /\ LastHadRoom(k)'
  <2>1. /\ \A q \in Requests : q # r => req'[q] = req[q]
        /\ req'[r].key = req[r].key
    BY <1>13 DEF AnswersAlone, OnlyMoves, Puts, Kin
  <2>2. Alone(k)' = Alone(k) /\ \A q \in Alone(k) : req'[q].fee = req[q].fee /\ SameEstimate(q)
    BY <1>13, <2>1 DEF Alone, SameEstimate
  <2>3. LastHadRoom(k)'
    BY <1>9, <2>2, LastKept
  <2>4. Spent(k)' = Spent(k)
    BY <1>1, <1>13, SpentByAnswer
  <2> QED BY <2>3, <2>4
<1>14. ASSUME Rests, day' = day + 1 PROVE Alone(k)' = {} /\ Spent(k)' = 0
  BY <1>1, <1>14, SpentAtMidnight
<1>15. ASSUME \A q \in Requests : PartKept(q) PROVE Spent(k)' = Spent(k) /\ LastHadRoom(k)'
  <2>1. Alone(k)' = Alone(k) /\ \A q \in Alone(k) : req'[q].fee = req[q].fee /\ SameEstimate(q)
    BY <1>15 DEF PartKept, Alone
  <2>2. LastHadRoom(k)'
    BY <1>9, <2>1, LastKept
  <2>3. Spent(k)' = Spent(k)
    BY <1>15, SpentKept
  <2> QED BY <2>2, <2>3
<1> QED BY <1>1, <1>10, <1>11, <1>12, <1>13, <1>14, <1>15, SpentSteps

LEMMA InitCap == Init => CapInv
<1> SUFFICES ASSUME Init PROVE CapInv
  OBVIOUS
<1>1. KeyInv /\ TallyInv
  BY InitKeys, InitTally
<1>2. \A r \in Requests : req[r].at = "idle" /\ req[r].day = 0
  BY DEF Init, IdleRequest
<1>3. day = 0 /\ \A k \in Keys : meta[k] = None /\ usage[k].feesPaid = 0
  BY DEF Init, EmptyUsage
<1>4. \A k \in Keys : Spent(k) = 0
  <2>1. \A k \in Keys : Alone(k) = {}
    BY <1>2 DEF Alone
  <2> QED BY <2>1, SumOfNone DEF Spent, SumOfFees
<1>5. ServedStored /\ Dated /\ SideBySide
  BY <1>2, <1>3 DEF ServedStored, Served, Checked, Charging, Dated, SideBySide, InFlight
<1>6. Covered /\ RoomLeft
  BY <1>2, <1>3, <1>4 DEF Covered, RoomLeft, Stored
<1> QED BY <1>1, <1>5, <1>6 DEF CapInv

\* SpentAloneWithinCap: where requests of a key do not run beside each other,
\* the record that the next check reads holds every fee of the day, so that
\* what a free key spends exceeds its cap (auth.ts:384-417) by what the last
\* request costs beyond its estimate, at most; whatever fees and estimates are.
THEOREM AloneWithinCap == Spec => []SpentAloneWithinCap
<1>1. CapInv /\ [Next]_vars => CapInv'
  <2> SUFFICES ASSUME CapInv, [Next]_vars PROVE CapInv'
    OBVIOUS
  <2>1. KeyInv' /\ TallyInv'
    BY NextKeepsKeys, NextTally DEF CapInv
  <2> QED BY <2>1, ServedKept, DatedKept, SideKept, CoveredKept, RoomKept DEF CapInv
<1>2. CapInv => SpentAloneWithinCap
  BY DEF CapInv, RoomLeft, HasRoom, LastHadRoom, SpentAloneWithinCap, Stored, Alone
<1> QED BY InitCap, <1>1, <1>2, PTL DEF Spec
================================================================================
