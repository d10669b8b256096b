--------------------------- MODULE Services_proofs ---------------------------
(***************************************************************************)
(* Proofs about the small services, for any clamps, quotes and updates,    *)
(* windows and limits of any length, any number of probes and of posts.    *)
(*                                                                         *)
(* The parts share no state: a step of the whole is, for each part, a step *)
(* of its own or none (PartsStep). Each part has an inductive invariant:   *)
(*   FeesValid, FeesTyped   what is about to be put was validated;         *)
(*   StatusInv              what the snapshot says was so when it was      *)
(*                          built, and what came since is later;           *)
(*   HealthInv              the history is newest first, and holds what a  *)
(*                          check that ran alone read and put;             *)
(*   ThrottleInv            a count and an address's strikes are backed by *)
(*                          what came in since their window began;         *)
(*   StatsInv               each day's row, and each hour's that is kept,  *)
(*                          agree with what was posted;                    *)
(*   SenderInv              what is known of a sender's nonces, and what   *)
(*                          anyone is about to put, is so on the chain.    *)
(***************************************************************************)
EXTENDS Services, Sequences, Sums_proofs

\* No part sees the others.
PartsNext ==
    /\ [Fees!Next]_feeVars
    /\ [Throttle!Next]_throttleVars
    /\ [Status!Next]_statusVars
    /\ [Health!Next]_healthVars
    /\ [Stats!Next]_statVars
    /\ [Sender!Next]_nonceVars

\* The parts' sums and numbers of elements are the ones proved about.
LEMMA SameCount ==
    ASSUME NEW S
    PROVE  Health!Cardinality(S) = Cardinality(S) /\ Stats!Cardinality(S) = Cardinality(S)
BY DEF Health!Cardinality, Stats!Cardinality, Cardinality

LEMMA SameSum ==
    ASSUME NEW f, NEW S
    PROVE  Throttle!SumOf(f, S) = SumOf(f, S) /\ Stats!SumOf(f, S) = SumOf(f, S)
BY DEF Throttle!SumOf, Throttle!Units, Throttle!Cardinality, Stats!SumOf, Stats!Units,
       Stats!Cardinality, SumOf, Units, Cardinality

LEMMA PartsStep == [Next]_vars => PartsNext
<1> SUFFICES ASSUME [Next]_vars PROVE PartsNext
  OBVIOUS
<1>1. CASE InFees /\ Fees!Next
  BY <1>1 DEF InFees, PartsNext
<1>2. CASE InThrottles /\ Throttle!Next
  BY <1>2 DEF InThrottles, PartsNext
<1>3. CASE InStatus /\ Status!Next
  BY <1>3 DEF InStatus, PartsNext
<1>4. CASE InHealth /\ Health!Next
  BY <1>4 DEF InHealth, PartsNext
<1>5. CASE InStatistics /\ Stats!Next
  BY <1>5 DEF InStatistics, PartsNext
<1>6. CASE InTurns /\ Turns!Next
  BY <1>6 DEF InTurns, PartsNext
<1>7. CASE InNonces /\ Sender!Next
  BY <1>7 DEF InNonces, PartsNext
<1>8. CASE UNCHANGED vars
  BY <1>8 DEF vars, PartsNext
<1> QED BY <1>1, <1>2, <1>3, <1>4, <1>5, <1>6, <1>7, <1>8 DEF Next

--------------------------------------------------------------------------------
(* Fee estimates. *)

\* Callers leave configuration and administrators alone.
LEMMA CallersKeep == ASSUME NEW f \in Callers, Fees!CallerStep(f) PROVE UNCHANGED <<config, admin>>
  BY DEF Fees!CallerStep, Fees!ReadCache, Fees!ReadMarker, Fees!ClampFees, Fees!Floors,
          Fees!Return, Fees!Fetched, Fees!FetchFails, Fees!PutCache

Caller == [at : {"idle", "marker", "hiro", "clamp", "put", "floors", "done"}, raw : Fees!Fee, fee : Fees!Fee]
Clamps == [floor : Nat, ceiling : Nat]
\* What a merge may give, and what KV may hold: see Stored.
Merged == [floor : Nat, ceiling : Nat \cup {Infinity}]
Kept == [floor : Nat, ceiling : Nat \cup {None}]
Admin == [at : {"idle", "put", "delete", "done", "refused"}, merged : Merged \cup {None}]

\* A fee is there to be clamped and put when the step comes to it.
FeesTyped ==
    /\ config \in Kept \cup {None}
    /\ cache \in Fees!Fee
    /\ limited \in BOOLEAN
    /\ caller \in [Callers -> Caller]
    /\ admin \in [Admins -> Admin]
    /\ \A f \in Callers : caller[f].at = "clamp" => caller[f].raw \in Nat
    /\ \A a \in Admins : admin[a].at = "put" => admin[a].merged \in Merged

\* Clamps in force have a ceiling, a clamped quote is a fee, and what an
\* update is merged into may only get a ceiling without bound.
LEMMA InForceTyped == ASSUME config \in Kept \cup {None} PROVE Fees!InForce \in Clamps
BY FeesAssumption DEF Fees!InForce, Fees!Valid, Clamps, Kept

LEMMA ClampTyped == ASSUME NEW v \in Nat, NEW c \in Clamps PROVE Fees!Clamp(v, c) \in Nat
BY DEF Fees!Clamp, Clamps

LEMMA MergeTyped ==
    ASSUME NEW c \in Clamps, NEW u \in [floor : Fees!Fee, ceiling : Fees!Fee \cup {Infinity}]
    PROVE  Fees!Merge(c, u) \in Merged
BY DEF Fees!Merge, Clamps, Merged, Fees!Fee

LEMMA StoredTyped == ASSUME NEW c \in Merged PROVE Fees!Stored(c) \in Kept
BY DEF Fees!Stored, Merged, Kept

\* Nobody is there at first.
LEMMA InitFeesTyped == Fees!Init => FeesTyped
<1> SUFFICES ASSUME Fees!Init PROVE FeesTyped
  OBVIOUS
<1>1. [at |-> "idle", raw |-> None, fee |-> None] \in Caller
  BY DEF Caller, Fees!Fee
<1>2. [at |-> "idle", merged |-> None] \in Admin
  BY DEF Admin
<1>3. /\ caller = [f \in Callers |-> [at |-> "idle", raw |-> None, fee |-> None]]
      /\ admin = [a \in Admins |-> [at |-> "idle", merged |-> None]]
  BY DEF Fees!Init
<1>4. caller \in [Callers -> Caller] /\ admin \in [Admins -> Admin]
  BY <1>1, <1>2, <1>3
<1>5. /\ \A f \in Callers : caller[f].at = "idle"
      /\ \A a \in Admins : admin[a].at = "idle"
  BY <1>3
<1> QED BY <1>4, <1>5 DEF Fees!Init, FeesTyped, Fees!Fee

LEMMA CallerTyped ==
    ASSUME FeesTyped, NEW f \in Callers, Fees!CallerStep(f)
    PROVE  FeesTyped'
<1> USE DEF FeesTyped
<1>0. UNCHANGED <<config, admin>>
  BY CallersKeep
\* A step that gives the caller the fields of x.
<1>1. ASSUME NEW x \in Caller, x.at = "clamp" => x.raw \in Nat, caller' = [caller EXCEPT ![f] = x],
             cache' \in Fees!Fee, limited' \in BOOLEAN
      PROVE  FeesTyped'
  <2>1. caller' \in [Callers -> Caller]
    BY <1>1
  <2>2. \A g \in Callers : caller'[g].at = "clamp" => caller'[g].raw \in Nat
    BY <1>1
  <2> QED BY <1>0, <1>1, <2>1, <2>2
<1>2. caller[f] \in Caller /\ Nat \subseteq Fees!Fee /\ None \in Fees!Fee
  BY DEF Fees!Fee
<1>3. \A at \in {"hiro", "floors", "done"} : [caller[f] EXCEPT !.at = at] \in Caller
                                             /\ [caller[f] EXCEPT !.at = at].at = at
  BY <1>2 DEF Caller
<1>4. \A at \in {"idle", "marker", "put", "done"}, fee \in Fees!Fee :
         [at |-> at, raw |-> None, fee |-> fee] \in Caller
  BY <1>2 DEF Caller
<1>5. CASE Fees!ReadCache(f)
  BY <1>1, <1>2, <1>4, <1>5 DEF Fees!ReadCache, Fees!Calls
<1>6. CASE Fees!ReadMarker(f)
  <2>1. PICK at \in {"hiro", "floors"} : caller' = [caller EXCEPT ![f] = [caller[f] EXCEPT !.at = at]]
    BY <1>6 DEF Fees!ReadMarker, Fees!Calls
  <2> QED BY <1>1, <1>3, <1>6, <2>1 DEF Fees!ReadMarker
<1>7. ASSUME NEW b \in BOOLEAN, Fees!FetchFails(f, b) PROVE FeesTyped'
  BY <1>1, <1>3, <1>7 DEF Fees!FetchFails, Fees!Calls
<1>8. ASSUME NEW v \in Values, Fees!Fetched(f, v) PROVE FeesTyped'
  <2> DEFINE x == [caller[f] EXCEPT !.at = "clamp", !.raw = v]
  <2>1. v \in Nat /\ v \in Fees!Fee
    BY <1>2, FeesAssumption
  <2>2. x \in Caller /\ x.raw = v
    BY <1>2, <2>1 DEF Caller
  <2>3. caller' = [caller EXCEPT ![f] = x]
    BY <1>8 DEF Fees!Fetched, Fees!Calls
  <2> HIDE DEF x
  <2> QED BY <1>1, <1>8, <2>1, <2>2, <2>3 DEF Fees!Fetched
<1>9. CASE Fees!ClampFees(f)
  <2>1. Fees!Clamp(caller[f].raw, Fees!InForce) \in Fees!Fee
    BY <1>2, <1>9, InForceTyped, ClampTyped DEF Fees!ClampFees
  <2> QED BY <1>1, <1>4, <1>9, <2>1 DEF Fees!ClampFees, Fees!Calls
<1>10. ASSUME NEW b \in BOOLEAN, Fees!PutCache(f, b) PROVE FeesTyped'
  <2>1. caller[f].fee \in Fees!Fee
    BY <1>2 DEF Caller
  <2> QED BY <1>1, <1>3, <1>10, <2>1 DEF Fees!PutCache, Fees!Calls
<1>11. CASE Fees!Floors(f)
  <2>1. Fees!InForce.floor \in Fees!Fee
    BY <1>2, InForceTyped DEF Clamps
  <2> QED BY <1>1, <1>4, <1>11, <2>1 DEF Fees!Floors, Fees!Calls
<1>12. CASE Fees!Return(f)
  BY <1>1, <1>2, <1>4, <1>12 DEF Fees!Return, Fees!Calls
<1> QED BY <1>5, <1>6, <1>7, <1>8, <1>9, <1>10, <1>11, <1>12 DEF Fees!CallerStep

LEMMA NextFeesTyped == ASSUME FeesTyped, [Fees!Next]_feeVars PROVE FeesTyped'
<1>1. ASSUME NEW f \in Callers, Fees!CallerStep(f) PROVE FeesTyped'
  BY <1>1, CallerTyped
<1>2. ASSUME NEW a \in Admins, NEW u \in Updates, Fees!Accept(a, u) PROVE FeesTyped'
  <2>1. Fees!Merge(Fees!InForce, u) \in Merged
    BY InForceTyped, MergeTyped, FeesAssumption DEF FeesTyped, Fees!Fee
  <2>2. PICK x \in Admin : admin' = [admin EXCEPT ![a] = x] /\ (x.at = "put" => x.merged \in Merged)
    <3> DEFINE m == Fees!Merge(Fees!InForce, u)
               goes == [at |-> "put", merged |-> m]
               ends == [at |-> "refused", merged |-> None]
    <3>1. admin' = [admin EXCEPT ![a] = IF Fees!Valid(m) THEN goes ELSE ends]
      BY <1>2 DEF Fees!Accept
    <3> HIDE DEF m
    <3>2. goes \in Admin /\ goes.merged \in Merged /\ ends \in Admin /\ ends.at # "put"
      BY <2>1 DEF Admin, m
    <3> HIDE DEF goes, ends
    <3>3. CASE Fees!Valid(m)
      BY <3>1, <3>2, <3>3
    <3>4. CASE ~Fees!Valid(m)
      BY <3>1, <3>2, <3>4
    <3> QED BY <3>3, <3>4
  <2>3. admin' \in [Admins -> Admin] /\ \A b \in Admins : admin'[b].at = "put" => admin'[b].merged \in Merged
    BY <2>2 DEF FeesTyped
  <2> QED BY <1>2, <2>3 DEF Fees!Accept, FeesTyped
<1>3. ASSUME NEW a \in Admins, Fees!PutConfig(a) PROVE FeesTyped'
  <2>1. config' \in Kept
    BY <1>3, StoredTyped DEF Fees!PutConfig, FeesTyped
  <2>2. [at |-> "delete", merged |-> None] \in Admin
    BY DEF Admin
  <2>3. admin' \in [Admins -> Admin] /\ \A b \in Admins : admin'[b].at = "put" => admin'[b].merged \in Merged
    BY <1>3, <2>2 DEF Fees!PutConfig, FeesTyped
  <2> QED BY <1>3, <2>1, <2>3 DEF Fees!PutConfig, FeesTyped
<1>4. ASSUME NEW a \in Admins, NEW ok \in BOOLEAN, Fees!DeleteCache(a, ok) PROVE FeesTyped'
  <2>1. [admin[a] EXCEPT !.at = "done"] \in Admin
    BY DEF FeesTyped, Admin
  <2>2. admin' \in [Admins -> Admin] /\ \A b \in Admins : admin'[b].at = "put" => admin'[b].merged \in Merged
    BY <1>4, <2>1 DEF Fees!DeleteCache, FeesTyped, Admin
  <2>3. cache' \in Fees!Fee
    BY <1>4 DEF Fees!DeleteCache, FeesTyped, Fees!Fee
  <2> QED BY <1>4, <2>2, <2>3 DEF Fees!DeleteCache, FeesTyped
<1>5. CASE Fees!CacheExpires \/ Fees!MarkerExpires
  BY <1>5 DEF Fees!CacheExpires, Fees!MarkerExpires, FeesTyped, Fees!Fee
<1>6. CASE UNCHANGED feeVars
  BY <1>6 DEF feeVars, FeesTyped
<1> QED BY <1>1, <1>2, <1>3, <1>4, <1>5, <1>6 DEF Fees!Next

\* What the invariant says of the types.
LEMMA FeesTypes == FeesTyped => Fees!TypeOK
  BY DEF FeesTyped, Fees!TypeOK, Kept, Caller, Admin

\* What an administrator is about to put was validated as a whole: the merge
\* and its validation come before any other invocation can intervene.
PutsValid ==
    /\ DOMAIN admin = Admins
    /\ \A a \in Admins : /\ "at" \in DOMAIN admin[a]
                         /\ admin[a].at = "put" => Fees!Valid(admin[a].merged)

FeesValid == PutsValid /\ Fees!StoredIsValid

\* The JSON round trip leaves a valid configuration as it is or takes its
\* ceiling away.
LEMMA StoredValid ==
    ASSUME NEW c \in Merged, Fees!Valid(c)
    PROVE  Fees!Valid(Fees!Stored(c)) \/ Fees!Stored(c).ceiling = None
BY FeesAssumption DEF Fees!Valid, Fees!Stored, Merged

\* Nothing is stored and nothing is about to be put at first.
LEMMA InitFeesValid == Fees!Init => FeesValid
  BY DEF Fees!Init, FeesValid, PutsValid, Fees!StoredIsValid

\* Every step keeps it: Accept lets only a valid merge through to its put.
LEMMA NextFeesValid == ASSUME FeesTyped, FeesValid, [Fees!Next]_feeVars PROVE FeesValid'
<1> USE DEF FeesValid, PutsValid, Fees!StoredIsValid
<1>1. ASSUME NEW f \in Callers, Fees!CallerStep(f) PROVE FeesValid'
  BY <1>1, CallersKeep
<1>2. ASSUME NEW a \in Admins, NEW u \in Updates, Fees!Accept(a, u) PROVE FeesValid'
  <2>1. CASE Fees!Valid(Fees!Merge(Fees!InForce, u))
    BY <1>2, <2>1 DEF Fees!Accept
  <2>2. CASE ~Fees!Valid(Fees!Merge(Fees!InForce, u))
    BY <1>2, <2>2 DEF Fees!Accept
  <2> QED BY <2>1, <2>2
<1>3. ASSUME NEW a \in Admins, Fees!PutConfig(a) PROVE FeesValid'
  <2>1. Fees!Valid(admin[a].merged) /\ admin[a].merged \in Merged
    BY <1>3 DEF Fees!PutConfig, FeesTyped
  <2>2. Fees!Valid(config') \/ config'.ceiling = None
    BY <1>3, <2>1, StoredValid DEF Fees!PutConfig
  <2> QED BY <1>3, <2>2 DEF Fees!PutConfig, Fees!Valid
<1>4. ASSUME NEW a \in Admins, NEW ok \in BOOLEAN, Fees!DeleteCache(a, ok) PROVE FeesValid'
  BY <1>4 DEF Fees!DeleteCache
<1>5. CASE Fees!CacheExpires \/ Fees!MarkerExpires
  BY <1>5 DEF Fees!CacheExpires, Fees!MarkerExpires
<1>6. CASE UNCHANGED feeVars
  BY <1>6 DEF feeVars
<1> QED BY <1>1, <1>2, <1>3, <1>4, <1>5, <1>6 DEF Fees!Next

--------------------------------------------------------------------------------
(* Sponsor status. *)

Moments == 0..time \cup {None}

\* Room that the snapshot saw was there at asOf or later, the sync it names
\* is the last one or came before it, and the gap on record is the one it
\* names or came after it.
NotOutdated ==
    snapshot # None =>
        /\ snapshot.asOf \in 0..time /\ snapshot.available \in Status!Rooms
        /\ snapshot.available # 0 => roomAt # None /\ snapshot.asOf <= roomAt
        /\ snapshot.lastSuccessfulAt \in Moments /\ snapshot.lastConflictAt \in Moments
        /\ snapshot.lastSuccessfulAt # None => syncAt # None /\ snapshot.lastSuccessfulAt <= syncAt
        /\ gapAt # None => gapAt = snapshot.lastConflictAt \/ snapshot.asOf <= gapAt

Clocks ==
    /\ time \in 0..MaxTime /\ headroom \in Status!Rooms /\ pending \in BOOLEAN
    /\ gapAt \in Moments /\ syncAt \in Moments /\ roomAt \in Moments
    /\ headroom # 0 => roomAt = time

StatusInv == Clocks /\ NotOutdated

LEMMA InitStatus == ASSUME Status!Init PROVE StatusInv
<1>1. headroom \in {0, 1} /\ roomAt = IF headroom > 0 THEN 0 ELSE None
  BY DEF Status!Init, Status!Rooms, Status!RoomSeen
<1>2. time = 0 /\ gapAt = None /\ syncAt = None /\ snapshot = None /\ pending = FALSE
  BY DEF Status!Init
<1>3. 0 \in 0..MaxTime /\ 0 \in 0..time
  BY <1>2, StatusAssumption, NoneAssumption
<1>4. headroom # 0 => roomAt = 0
  BY <1>1
<1>5. roomAt \in {0, None}
  BY <1>1
<1> QED BY <1>1, <1>2, <1>3, <1>4, <1>5 DEF StatusInv, Clocks, NotOutdated, Moments, Status!Rooms

\* A snapshot is built of the pool as it is.
LEMMA Rebuilt ==
    ASSUME Clocks', time' = time, syncAt' = syncAt,
           snapshot' = Status!Snapshot(headroom', gapAt')
    PROVE  StatusInv'
<1>1. /\ snapshot'.asOf = time' /\ snapshot'.available = headroom'
      /\ snapshot'.lastSuccessfulAt = syncAt' /\ snapshot'.lastConflictAt = gapAt'
  BY DEF Status!Snapshot
<1>2. NotOutdated'
  BY <1>1, StatusAssumption, NoneAssumption DEF Clocks, NotOutdated, Moments
<1> QED BY <1>2 DEF StatusInv

\* A snapshot that stays is overtaken only by what is later.
LEMMA Overtaken ==
    ASSUME StatusInv, Clocks', UNCHANGED snapshot, time <= time',
           roomAt' = roomAt \/ roomAt' = time',
           syncAt' = syncAt \/ syncAt' = time',
           gapAt' \in {gapAt, time', None}
    PROVE  StatusInv'
<1>1. time \in Nat /\ time' \in Nat /\ time <= time' /\ None \notin Nat
  BY StatusAssumption, NoneAssumption DEF StatusInv, Clocks
<1>2. CASE snapshot = None
  BY <1>2 DEF StatusInv, NotOutdated
<1>3. CASE snapshot # None
  <2>1. NotOutdated'
    BY <1>1, <1>3 DEF StatusInv, Clocks, NotOutdated, Moments
  <2> QED BY <2>1 DEF StatusInv
<1> QED BY <1>2, <1>3

\* Whatever moves, the clocks stay in range: room is seen as of now.
LEMMA ClocksKept ==
    ASSUME StatusInv, time' \in 0..MaxTime, time <= time', headroom' \in Status!Rooms,
           pending' \in BOOLEAN,
           roomAt' = Status!RoomSeen(headroom', time', roomAt),
           syncAt' = syncAt \/ syncAt' = time',
           gapAt' \in {gapAt, time', None}
    PROVE  Clocks' /\ (roomAt' = roomAt \/ roomAt' = time')
BY StatusAssumption, NoneAssumption DEF StatusInv, Clocks, Moments, Status!Rooms, Status!RoomSeen

LEMMA NextStatus == ASSUME StatusInv, [Status!Next]_statusVars PROVE StatusInv'
<1>1. time \in 0..MaxTime /\ time <= time /\ headroom \in Status!Rooms /\ pending \in BOOLEAN
  BY StatusAssumption, NoneAssumption DEF StatusInv, Clocks
<1>2. CASE Status!Tick /\ roomAt' = Status!RoomSeen(headroom', time', roomAt)
  <2>1. time' \in 0..MaxTime /\ time <= time' /\ UNCHANGED <<headroom, gapAt, syncAt, snapshot, pending>>
    BY <1>1, <1>2, StatusAssumption, NoneAssumption DEF Status!Tick
  <2> QED BY <1>1, <1>2, <2>1, ClocksKept, Overtaken
<1>3. ASSUME NEW h \in Status!Rooms, Status!PoolMoves(h), roomAt' = Status!RoomSeen(headroom', time', roomAt)
      PROVE  StatusInv'
  BY <1>1, <1>3, ClocksKept, Rebuilt DEF Status!PoolMoves
<1>4. ASSUME NEW h \in Status!Rooms, Status!HandDispatches(h),
             roomAt' = Status!RoomSeen(headroom', time', roomAt)
      PROVE  StatusInv'
  BY <1>1, <1>4, ClocksKept, Overtaken DEF Status!HandDispatches
<1>5. CASE Status!ClearConflicts /\ roomAt' = Status!RoomSeen(headroom', time', roomAt)
  BY <1>1, <1>5, ClocksKept, Rebuilt DEF Status!ClearConflicts
<1>6. ASSUME NEW synced \in BOOLEAN, NEW gap \in {time, gapAt, None}, NEW h \in Status!Rooms,
             Status!Reconcile(synced, gap, h), roomAt' = Status!RoomSeen(headroom', time', roomAt)
      PROVE  StatusInv'
  <2>1. /\ time' = time /\ headroom' = h /\ pending' = TRUE /\ snapshot' = snapshot
        /\ syncAt' = syncAt \/ syncAt' = time'
        /\ gapAt' \in {gapAt, time', None}
    BY <1>6 DEF Status!Reconcile
  <2> QED BY <1>1, <1>6, <2>1, ClocksKept, Overtaken
<1>7. CASE Status!Refresh /\ roomAt' = Status!RoomSeen(headroom', time', roomAt)
  BY <1>1, <1>7, ClocksKept, Rebuilt DEF Status!Refresh
<1>8. CASE Status!FailsBeforeRefresh /\ roomAt' = Status!RoomSeen(headroom', time', roomAt)
  BY <1>1, <1>8, ClocksKept, Overtaken DEF Status!FailsBeforeRefresh
<1>9. CASE Status!FirstAsk /\ roomAt' = Status!RoomSeen(headroom', time', roomAt)
  BY <1>1, <1>9, ClocksKept, Rebuilt DEF Status!FirstAsk
<1>10. CASE UNCHANGED statusVars
  BY <1>10 DEF statusVars, StatusInv, Clocks, NotOutdated, Moments
<1> QED BY <1>2, <1>3, <1>4, <1>5, <1>6, <1>7, <1>8, <1>9, <1>10 DEF Status!Next

\* A healthy answer has none of the reasons against it.
LEMMA HealthyMeans ==
    ASSUME Status!Status = "healthy"
    PROVE  /\ snapshot.available # 0
           /\ ~Status!Within(snapshot.lastConflictAt, ConflictFor)
           /\ Status!Within(snapshot.lastSuccessfulAt, FreshFor)
           /\ Status!Within(snapshot.asOf, FreshFor)
<1>1. Status!Reasons = {}
  BY DEF Status!Status
<1>2. snapshot.available # 0
  BY <1>1 DEF Status!Reasons
<1>3. ~Status!Within(snapshot.lastConflictAt, ConflictFor)
  BY <1>1 DEF Status!Reasons
<1>4. Status!Reconciled
  BY <1>1 DEF Status!Reasons
<1>5. Status!Freshness(snapshot.asOf) = "fresh"
  BY <1>1 DEF Status!Reasons
<1> QED BY <1>2, <1>3, <1>4, <1>5 DEF Status!Reconciled, Status!Freshness

\* A fresh snapshot that names a sync and a gap is wrong by FreshFor at most.
LEMMA StatusBacked == StatusInv => Status!CanSponsorIsBacked
<1> SUFFICES ASSUME StatusInv, snapshot # None, Status!Status = "healthy"
             PROVE  /\ Status!Within(roomAt, FreshFor) /\ Status!Within(syncAt, FreshFor)
                    /\ Status!Within(gapAt, ConflictFor) => Status!Within(gapAt, FreshFor)
  BY DEF Status!CanSponsorIsBacked
<1> QED BY HealthyMeans, StatusAssumption, NoneAssumption
        DEF StatusInv, Clocks, NotOutdated, Status!Within, Moments

LEMMA StatusTypes == StatusInv => Status!TypeOK
  BY DEF StatusInv, Clocks, NotOutdated, Moments, Status!TypeOK

--------------------------------------------------------------------------------
(* Settlement health. *)

Histories == {h \in Seq(Probes) : Len(h) <= HistoryLimit}
Invocation == [at : Health!Busy \cup {"idle", "done", "stopped"}, result : Health!Results \cup {None},
               saw : Histories, alone : BOOLEAN]

HealthTyped ==
    /\ latest \in Probes \cup {None} /\ history \in Histories
    /\ probe \in [Probes -> Invocation]
    /\ ended \in Seq(Probes)

\* A check that runs alone is the only one that runs, so what it read of the
\* history is still there when it puts; and what was recorded is over.
AloneIsAlone ==
    /\ \A p \in Probes : probe[p].at \in Health!Busy /\ probe[p].alone =>
          /\ \A q \in Probes \ {p} : probe[q].at \notin Health!Busy
          /\ probe[p].at = "put" => probe[p].saw = history
    /\ \A i \in 1..Len(ended) : probe[ended[i]].at = "done"

\* The check that ended as the last but i - 1.
Back(i) == ended[Len(ended) + 1 - i]

\* As far back as the checks ran alone, the history holds them.
Aligned ==
    \A i \in 1..Len(ended) :
        i <= HistoryLimit /\ (\A j \in 1..i : probe[Back(j)].alone) =>
            i <= Len(history) /\ history[i] = Back(i)

HealthInv == HealthTyped /\ AloneIsAlone /\ Aligned

LEMMA InitHealth == Health!Init => HealthInv
<1> SUFFICES ASSUME Health!Init PROVE HealthInv
  OBVIOUS
<1>1. << >> \in Histories
  BY HealthAssumption DEF Histories
<1>2. HealthTyped
  BY <1>1 DEF Health!Init, HealthTyped, Invocation
<1>3. AloneIsAlone /\ Aligned
  BY DEF Health!Init, AloneIsAlone, Aligned, Health!Busy
<1> QED BY <1>2, <1>3 DEF HealthInv

\* The new history begins with the new check and goes on with the old one.
LEMMA NewestIs ==
    ASSUME NEW p \in Probes, NEW saw \in Histories, NEW h, h = Health!Newest(p, saw)
    PROVE  /\ h \in Histories /\ 1 <= Len(h) /\ h[1] = p
           /\ \A i \in 1..Len(saw) : i + 1 <= HistoryLimit => i + 1 <= Len(h) /\ h[i + 1] = saw[i]
<1> DEFINE checks == <<p>> \o saw
<1>1. saw \in Seq(Probes) /\ Len(saw) <= HistoryLimit /\ HistoryLimit \in Nat /\ 1 <= HistoryLimit
  BY HealthAssumption DEF Histories
<1>2. /\ checks \in Seq(Probes) /\ Len(checks) = Len(saw) + 1 /\ checks[1] = p
      /\ \A i \in 1..Len(saw) : checks[i + 1] = saw[i]
  BY <1>1
<1>3. h = IF Len(checks) > HistoryLimit THEN SubSeq(checks, 1, HistoryLimit) ELSE checks
  BY DEF Health!Newest
<1> HIDE DEF checks
<1>4. CASE Len(checks) > HistoryLimit
  <2>1. /\ h \in Seq(Probes) /\ Len(h) = HistoryLimit
        /\ \A i \in 1..HistoryLimit : h[i] = checks[i]
    BY <1>1, <1>2, <1>3, <1>4
  <2> QED BY <1>1, <1>2, <2>1 DEF Histories
<1>5. CASE Len(checks) <= HistoryLimit
  BY <1>1, <1>2, <1>3, <1>5 DEF Histories
<1> QED BY <1>1, <1>2, <1>4, <1>5

\* A step of an invocation that runs and records nothing.
LEMMA HealthKept ==
    ASSUME HealthInv, NEW p \in Probes, probe[p].at \in Health!Busy, UNCHANGED <<history, ended>>,
           latest' \in Probes \cup {None},
           NEW x \in Invocation, probe' = [probe EXCEPT ![p] = x], x.alone = probe[p].alone,
           x.at # "idle", x.at = "put" => x.saw = history
    PROVE  HealthInv'
<1>1. HealthTyped'
  BY DEF HealthInv, HealthTyped
<1>2. probe'[p] = x /\ \A q \in Probes \ {p} : probe'[q] = probe[q]
  BY DEF HealthInv, HealthTyped
<1>3. \A i \in 1..Len(ended) : ended[i] \in Probes \ {p}
  BY DEF HealthInv, HealthTyped, AloneIsAlone, Health!Busy
<1>4. AloneIsAlone'
  BY <1>2, <1>3 DEF HealthInv, AloneIsAlone
<1>5. \A i \in 1..Len(ended) : Back(i)' = Back(i) /\ Back(i) \in Probes \ {p}
  BY <1>3 DEF Back, HealthInv, HealthTyped
<1>6. Aligned'
  BY <1>2, <1>5 DEF HealthInv, HealthTyped, Aligned
<1> QED BY <1>1, <1>4, <1>6 DEF HealthInv

\* A check that begins beside others takes all of them out of the property.
LEMMA HealthBegins == ASSUME HealthInv, NEW p \in Probes, Health!Begin(p) PROVE HealthInv'
<1> DEFINE others == {q \in Probes : probe[q].at \in Health!Busy}
           begun == [probe[p] EXCEPT !.at = "check", !.alone = others = {}]
<1>1. /\ probe[p].at = "idle" /\ UNCHANGED <<latest, history, ended>>
      /\ probe' = [q \in Probes |-> IF q = p THEN begun
                                    ELSE [probe[q] EXCEPT !.alone = @ /\ q \notin others]]
  BY DEF Health!Begin
<1>2. \A q \in Probes : probe[q] \in Invocation
  BY DEF HealthInv, HealthTyped
<1>3. begun \in Invocation /\ begun.at = "check" /\ begun.alone = (others = {})
  BY <1>2 DEF Invocation, Health!Busy
<1> HIDE DEF begun
<1>4. ASSUME NEW q \in Probes, q # p
      PROVE  /\ probe'[q] \in Invocation /\ probe'[q].at = probe[q].at /\ probe'[q].saw = probe[q].saw
             /\ probe'[q].alone = (probe[q].alone /\ q \notin others)
             /\ q \notin others => (probe'[q].alone <=> probe[q].alone)
  <2> DEFINE b == probe[q].alone /\ q \notin others
             y == [probe[q] EXCEPT !.alone = b]
  <2>1. probe'[q] = y
    BY <1>1, <1>4
  <2>2. b \in BOOLEAN
    OBVIOUS
  <2> HIDE DEF b
  <2>3. y \in Invocation /\ y.at = probe[q].at /\ y.saw = probe[q].saw /\ y.alone = b
    BY <1>2, <2>2 DEF Invocation
  <2> QED BY <2>1, <2>3 DEF b
<1>5. probe' \in [Probes -> Invocation] /\ probe'[p] = begun
  BY <1>1, <1>3, <1>4
<1>6. HealthTyped'
  BY <1>1, <1>5 DEF HealthInv, HealthTyped
<1>7. \A i \in 1..Len(ended) : ended[i] \in Probes \ {p} /\ ended[i] \notin others
  BY <1>1 DEF HealthInv, HealthTyped, AloneIsAlone, Health!Busy
<1>8. AloneIsAlone'
  <2>1. ASSUME NEW q \in Probes, probe'[q].at \in Health!Busy, probe'[q].alone
        PROVE  /\ \A s \in Probes \ {q} : probe'[s].at \notin Health!Busy
               /\ probe'[q].at = "put" => probe'[q].saw = history'
    <3>1. q = p
      BY <1>4, <2>1
    <3>2. others = {} /\ probe'[q].at = "check"
      BY <1>3, <1>5, <2>1, <3>1
    <3> QED BY <1>4, <3>1, <3>2
  <2>2. \A i \in 1..Len(ended)' : probe'[ended'[i]].at = "done"
    BY <1>1, <1>4, <1>7 DEF HealthInv, AloneIsAlone
  <2> QED BY <2>1, <2>2 DEF AloneIsAlone
<1>9. \A i \in 1..Len(ended) : Back(i)' = Back(i) /\ Back(i) \in Probes \ {p} /\ Back(i) \notin others
  BY <1>1, <1>7 DEF Back, HealthInv, HealthTyped
<1>10. \A i \in 1..Len(ended) : probe'[Back(i)].alone => probe[Back(i)].alone
  BY <1>4, <1>9
<1>11. Aligned'
  <2>1. ASSUME NEW i \in 1..Len(ended'), i <= HistoryLimit, \A j \in 1..i : probe'[Back(j)'].alone
        PROVE  i <= Len(history') /\ history'[i] = Back(i)'
    <3>1. i \in 1..Len(ended) /\ \A j \in 1..i : j \in 1..Len(ended)
      BY <1>1, <2>1 DEF HealthInv, HealthTyped
    <3>2. \A j \in 1..i : probe[Back(j)].alone
      BY <1>9, <1>10, <2>1, <3>1
    <3>3. i <= Len(history) /\ history[i] = Back(i)
      BY <2>1, <3>1, <3>2 DEF HealthInv, Aligned
    <3> QED BY <1>1, <1>9, <3>1, <3>3
  <2> QED BY <2>1 DEF Aligned
<1> QED BY <1>6, <1>8, <1>11 DEF HealthInv

\* A check that ran alone puts itself before the history as it is.
LEMMA HealthRecords == ASSUME HealthInv, NEW p \in Probes, Health!PutHistory(p) PROVE HealthInv'
<1> DEFINE x == [probe[p] EXCEPT !.at = "done", !.saw = << >>]
<1>1. /\ probe[p].at = "put" /\ history' = Health!Newest(p, probe[p].saw)
      /\ probe' = [probe EXCEPT ![p] = x]
      /\ ended' = Append(ended, p) /\ latest' = latest
  BY DEF Health!PutHistory
<1>2. probe[p] \in Invocation /\ probe \in [Probes -> Invocation] /\ ended \in Seq(Probes)
  BY DEF HealthInv, HealthTyped
<1>3. x \in Invocation /\ x.at = "done" /\ x.alone = probe[p].alone
  <2>1. << >> \in Histories
    BY HealthAssumption DEF Histories
  <2> QED BY <1>2, <2>1 DEF Invocation
<1> HIDE DEF x
<1>4. probe[p].saw \in Histories
  BY <1>2 DEF Invocation
<1>5. /\ history' \in Histories /\ 1 <= Len(history') /\ history'[1] = p
      /\ \A i \in 1..Len(probe[p].saw) :
            i + 1 <= HistoryLimit => i + 1 <= Len(history') /\ history'[i + 1] = probe[p].saw[i]
  BY <1>1, <1>4, NewestIs
<1>6. /\ ended' \in Seq(Probes) /\ Len(ended') = Len(ended) + 1
      /\ ended'[Len(ended) + 1] = p /\ \A i \in 1..Len(ended) : ended'[i] = ended[i]
  BY <1>1, <1>2
<1>7. probe' \in [Probes -> Invocation] /\ probe'[p] = x /\ \A q \in Probes \ {p} : probe'[q] = probe[q]
  BY <1>1, <1>2, <1>3
<1>8. HealthTyped'
  BY <1>1, <1>5, <1>6, <1>7 DEF HealthInv, HealthTyped
<1>9. \A i \in 1..Len(ended) : ended[i] \in Probes \ {p}
  BY <1>1, <1>2 DEF HealthInv, AloneIsAlone
<1>10. AloneIsAlone'
  <2>1. ASSUME NEW q \in Probes, probe'[q].at \in Health!Busy, probe'[q].alone PROVE FALSE
    <3>1. q # p
      BY <1>3, <1>7, <2>1 DEF Health!Busy
    <3>2. probe[q].at \in Health!Busy /\ probe[q].alone
      BY <1>7, <2>1, <3>1
    <3>3. probe[p].at \notin Health!Busy
      BY <3>1, <3>2 DEF HealthInv, AloneIsAlone
    <3> QED BY <1>1, <3>3 DEF Health!Busy
  <2>2. \A i \in 1..Len(ended') : probe'[ended'[i]].at = "done"
    <3>1. ASSUME NEW i \in 1..Len(ended') PROVE probe'[ended'[i]].at = "done"
      <4>1. CASE i \in 1..Len(ended)
        BY <1>6, <1>7, <1>9, <4>1 DEF HealthInv, AloneIsAlone
      <4>2. CASE i = Len(ended) + 1
        BY <1>3, <1>6, <1>7, <4>2
      <4> QED BY <1>2, <1>6, <4>1, <4>2
    <3> QED BY <3>1
  <2> QED BY <2>1, <2>2 DEF AloneIsAlone
<1>11. Back(1)' = p /\ \A i \in 1..Len(ended) : Back(i + 1)' = Back(i) /\ Back(i) \in Probes \ {p}
  BY <1>2, <1>6, <1>9 DEF Back
<1>12. Aligned'
  <2>1. ASSUME NEW i \in 1..Len(ended'), i <= HistoryLimit, \A j \in 1..i : probe'[Back(j)'].alone
        PROVE  i <= Len(history') /\ history'[i] = Back(i)'
    <3>1. CASE i = 1
      BY <1>5, <1>11, <3>1
    <3>2. CASE i # 1
      <4> DEFINE k == i - 1
      <4>1. k \in 1..Len(ended) /\ i = k + 1 /\ k <= HistoryLimit
        BY <1>2, <1>6, <2>1, <3>2, HealthAssumption
      <4> HIDE DEF k
      <4>2. probe[p].alone
        <5>1. 1 \in 1..i
          BY <4>1
        <5>2. probe'[p].alone
          BY <1>11, <2>1, <5>1
        <5> QED BY <1>3, <1>7, <5>2
      <4>3. probe[p].saw = history
        BY <1>1, <4>2 DEF HealthInv, AloneIsAlone, Health!Busy
      <4>4. \A j \in 1..k : probe[Back(j)].alone
        <5>1. ASSUME NEW j \in 1..k PROVE probe[Back(j)].alone
          <6>1. j + 1 \in 1..i /\ j \in 1..Len(ended)
            BY <4>1
          <6>2. probe'[Back(j + 1)'].alone
            BY <2>1, <6>1
          <6> QED BY <1>7, <1>11, <6>1, <6>2
        <5> QED BY <5>1
      <4>5. k <= Len(history) /\ history[k] = Back(k)
        BY <4>1, <4>4 DEF HealthInv, Aligned
      <4>6. k \in 1..Len(probe[p].saw)
        BY <4>1, <4>3, <4>5
      <4> QED BY <1>5, <1>11, <2>1, <4>1, <4>3, <4>5, <4>6
    <3> QED BY <3>1, <3>2
  <2> QED BY <2>1 DEF Aligned
<1> QED BY <1>8, <1>10, <1>12 DEF HealthInv

LEMMA NextHealth == ASSUME HealthInv, [Health!Next]_healthVars PROVE HealthInv'
<1>1. \A q \in Probes : probe[q] \in Invocation
  BY DEF HealthInv, HealthTyped
<1>2. history \in Histories /\ << >> \in Histories /\ latest \in Probes \cup {None}
  BY HealthAssumption DEF HealthInv, HealthTyped, Histories
<1>3. ASSUME NEW p \in Probes, NEW result \in Health!Results, Health!Check(p, result) PROVE HealthInv'
  <2> DEFINE x == [probe[p] EXCEPT !.at = "latest", !.result = result]
  <2>1. x \in Invocation /\ x.alone = probe[p].alone /\ x.at = "latest"
    BY <1>1 DEF Invocation, Health!Busy
  <2>2. probe' = [probe EXCEPT ![p] = x] /\ UNCHANGED <<latest, history, ended>> /\ probe[p].at = "check"
    BY <1>3 DEF Health!Check
  <2> HIDE DEF x
  <2> QED BY <1>2, <2>1, <2>2, HealthKept DEF Health!Busy
<1>4. ASSUME NEW p \in Probes, Health!PutLatest(p) PROVE HealthInv'
  <2> DEFINE x == [probe[p] EXCEPT !.at = "read"]
  <2>1. x \in Invocation /\ x.alone = probe[p].alone /\ x.at = "read"
    BY <1>1 DEF Invocation, Health!Busy
  <2>2. /\ probe' = [probe EXCEPT ![p] = x] /\ UNCHANGED <<history, ended>>
        /\ latest' = p /\ probe[p].at = "latest"
    BY <1>4 DEF Health!PutLatest
  <2> HIDE DEF x
  <2> QED BY <2>1, <2>2, HealthKept DEF Health!Busy
<1>5. ASSUME NEW p \in Probes, Health!ReadHistory(p) PROVE HealthInv'
  <2> DEFINE x == [probe[p] EXCEPT !.at = "put", !.saw = history]
  <2>1. x \in Invocation /\ x.alone = probe[p].alone /\ x.at = "put" /\ x.saw = history
    BY <1>1, <1>2 DEF Invocation, Health!Busy
  <2>2. probe' = [probe EXCEPT ![p] = x] /\ UNCHANGED <<latest, history, ended>> /\ probe[p].at = "read"
    BY <1>5 DEF Health!ReadHistory
  <2> HIDE DEF x
  <2> QED BY <1>2, <2>1, <2>2, HealthKept DEF Health!Busy
<1>6. ASSUME NEW p \in Probes, Health!Stops(p) PROVE HealthInv'
  <2> DEFINE x == [probe[p] EXCEPT !.at = "stopped", !.saw = << >>]
  <2>1. x \in Invocation /\ x.alone = probe[p].alone /\ x.at = "stopped"
    BY <1>1, <1>2 DEF Invocation
  <2>2. /\ probe' = [probe EXCEPT ![p] = x] /\ UNCHANGED <<latest, history, ended>>
        /\ probe[p].at \in Health!Busy
    BY <1>6 DEF Health!Stops
  <2> HIDE DEF x
  <2> QED BY <1>2, <2>1, <2>2, HealthKept
<1>7. CASE UNCHANGED healthVars
  <2>1. \A i : Back(i)' = Back(i)
    BY <1>7 DEF healthVars, Back
  <2> QED BY <1>7, <2>1 DEF healthVars, HealthInv, HealthTyped, AloneIsAlone, Aligned
<1> QED BY <1>3, <1>4, <1>5, <1>6, <1>7, HealthBegins, HealthRecords DEF Health!Next

\* With the last Recent checks in the history, in their order, the status is
\* drawn from them and from no other.
LEMMA StatusFollows == HealthInv => Health!StatusFollowsChecks
<1> SUFFICES ASSUME HealthInv, Len(ended) >= Recent, \A p \in Health!LastEnded : probe[p].alone
             PROVE  /\ Health!Status = "healthy" <=> \A p \in Health!LastEnded : probe[p].result = "healthy"
                    /\ Health!Status = "down" <=> \A p \in Health!LastEnded : probe[p].result # "healthy"
  BY DEF Health!StatusFollowsChecks
<1>1. /\ ended \in Seq(Probes) /\ history \in Seq(Probes)
      /\ Recent \in Nat /\ 1 <= Recent /\ Recent <= HistoryLimit /\ HistoryLimit \in Nat
  BY HealthAssumption DEF HealthInv, HealthTyped, Histories
<1>2. Health!LastEnded = {Back(i) : i \in 1..Recent}
  <2>1. ASSUME NEW j \in 1..Len(ended), j + Recent > Len(ended)
        PROVE  \E i \in 1..Recent : ended[j] = Back(i)
    <3>1. Len(ended) + 1 - j \in 1..Recent /\ Len(ended) + 1 - (Len(ended) + 1 - j) = j
      BY <1>1, <2>1
    <3> QED BY <3>1 DEF Back
  <2>2. ASSUME NEW i \in 1..Recent
        PROVE  \E j \in 1..Len(ended) : j + Recent > Len(ended) /\ Back(i) = ended[j]
    <3>1. Len(ended) + 1 - i \in 1..Len(ended) /\ (Len(ended) + 1 - i) + Recent > Len(ended)
      BY <1>1
    <3> QED BY <3>1 DEF Back
  <2> QED BY <2>1, <2>2 DEF Health!LastEnded
<1>3. \A i \in 1..Recent : i <= Len(history) /\ history[i] = Back(i)
  <2>1. \A i \in 1..Recent : probe[Back(i)].alone
    BY <1>2
  <2> QED BY <1>1, <2>1 DEF HealthInv, Aligned
<1>4. Recent <= Len(history)
  BY <1>1, <1>3
<1> DEFINE healthy == {i \in 1..Recent : probe[history[i]].result = "healthy"}
<1>5. Health!Status = IF Cardinality(healthy) = Recent THEN "healthy"
                      ELSE IF healthy = {} THEN "down" ELSE "degraded"
  <2>1. (IF Len(history) < Recent THEN Len(history) ELSE Recent) = Recent /\ Recent # 0
    BY <1>1, <1>4
  <2> DEFINE n == IF Len(history) < Recent THEN Len(history) ELSE Recent
             well == {i \in 1..n : probe[history[i]].result = "healthy"}
  <2>2. Health!Status = IF n = 0 THEN "unknown" ELSE IF Cardinality(well) = n THEN "healthy"
                        ELSE IF well = {} THEN "down" ELSE "degraded"
    BY SameCount DEF Health!Status
  <2>3. n = Recent /\ well = healthy
    BY <2>1
  <2> HIDE DEF n, well
  <2> QED BY <2>1, <2>2, <2>3
<1>6. healthy = {i \in 1..Recent : probe[Back(i)].result = "healthy"}
  BY <1>3
<1>7. IsFiniteSet(1..Recent) /\ Cardinality(1..Recent) = Recent
  BY <1>1, FS_Interval
<1>8. Cardinality(healthy) = Recent <=> healthy = 1..Recent
  BY <1>7, FS_Subset
<1>9. Cardinality({}) = 0
  BY FS_EmptySet
<1> HIDE DEF healthy
<1>10. healthy = 1..Recent <=> \A p \in Health!LastEnded : probe[p].result = "healthy"
  BY <1>2, <1>6
<1>11. healthy = {} <=> \A p \in Health!LastEnded : probe[p].result # "healthy"
  BY <1>2, <1>6
<1>12. 1 \in 1..Recent
  BY <1>1
<1> QED BY <1>5, <1>8, <1>10, <1>11, <1>12

LEMMA HealthTypes == HealthInv => Health!TypeOK
  BY DEF HealthInv, HealthTyped, Histories, Invocation, Health!TypeOK

--------------------------------------------------------------------------------
(* Throttles. *)

\* The ticks from a on, and those of them before b.
From(a) == {t \in Throttle!Times : a <= t}
Span(a, b) == {t \in Throttle!Times : a <= t /\ t < b}

Counts == [Throttle!Times -> Nat]

\* A stretch that begins at t and ends in the window that began at s holds no
\* more than the limit of that window and, before s, of the one before.
WindowFrom(s, full) ==
    /\ bucket.resetAt = s + RateWindow
    /\ SumOf(accepted, From(s)) <= full
    /\ \A t \in Throttle!Times : t < s /\ s <= t + RateWindow => SumOf(accepted, Span(t, s)) <= Limit

BucketInv ==
    /\ accepted \in Counts
    /\ \A t \in Throttle!Times : clock < t => accepted[t] = 0
    /\ bucket = None => \A t \in Throttle!Times : accepted[t] = 0
    /\ bucket # None =>
          /\ bucket \in [count : 1..Limit, resetAt : Nat]
          /\ \A t \in Throttle!Times : bucket.resetAt < t => accepted[t] = 0
          /\ \E s \in 0..clock : WindowFrom(s, bucket.count)
    /\ \A t \in Throttle!Times : SumOf(accepted, Span(t, t + RateWindow + 1)) <= 2 * Limit

\* The tracker has counted nothing but the payloads since firstSeen.
StrikesInv ==
    /\ malformed \in Counts
    /\ \A t \in Throttle!Times : clock < t => malformed[t] = 0
    /\ strikes # None =>
          /\ strikes \in [count : Nat, firstSeen : 0..clock]
          /\ strikes.count <= SumOf(malformed, Span(strikes.firstSeen, clock + 1))

ThrottleInv == clock \in 0..MaxClock /\ BucketInv /\ StrikesInv /\ Throttle!BlockedForRecent

\* Stretches of ticks are finite, and Between is the sum over one of them.
LEMMA SpanFinite ==
    ASSUME NEW a, NEW b
    PROVE  IsFiniteSet(Span(a, b)) /\ IsFiniteSet(From(a)) /\ IsFiniteSet(Throttle!Times)
<1>1. 0 \in Int /\ MaxClock \in Int
  BY ThrottleAssumption
<1>2. IsFiniteSet(0..MaxClock)
  BY <1>1, FS_Interval
<1>3. Span(a, b) \subseteq 0..MaxClock /\ From(a) \subseteq 0..MaxClock
  BY DEF Span, From, Throttle!Times
<1> QED BY <1>2, <1>3, FS_Subset DEF Throttle!Times

LEMMA BetweenSpan ==
    ASSUME NEW f, NEW a \in Nat, NEW b \in Nat
    PROVE  Throttle!Between(f, a, b) = SumOf(f, Span(a, b + 1))
<1>1. {t \in Throttle!Times : a <= t /\ t <= b} = Span(a, b + 1)
  BY ThrottleAssumption DEF Span, Throttle!Times
<1> QED BY <1>1, SameSum DEF Throttle!Between

\* A stretch as long as the window touches two windows at most.
LEMMA TwoWindows ==
    ASSUME NEW f \in Counts, NEW s \in Nat, NEW t \in Throttle!Times, SumOf(f, From(s)) <= Limit,
           t < s => SumOf(f, Span(t, s)) <= Limit
    PROVE  SumOf(f, Span(t, t + RateWindow + 1)) <= 2 * Limit
<1> DEFINE S == Span(t, t + RateWindow + 1)
<1>0. \A u \in Throttle!Times : u \in Nat
  BY ThrottleAssumption DEF Throttle!Times
<1>1. IsFiniteSet(S) /\ IsFiniteSet(From(s)) /\ IsFiniteSet(Span(t, s))
  BY SpanFinite
<1>2. \A u \in Throttle!Times : f[u] \in Nat
  BY DEF Counts
<1>3. Limit \in Nat
  BY ThrottleAssumption
<1>4. CASE s <= t
  <2>1. S \subseteq From(s) /\ From(s) \subseteq Throttle!Times
    BY <1>0, <1>4 DEF From, Span
  <2>2. SumOf(f, S) <= SumOf(f, From(s)) /\ SumOf(f, S) \in Nat /\ SumOf(f, From(s)) \in Nat
    BY <1>1, <1>2, <2>1, SumGrows
  <2> QED BY <1>3, <2>2
<1>5. CASE t < s
  <2> DEFINE U == Span(t, s) \cup From(s)
  <2>1. Span(t, s) \cap From(s) = {} /\ S \subseteq U /\ U \subseteq Throttle!Times
    BY <1>0, <1>5 DEF From, Span
  <2>2. \A u \in U : f[u] \in Nat
    BY <1>2, <2>1
  <2>3. IsFiniteSet(U)
    BY <1>1, FS_Union
  <2> HIDE DEF S
  <2>4. PICK a \in Nat, b \in Nat :
           a = SumOf(f, Span(t, s)) /\ b = SumOf(f, From(s)) /\ SumOf(f, U) = a + b
    BY <1>1, <2>1, <2>2, SumJoins
  <2> HIDE DEF U
  <2>5. SumOf(f, S) <= SumOf(f, U) /\ SumOf(f, S) \in Nat /\ SumOf(f, U) \in Nat
    BY <2>1, <2>2, <2>3, SumGrows
  <2>6. a <= Limit /\ b <= Limit
    BY <1>5, <2>4
  <2>7. SumOf(f, S) <= 2 * Limit
    BY <1>3, <2>4, <2>5, <2>6
  <2> QED BY <2>7 DEF S
<1> QED BY <1>0, <1>4, <1>5

LEMMA InitThrottle == Throttle!Init => ThrottleInv
<1> SUFFICES ASSUME Throttle!Init PROVE ThrottleInv
  OBVIOUS
<1>1. /\ clock = 0 /\ bucket = None /\ strikes = None /\ blocked = FALSE
      /\ accepted = [t \in Throttle!Times |-> 0] /\ malformed = [t \in Throttle!Times |-> 0]
  BY DEF Throttle!Init
<1>2. accepted \in Counts /\ malformed \in Counts /\
       \A t \in Throttle!Times : accepted[t] = 0 /\ malformed[t] = 0
  BY <1>1 DEF Counts
<1>3. clock \in 0..MaxClock
  BY <1>1, ThrottleAssumption
<1>4. ASSUME NEW t \in Throttle!Times PROVE SumOf(accepted, Span(t, t + RateWindow + 1)) <= 2 * Limit
  <2>1. \A u \in Span(t, t + RateWindow + 1) : accepted[u] = 0
    BY <1>2 DEF Span
  <2>2. SumOf(accepted, Span(t, t + RateWindow + 1)) = 0
    BY <2>1, SumOfZeros
  <2>3. 0 <= 2 * Limit
    BY ThrottleAssumption
  <2> QED BY <2>2, <2>3
<1> QED BY <1>1, <1>2, <1>3, <1>4 DEF ThrottleInv, BucketInv, StrikesInv, Throttle!BlockedForRecent

\* One more in a tick, of the requests or of the payloads.
OneMoreIn(f, g, c) ==
    /\ g \in Counts
    /\ \A t \in Throttle!Times : t # c => g[t] = f[t]
    /\ \A S \in SUBSET Throttle!Times : c \notin S => SumOf(g, S) = SumOf(f, S)
    /\ \A S \in SUBSET Throttle!Times : c \in S => Changes(SumOf(f, S), SumOf(g, S), 0, 1)

LEMMA OneMore ==
    ASSUME NEW f \in Counts, NEW c \in 0..MaxClock, NEW g, g = [f EXCEPT ![c] = @ + 1]
    PROVE  OneMoreIn(f, g, c)
<1>1. c \in Throttle!Times /\ f[c] \in Nat /\ f \in [Throttle!Times -> Nat]
  BY DEF Throttle!Times, Counts
<1>2. g \in Counts /\ g[c] = f[c] + 1 /\ \A t \in Throttle!Times : t # c => g[t] = f[t]
  BY <1>1 DEF Counts
<1>3. ASSUME NEW S \in SUBSET Throttle!Times, c \notin S PROVE SumOf(g, S) = SumOf(f, S)
  BY <1>2, <1>3, SumSame
<1>4. ASSUME NEW S \in SUBSET Throttle!Times, c \in S PROVE Changes(SumOf(f, S), SumOf(g, S), 0, 1)
  <2>1. IsFiniteSet(S)
    BY SpanFinite, FS_Subset
  <2>2. \A y \in S : f[y] \in Nat
    BY <1>1
  <2>3. \A y \in S \ {c} : g[y] = f[y]
    BY <1>2
  <2>4. g[c] \in Nat
    BY <1>1, <1>2 DEF Counts
  <2>5. Changes(SumOf(f, S), SumOf(g, S), f[c], g[c])
    BY ONLY <1>4, <2>1, <2>2, <2>3, <2>4, SumChanges, Zenon
  <2> QED BY <1>1, <1>2, <2>5 DEF Changes
<1> QED BY <1>2, <1>3, <1>4 DEF OneMoreIn

\* A request of a new window, or one more of the window it came in.
LEMMA LetsThrough == ASSUME ThrottleInv, Throttle!LetThrough PROVE BucketInv'
<1> DEFINE f == accepted
           g == accepted'
<1>1. /\ clock \in 0..MaxClock /\ clock \in Nat /\ clock' = clock /\ f \in Counts
      /\ RateWindow \in Nat /\ Limit \in Nat /\ 1 <= Limit
      /\ \A t \in Throttle!Times : t \in Nat
      /\ None \notin [count : Nat, resetAt : Nat]
  BY ThrottleAssumption, NoneAssumption
     DEF ThrottleInv, BucketInv, Throttle!LetThrough, Throttle!Times
<1>2. g = [f EXCEPT ![clock] = @ + 1]
  BY DEF Throttle!LetThrough
<1>3. \A t \in Throttle!Times : clock < t => f[t] = 0
  BY DEF ThrottleInv, BucketInv
<1>4. bucket # None =>
         /\ bucket \in [count : 1..Limit, resetAt : Nat]
         /\ \A t \in Throttle!Times : bucket.resetAt < t => f[t] = 0
         /\ \E s \in 0..clock : WindowFrom(s, bucket.count)
  BY DEF ThrottleInv, BucketInv
<1>5. bucket = None => \A t \in Throttle!Times : f[t] = 0
  BY DEF ThrottleInv, BucketInv
<1>6. \A t \in Throttle!Times : SumOf(f, Span(t, t + RateWindow + 1)) <= 2 * Limit
  BY DEF ThrottleInv, BucketInv
<1> HIDE DEF f, g
<1>7. /\ g \in Counts
      /\ \A t \in Throttle!Times : t # clock => g[t] = f[t]
      /\ \A S \in SUBSET Throttle!Times : clock \notin S => SumOf(g, S) = SumOf(f, S)
      /\ \A S \in SUBSET Throttle!Times : clock \in S => Changes(SumOf(f, S), SumOf(g, S), 0, 1)
  <2>1. OneMoreIn(f, g, clock)
    BY <1>1, <1>2, OneMore
  <2> QED BY <2>1 DEF OneMoreIn
<1>8. \A a, b : From(a) \subseteq Throttle!Times /\ Span(a, b) \subseteq Throttle!Times
  BY DEF From, Span
<1>9. \E s \in 0..clock :
         /\ bucket' \in [count : 1..Limit, resetAt : Nat] /\ bucket'.resetAt = s + RateWindow
         /\ SumOf(g, From(s)) <= bucket'.count
         /\ \A t \in Throttle!Times : t < s /\ s <= t + RateWindow => SumOf(g, Span(t, s)) <= Limit
         /\ \A t \in Throttle!Times : bucket'.resetAt < t => g[t] = 0
  <2>1. CASE Throttle!Fresh
    <3>1. bucket' = [count |-> 1, resetAt |-> clock + RateWindow]
      BY <2>1 DEF Throttle!LetThrough
    <3>2. /\ bucket' \in [count : 1..Limit, resetAt : Nat]
          /\ bucket'.count = 1 /\ bucket'.resetAt = clock + RateWindow
      BY <1>1, <3>1
    <3>3. SumOf(g, From(clock)) = 1
      <4>1. \A t \in From(clock) : f[t] = 0
        BY <1>1, <1>3, <1>4, <1>5, <2>1 DEF From, Throttle!Fresh
      <4>2. SumOf(f, From(clock)) = 0
        BY <4>1, SumOfZeros
      <4>3. clock \in From(clock)
        BY <1>1 DEF From, Throttle!Times
      <4>4. Changes(SumOf(f, From(clock)), SumOf(g, From(clock)), 0, 1)
        BY <1>7, <1>8, <4>3
      <4> QED BY <4>2, <4>4 DEF Changes
    <3>4. ASSUME NEW t \in Throttle!Times, t < clock, clock <= t + RateWindow
          PROVE  SumOf(g, Span(t, clock)) <= Limit
      <4>1. clock \notin Span(t, clock)
        BY <1>1 DEF Span
      <4>2. SumOf(g, Span(t, clock)) = SumOf(f, Span(t, clock))
        BY <1>7, <1>8, <4>1
      <4>3. CASE bucket = None
        <5>1. SumOf(f, Span(t, clock)) = 0
          BY <1>5, <1>8, <4>3, SumOfZeros
        <5> QED BY <1>1, <4>2, <5>1
      <4>4. CASE bucket # None
        <5>1. PICK s \in 0..clock : WindowFrom(s, bucket.count)
          BY <1>4, <4>4
        <5>2. bucket.count \in 1..Limit /\ bucket.resetAt = s + RateWindow /\ SumOf(f, From(s)) <= bucket.count
          BY <1>4, <4>4, <5>1 DEF WindowFrom, f
        <5>3. s < t
          BY <1>1, <2>1, <3>4, <4>4, <5>2 DEF Throttle!Fresh
        <5>4. Span(t, clock) \subseteq From(s)
          BY <1>1, <5>3 DEF Span, From
        <5>5. \A u \in From(s) : f[u] \in Nat
          BY <1>1 DEF Counts, From
        <5>6. /\ SumOf(f, Span(t, clock)) <= SumOf(f, From(s))
              /\ SumOf(f, Span(t, clock)) \in Nat /\ SumOf(f, From(s)) \in Nat
          BY <5>4, <5>5, SpanFinite, SumGrows
        <5> QED BY <1>1, <4>2, <5>2, <5>6
      <4> QED BY <4>3, <4>4
    <3>5. ASSUME NEW t \in Throttle!Times, bucket'.resetAt < t PROVE g[t] = 0
      BY <1>1, <1>3, <1>7, <3>2, <3>5
    <3>6. clock \in 0..clock /\ SumOf(g, From(clock)) <= bucket'.count
      BY <1>1, <3>2, <3>3
    <3> QED BY <3>2, <3>4, <3>5, <3>6
  <2>2. CASE ~Throttle!Fresh
    <3>1. bucket # None /\ clock <= bucket.resetAt /\ bucket.count < Limit
      BY <1>1, <1>4, <2>2 DEF Throttle!LetThrough, Throttle!Full, Throttle!Fresh
    <3>2. bucket' = [bucket EXCEPT !.count = @ + 1]
      BY <2>2 DEF Throttle!LetThrough
    <3>3. bucket \in [count : 1..Limit, resetAt : Nat]
      BY <1>4, <3>1
    <3>4. /\ bucket' \in [count : 1..Limit, resetAt : Nat]
          /\ bucket'.count = bucket.count + 1 /\ bucket'.resetAt = bucket.resetAt
      BY <1>1, <3>1, <3>2, <3>3
    <3>5. PICK s \in 0..clock : WindowFrom(s, bucket.count)
      BY <1>4, <3>1
    <3>6. /\ bucket.resetAt = s + RateWindow /\ SumOf(f, From(s)) <= bucket.count
          /\ \A t \in Throttle!Times : t < s /\ s <= t + RateWindow => SumOf(f, Span(t, s)) <= Limit
      BY <3>5 DEF WindowFrom, f
    <3>7. SumOf(g, From(s)) <= bucket'.count
      <4>1. clock \in From(s)
        BY <1>1 DEF From, Throttle!Times
      <4>2. Changes(SumOf(f, From(s)), SumOf(g, From(s)), 0, 1)
        BY <1>7, <1>8, <4>1
      <4> QED BY <3>3, <3>4, <3>6, <4>2 DEF Changes
    <3>8. ASSUME NEW t \in Throttle!Times, t < s, s <= t + RateWindow PROVE SumOf(g, Span(t, s)) <= Limit
      <4>1. clock \notin Span(t, s)
        BY <1>1 DEF Span
      <4>2. SumOf(g, Span(t, s)) = SumOf(f, Span(t, s))
        BY <1>7, <1>8, <4>1
      <4> QED BY <3>6, <3>8, <4>2
    <3>9. ASSUME NEW t \in Throttle!Times, bucket'.resetAt < t PROVE g[t] = 0
      BY <1>1, <1>4, <1>7, <3>1, <3>3, <3>4, <3>9
    <3> QED BY <3>4, <3>6, <3>7, <3>8, <3>9
  <2> QED BY <2>1, <2>2
<1>10. PICK s \in 0..clock :
         /\ bucket' \in [count : 1..Limit, resetAt : Nat] /\ bucket'.resetAt = s + RateWindow
         /\ SumOf(g, From(s)) <= bucket'.count
         /\ \A t \in Throttle!Times : t < s /\ s <= t + RateWindow => SumOf(g, Span(t, s)) <= Limit
         /\ \A t \in Throttle!Times : bucket'.resetAt < t => g[t] = 0
  BY <1>9
<1>11. ASSUME NEW t \in Throttle!Times PROVE SumOf(g, Span(t, t + RateWindow + 1)) <= 2 * Limit
  <2>1. CASE t + RateWindow < clock
    <3>1. clock \notin Span(t, t + RateWindow + 1)
      BY <1>1, <2>1 DEF Span
    <3> QED BY <1>6, <1>7, <1>8, <3>1
  <2>2. CASE clock <= t + RateWindow
    <3>1. s \in Nat /\ s <= t + RateWindow
      BY <1>1, <2>2
    <3>2. \A u \in From(s) : g[u] \in Nat
      BY <1>7 DEF Counts, From
    <3>3. SumOf(g, From(s)) \in Nat
      BY <3>2, SpanFinite, UnitsFinite
    <3>4. bucket'.count \in 1..Limit
      BY <1>10
    <3>5. SumOf(g, From(s)) <= Limit
      BY <1>1, <1>10, <3>3, <3>4
    <3> QED BY <1>7, <1>10, <3>1, <3>5, TwoWindows
  <2> QED BY <1>1, <2>1, <2>2
<1>12. bucket' # None
  <2>1. bucket' \in [count : Nat, resetAt : Nat]
    BY <1>1, <1>10
  <2> QED BY <1>1, <2>1
<1>13. \E r \in 0..clock : WindowFrom(r, bucket.count)'
  BY <1>10 DEF WindowFrom, g
<1>14. \A t \in Throttle!Times : clock < t => g[t] = 0
  BY <1>1, <1>3, <1>7
<1> QED BY <1>1, <1>7, <1>10, <1>11, <1>12, <1>13, <1>14 DEF BucketInv, g

\* Max of ticks up to the last one among them.
LEMMA MaxIs ==
    ASSUME NEW S, NEW m \in S, m \in Nat, \A x \in S : x \in Nat /\ x <= m
    PROVE  Throttle!Max(S) = m
<1>1. \A x \in S : m >= x
  OBVIOUS
<1>2. \A y \in S : (\A x \in S : y >= x) => y = m
  OBVIOUS
<1> QED BY <1>1, <1>2 DEF Throttle!Max

\* A payload starts the count anew or is counted in the window of the first.
LEMMA MalformedCounts ==
    ASSUME ThrottleInv, Throttle!Malformed
    PROVE  StrikesInv' /\ Throttle!BlockedForRecent'
<1> DEFINE f == malformed
           g == malformed'
<1>1. /\ clock \in 0..MaxClock /\ clock \in Nat /\ clock' = clock /\ f \in Counts
      /\ BlockWindow \in Nat /\ Threshold \in Nat
      /\ \A t \in Throttle!Times : t \in Nat
      /\ None \notin [count : Nat, firstSeen : Nat]
  BY ThrottleAssumption, NoneAssumption
     DEF ThrottleInv, StrikesInv, Throttle!Malformed, Throttle!Times
<1>2. g = [f EXCEPT ![clock] = @ + 1]
  BY DEF Throttle!Malformed
<1>3. \A t \in Throttle!Times : clock < t => f[t] = 0
  BY DEF ThrottleInv, StrikesInv
<1>4. strikes # None => /\ strikes \in [count : Nat, firstSeen : 0..clock]
                        /\ strikes.count <= SumOf(f, Span(strikes.firstSeen, clock + 1))
  BY DEF ThrottleInv, StrikesInv
<1> HIDE DEF f, g
<1>5. OneMoreIn(f, g, clock)
  BY <1>1, <1>2, OneMore
<1>6. /\ g \in Counts /\ \A t \in Throttle!Times : clock < t => g[t] = 0
      /\ \A S \in SUBSET Throttle!Times : clock \in S => Changes(SumOf(f, S), SumOf(g, S), 0, 1)
  BY <1>1, <1>3, <1>5 DEF OneMoreIn
<1>7. ASSUME NEW a \in 0..clock
      PROVE  Changes(SumOf(f, Span(a, clock + 1)), SumOf(g, Span(a, clock + 1)), 0, 1)
  <2>1. Span(a, clock + 1) \subseteq Throttle!Times
    BY DEF Span
  <2>2. clock \in Span(a, clock + 1)
    BY <1>1 DEF Span, Throttle!Times
  <2> QED BY <1>6, <2>1, <2>2
<1>8. /\ strikes' \in [count : Nat, firstSeen : 0..clock]
      /\ strikes'.count <= SumOf(g, Span(strikes'.firstSeen, clock + 1))
      /\ blocked' => Threshold <= strikes'.count /\ clock <= strikes'.firstSeen + BlockWindow
  <2>1. CASE Throttle!Pruned = None
    <3>1. strikes' = [count |-> 1, firstSeen |-> clock] /\ blocked' = FALSE
      BY <2>1 DEF Throttle!Malformed
    <3>2. strikes' \in [count : Nat, firstSeen : 0..clock] /\ strikes'.count = 1 /\ strikes'.firstSeen = clock
      BY <1>1, <3>1
    <3>3. Changes(SumOf(f, Span(clock, clock + 1)), SumOf(g, Span(clock, clock + 1)), 0, 1)
      BY <1>1, <1>7
    <3>4. 1 <= SumOf(g, Span(clock, clock + 1))
      BY <3>3 DEF Changes
    <3> QED BY <3>1, <3>2, <3>4
  <2>2. CASE Throttle!Pruned # None
    <3>1. /\ strikes # None /\ Throttle!Pruned = strikes
          /\ ~(strikes.firstSeen + BlockWindow < clock)
      BY <2>2 DEF Throttle!Pruned
    <3>2. strikes' = [strikes EXCEPT !.count = @ + 1] /\ (blocked' => strikes'.count >= Threshold)
      BY <2>2, <3>1 DEF Throttle!Malformed
    <3>3. strikes \in [count : Nat, firstSeen : 0..clock]
      BY <1>4, <3>1
    <3>4. /\ strikes' \in [count : Nat, firstSeen : 0..clock]
          /\ strikes'.count = strikes.count + 1 /\ strikes'.firstSeen = strikes.firstSeen
      BY <3>2, <3>3
    <3> DEFINE a == strikes.firstSeen
               n == strikes.count
    <3>5. a \in 0..clock /\ n \in Nat
      BY <3>3
    <3>6. n <= SumOf(f, Span(a, clock + 1))
      BY <1>4, <3>1
    <3> HIDE DEF a, n
    <3>7. Changes(SumOf(f, Span(a, clock + 1)), SumOf(g, Span(a, clock + 1)), 0, 1)
      BY <1>7, <3>5
    <3>8. n + 1 <= SumOf(g, Span(a, clock + 1))
      BY <3>5, <3>6, <3>7 DEF Changes
    <3>9. clock <= strikes'.firstSeen + BlockWindow
      BY <1>1, <3>1, <3>3, <3>4
    <3>10. blocked' => Threshold <= strikes'.count
      BY <1>1, <3>2, <3>4
    <3> QED BY <3>4, <3>8, <3>9, <3>10 DEF a, n
  <2> QED BY <2>1, <2>2
<1>9. StrikesInv'
  BY <1>1, <1>6, <1>8 DEF StrikesInv, g
<1>10. ASSUME blocked' PROVE Throttle!BlockedForRecent'
  <2> DEFINE S == {t \in Throttle!Times : g[t] > 0}
             low == IF clock > BlockWindow THEN clock - BlockWindow ELSE 0
             a == strikes'.firstSeen
  <2>1. clock \in S
    <3>1. clock \in Throttle!Times
      BY <1>1 DEF Throttle!Times
    <3>2. f[clock] \in Nat /\ g[clock] = f[clock] + 1
      BY <1>1, <1>2, <3>1 DEF Counts
    <3> QED BY <3>1, <3>2
  <2>2. \A t \in S : t \in Nat /\ t <= clock
    BY <1>1, <1>6
  <2> HIDE DEF S
  <2>3. Throttle!Max(S) = clock
    BY <1>1, <2>1, <2>2, MaxIs
  <2>4. a \in 0..clock /\ clock <= a + BlockWindow /\ low \in Nat /\ low <= a
    BY <1>1, <1>8, <1>10
  <2> HIDE DEF low, a
  <2>5. Span(a, clock + 1) \subseteq Span(low, clock + 1) /\ Span(low, clock + 1) \subseteq Throttle!Times
    BY <1>1, <2>4 DEF Span
  <2>6. \A t \in Span(low, clock + 1) : g[t] \in Nat
    BY <1>6, <2>5 DEF Counts
  <2>7. /\ SumOf(g, Span(a, clock + 1)) <= SumOf(g, Span(low, clock + 1))
        /\ SumOf(g, Span(a, clock + 1)) \in Nat /\ SumOf(g, Span(low, clock + 1)) \in Nat
    BY <2>5, <2>6, SpanFinite, SumGrows
  <2>8. Threshold <= strikes'.count /\ strikes'.count \in Nat
        /\ strikes'.count <= SumOf(g, Span(a, clock + 1))
    BY <1>8, <1>10 DEF a
  <2>9. Threshold <= SumOf(g, Span(low, clock + 1))
    BY <1>1, <2>7, <2>8
  <2>10. Throttle!Between(g, low, clock) >= Threshold
    BY <1>1, <2>4, <2>7, <2>9, BetweenSpan
  <2>11. {t \in Throttle!Times : malformed'[t] > 0} = S
    BY DEF S, g
  <2>12. Throttle!Between(malformed', IF clock > BlockWindow THEN clock - BlockWindow ELSE 0,
                                clock) >= Threshold
    BY <2>10 DEF low, g
  <2> QED BY <2>3, <2>11, <2>12 DEF Throttle!BlockedForRecent, Throttle!Times
<1>11. CASE ~blocked'
  BY <1>9, <1>11 DEF Throttle!BlockedForRecent
<1> QED BY <1>9, <1>10, <1>11

\* Time passes: nothing came in the new tick yet.
LEMMA Ticks == ASSUME ThrottleInv, Throttle!Tick PROVE ThrottleInv'
<1>1. /\ clock \in Nat /\ clock' = clock + 1 /\ clock' \in 0..MaxClock
      /\ UNCHANGED <<bucket, strikes, accepted, malformed, blocked>>
      /\ \A t \in Throttle!Times : t \in Nat
  BY ThrottleAssumption DEF ThrottleInv, Throttle!Tick, Throttle!Times
<1>2. BucketInv'
  <2>1. \A s \in 0..clock : s \in 0..clock'
    BY <1>1
  <2>2. \A s : WindowFrom(s, bucket.count)' = WindowFrom(s, bucket.count)
    BY <1>1 DEF WindowFrom
  <2>3. \A t \in Throttle!Times : clock' < t => accepted[t] = 0
    BY <1>1 DEF ThrottleInv, BucketInv
  <2> QED BY <1>1, <2>1, <2>2, <2>3 DEF ThrottleInv, BucketInv
<1>3. StrikesInv'
  <2>1. \A t \in Throttle!Times : clock' < t => malformed[t] = 0
    BY <1>1 DEF ThrottleInv, StrikesInv
  <2>2. ASSUME strikes # None
        PROVE  /\ strikes \in [count : Nat, firstSeen : 0..clock']
               /\ strikes.count <= SumOf(malformed, Span(strikes.firstSeen, clock' + 1))
    <3> DEFINE a == strikes.firstSeen
    <3>1. strikes \in [count : Nat, firstSeen : 0..clock] /\
           strikes.count <= SumOf(malformed, Span(a, clock + 1))
      BY <2>2 DEF ThrottleInv, StrikesInv
    <3>2. strikes \in [count : Nat, firstSeen : 0..clock'] /\ a \in Nat /\ strikes.count \in Nat
      BY <1>1, <3>1
    <3> HIDE DEF a
    <3>3. Span(a, clock + 1) \subseteq Span(a, clock' + 1)
      BY <1>1, <3>2 DEF Span
    <3>4. \A t \in Span(a, clock' + 1) : malformed[t] \in Nat
      BY DEF ThrottleInv, StrikesInv, Counts, Span
    <3>5. /\ SumOf(malformed, Span(a, clock + 1)) <= SumOf(malformed, Span(a, clock' + 1))
          /\ SumOf(malformed, Span(a, clock + 1)) \in Nat /\ SumOf(malformed, Span(a, clock' + 1)) \in Nat
      BY <3>3, <3>4, SpanFinite, SumGrows
    <3>6. strikes.count <= SumOf(malformed, Span(a, clock' + 1))
      BY <3>1, <3>2, <3>5
    <3> QED BY <3>2, <3>6 DEF a
  <2> QED BY <1>1, <2>1, <2>2 DEF ThrottleInv, StrikesInv
<1>4. Throttle!BlockedForRecent'
  BY <1>1 DEF ThrottleInv, Throttle!BlockedForRecent
<1> QED BY <1>1, <1>2, <1>3, <1>4 DEF ThrottleInv

LEMMA NextThrottle == ASSUME ThrottleInv, [Throttle!Next]_throttleVars PROVE ThrottleInv'
<1>1. CASE Throttle!Tick
  BY <1>1, Ticks
<1>2. CASE Throttle!LetThrough
  <2>1. UNCHANGED <<clock, strikes, malformed, blocked>>
    BY <1>2 DEF Throttle!LetThrough
  <2>2. StrikesInv' /\ Throttle!BlockedForRecent' /\ clock' \in 0..MaxClock
    BY <2>1 DEF ThrottleInv, StrikesInv, Throttle!BlockedForRecent
  <2> QED BY <1>2, <2>2, LetsThrough DEF ThrottleInv
<1>3. CASE Throttle!Malformed
  <2>1. UNCHANGED <<clock, bucket, accepted>>
    BY <1>3 DEF Throttle!Malformed
  <2>2. \A s : WindowFrom(s, bucket.count)' = WindowFrom(s, bucket.count)
    BY <2>1 DEF WindowFrom
  <2>3. BucketInv' /\ clock' \in 0..MaxClock
    BY <2>1, <2>2 DEF ThrottleInv, BucketInv
  <2> QED BY <1>3, <2>3, MalformedCounts DEF ThrottleInv
<1>4. CASE UNCHANGED throttleVars
  <2>1. \A s : WindowFrom(s, bucket.count)' = WindowFrom(s, bucket.count)
    BY <1>4 DEF WindowFrom, throttleVars
  <2> QED BY <1>4, <2>1 DEF throttleVars, ThrottleInv, BucketInv, StrikesInv, Throttle!BlockedForRecent
<1> QED BY <1>1, <1>2, <1>3, <1>4 DEF Throttle!Next

\* Between is the sum the invariant speaks of.
LEMMA ThrottleTwice == ThrottleInv => Throttle!TwiceTheLimitAtMost
<1> SUFFICES ASSUME ThrottleInv, NEW t \in Throttle!Times
             PROVE  Throttle!Between(accepted, t, t + RateWindow) <= 2 * Limit
  BY DEF Throttle!TwiceTheLimitAtMost
<1>1. t \in Nat /\ t + RateWindow \in Nat
  BY ThrottleAssumption DEF Throttle!Times
<1>2. SumOf(accepted, Span(t, t + RateWindow + 1)) <= 2 * Limit
  BY DEF ThrottleInv, BucketInv
<1> QED BY <1>1, <1>2, BetweenSpan

LEMMA ThrottleTypes == ThrottleInv => Throttle!TypeOK
  BY ThrottleAssumption DEF ThrottleInv, BucketInv, StrikesInv, Throttle!TypeOK, Throttle!Times

--------------------------------------------------------------------------------
(* Statistics: a row of a day. *)

Quote == Nat \cup {None}
FeeRow == [count : Nat, total : Nat, min : Quote, max : Quote]
EndpointRow == [total : Nat, success : Nat, failed : Nat]
DayRow == [total : Nat, success : Nat, failed : Nat, clientErrors : Nat, fees : FeeRow,
           token : [Tokens -> Nat], endpoint : [Endpoints -> EndpointRow], errors : Nat]
Entry == [endpoint : Endpoints, token : Tokens, success : BOOLEAN, clientError : BOOLEAN, fee : Quote]

\* The fees lie between their extremes, and there are none of either.
FeesAgree(f) ==
    /\ f \in FeeRow
    /\ f.count = 0 => f.total = 0 /\ f.min = None /\ f.max = None
    /\ f.count > 0 => /\ f.min \in Nat /\ f.max \in Nat
                      /\ f.min * f.count <= f.total /\ f.total <= f.max * f.count

EndpointTotals(row) == [e \in Endpoints |-> row.endpoint[e].total]

\* What BreakdownsAddUp says of a row, and its types.
RowAgrees(row) ==
    /\ row \in DayRow
    /\ FeesAgree(row.fees) /\ row.fees.count <= row.total
    /\ row.success + row.failed = row.total
    /\ SumOf(EndpointTotals(row), Endpoints) = row.total
    /\ \A e \in Endpoints \ {"verify"} :
          row.endpoint[e].success + row.endpoint[e].failed = row.endpoint[e].total
    /\ SumOf(row.token, Tokens) = row.total

\* The extremes of one more quote.
LEMMA LeastIs ==
    ASSUME NEW F, NEW m \in F, m \in Nat, \A x \in F : x = None \/ (x \in Nat /\ m <= x)
    PROVE  Stats!Least(F) = m
<1> DEFINE G == F \ {None}
<1>1. m \in G /\ \A x \in G : x \in Nat /\ m <= x
  BY NoneAssumption
<1> HIDE DEF G
<1>2. \A y \in G : (\A x \in G : y <= x) => y = m
  BY <1>1
<1>3. Stats!Min(G) = m
  BY <1>1, <1>2 DEF Stats!Min
<1> QED BY <1>1, <1>3 DEF Stats!Least, G

LEMMA GreatestIs ==
    ASSUME NEW F, NEW m \in F, m \in Nat, \A x \in F : x = None \/ (x \in Nat /\ x <= m)
    PROVE  Stats!Greatest(F) = m
<1> DEFINE G == F \ {None}
<1>1. m \in G /\ \A x \in G : x \in Nat /\ m >= x
  BY NoneAssumption
<1> HIDE DEF G
<1>2. \A y \in G : (\A x \in G : y >= x) => y = m
  BY <1>1
<1>3. Stats!Max(G) = m
  BY <1>1, <1>2 DEF Stats!Max
<1> QED BY <1>1, <1>3 DEF Stats!Greatest, G

LEMMA TwoQuotes ==
    ASSUME NEW a \in Quote, NEW v \in Nat
    PROVE  /\ Stats!Least({a, v}) = IF a \in Nat /\ a <= v THEN a ELSE v
           /\ Stats!Greatest({a, v}) = IF a \in Nat /\ v <= a THEN a ELSE v
<1>1. CASE a = None
  BY <1>1, NoneAssumption, LeastIs, GreatestIs
<1>2. CASE a \in Nat /\ a <= v
  <2>1. Stats!Least({a, v}) = a
    BY <1>2, LeastIs
  <2>2. Stats!Greatest({a, v}) = v
    BY <1>2, GreatestIs
  <2> QED BY <1>2, <2>1, <2>2
<1>3. CASE a \in Nat /\ v < a
  <2>1. Stats!Least({a, v}) = v
    BY <1>3, LeastIs
  <2>2. Stats!Greatest({a, v}) = a
    BY <1>3, GreatestIs
  <2> QED BY <1>3, <2>1, <2>2
<1> QED BY <1>1, <1>2, <1>3 DEF Quote

\* A product grows with its factors.
LEMMA Products == ASSUME NEW a \in Nat, NEW b \in Nat, a <= b, NEW c \in Nat PROVE a * c <= b * c
OBVIOUS

LEMMA OnceMore == ASSUME NEW a \in Nat, NEW c \in Nat PROVE a * (c + 1) = a * c + a /\ a * c \in Nat
OBVIOUS

\* One more fee.
LEMMA AddsFee ==
    ASSUME NEW f, FeesAgree(f), NEW e \in Entry
    PROVE  /\ FeesAgree(Stats!AddFee(f, e))
           /\ Stats!AddFee(f, e).count \in f.count..(f.count + 1)
<1>1. /\ f.count \in Nat /\ f.total \in Nat /\ f.min \in Quote /\ f.max \in Quote
      /\ f \in FeeRow
  BY DEF FeesAgree, FeeRow
<1>2. CASE ~e.success \/ e.fee = None
  BY <1>1, <1>2 DEF Stats!AddFee
<1>3. CASE e.success /\ e.fee # None
  <2> DEFINE v == e.fee
             c == f.count
             t == f.total
             least == Stats!Least({f.min, v})
             greatest == Stats!Greatest({f.max, v})
             g == [count |-> c + 1, total |-> t + v, min |-> least, max |-> greatest]
  <2>1. v \in Nat
    BY <1>3 DEF Entry, Quote
  <2>2. Stats!AddFee(f, e) = g
    BY <1>3 DEF Stats!AddFee
  <2>3. /\ least = IF f.min \in Nat /\ f.min <= v THEN f.min ELSE v
        /\ greatest = IF f.max \in Nat /\ v <= f.max THEN f.max ELSE v
    BY <1>1, <2>1, TwoQuotes
  <2>4. least \in Nat /\ least <= v /\ greatest \in Nat /\ v <= greatest
    BY <1>1, <2>1, <2>3
  <2>5. c \in Nat /\ t \in Nat
    BY <1>1
  <2>6. least * c <= t /\ t <= greatest * c
    <3>1. CASE c = 0
      <4>1. t = 0
        BY <3>1 DEF FeesAgree
      <4> QED BY <2>4, <3>1, <4>1
    <3>2. CASE c > 0
      <4>1. /\ f.min \in Nat /\ f.max \in Nat
            /\ f.min * c <= t /\ t <= f.max * c
        BY <3>2 DEF FeesAgree
      <4>2. least <= f.min /\ f.max <= greatest
        BY <2>1, <2>3, <4>1
      <4>3. least * c <= f.min * c /\ f.max * c <= greatest * c
        BY <2>4, <2>5, <4>1, <4>2, Products
      <4>4. least * c \in Nat /\ greatest * c \in Nat /\ f.min * c \in Nat /\ f.max * c \in Nat
        BY <2>4, <2>5, <4>1, OnceMore
      <4> QED BY <2>5, <4>1, <4>3, <4>4
    <3> QED BY <2>5, <3>1, <3>2
  <2> HIDE DEF v, c, t, least, greatest
  <2>7. least * (c + 1) <= t + v /\ t + v <= greatest * (c + 1)
    <3>1. least * (c + 1) = least * c + least /\ least * c \in Nat
      BY <2>4, <2>5, OnceMore
    <3>2. greatest * (c + 1) = greatest * c + greatest /\ greatest * c \in Nat
      BY <2>4, <2>5, OnceMore
    <3> QED BY <2>1, <2>4, <2>5, <2>6, <3>1, <3>2
  <2>8. g \in FeeRow /\ c + 1 > 0 /\ c + 1 \in c..(c + 1)
    BY <2>1, <2>4, <2>5 DEF FeeRow, Quote
  <2>9. FeesAgree(g) /\ g.count = c + 1
    BY <2>4, <2>5, <2>7, <2>8 DEF FeesAgree
  <2> QED BY <2>2, <2>8, <2>9 DEF c
<1> QED BY <1>2, <1>3

\* One of the two columns of an outcome gets the post, and none if neither.
LEMMA Ones ==
    ASSUME NEW s \in BOOLEAN
    PROVE  /\ Stats!One(s) \in 0..1 /\ Stats!One(~s) \in 0..1
           /\ Stats!One(s) + Stats!One(~s) = 1
BY DEF Stats!One

\* One more post in a day, column by column.
LEMMA DayCounts ==
    ASSUME NEW row \in DayRow, NEW e \in Entry
    PROVE  LET new == Stats!CountEndpoint(Stats!CountDay(row, e), e)
               old == row.endpoint[e.endpoint]
           IN  /\ new.total = row.total + 1
               /\ new.success = row.success + Stats!One(e.success)
               /\ new.failed = row.failed + Stats!One(~e.success)
               /\ new.clientErrors = row.clientErrors + Stats!One(e.clientError)
               /\ new.fees = Stats!AddFee(row.fees, e)
               /\ new.token = [row.token EXCEPT ![e.token] = @ + 1]
               /\ new.endpoint = [row.endpoint EXCEPT ![e.endpoint] =
                    [total |-> old.total + 1,
                     success |-> old.success + Stats!One(e.success /\ e.endpoint # "verify"),
                     failed |-> old.failed + Stats!One(~e.success /\ e.endpoint # "verify")]]
               /\ new.errors = row.errors
               /\ new = [total |-> new.total, success |-> new.success, failed |-> new.failed,
                         clientErrors |-> new.clientErrors, fees |-> new.fees, token |-> new.token,
                         endpoint |-> new.endpoint, errors |-> new.errors]
<1> DEFINE mid == Stats!CountDay(row, e)
           new == Stats!CountEndpoint(mid, e)
           old == row.endpoint[e.endpoint]
<1>1. /\ mid.total = row.total + 1
      /\ mid.success = row.success + Stats!One(e.success)
      /\ mid.failed = row.failed + Stats!One(~e.success)
      /\ mid.clientErrors = row.clientErrors + Stats!One(e.clientError)
      /\ mid.fees = Stats!AddFee(row.fees, e)
      /\ mid.token = [row.token EXCEPT ![e.token] = @ + 1]
      /\ mid.endpoint = row.endpoint
      /\ mid.errors = row.errors
      /\ DOMAIN mid = DOMAIN row
  BY DEF Stats!CountDay, DayRow
<1>2. /\ DOMAIN mid = {"total", "success", "failed", "clientErrors", "fees", "token", "endpoint", "errors"}
      /\ mid = [x \in DOMAIN mid |-> mid[x]]
  BY <1>1 DEF Stats!CountDay, DayRow
<1> HIDE DEF mid
<1>3. /\ new.total = mid.total /\ new.success = mid.success /\ new.failed = mid.failed
      /\ new.clientErrors = mid.clientErrors /\ new.fees = mid.fees /\ new.token = mid.token
      /\ new.errors = mid.errors
  BY <1>2 DEF Stats!CountEndpoint
<1>4. old \in EndpointRow /\ e.endpoint \in DOMAIN row.endpoint
  BY DEF DayRow, Entry
<1>5. DOMAIN new = DOMAIN mid /\ new = [x \in DOMAIN new |-> new[x]]
  BY <1>2 DEF Stats!CountEndpoint
<1>6. new.endpoint = [row.endpoint EXCEPT ![e.endpoint] =
                    [total |-> old.total + 1,
                     success |-> old.success + Stats!One(e.success /\ e.endpoint # "verify"),
                     failed |-> old.failed + Stats!One(~e.success /\ e.endpoint # "verify")]]
  BY <1>1, <1>2, <1>4 DEF Stats!CountEndpoint, EndpointRow
<1> HIDE DEF new
<1>7. new = [total |-> new.total, success |-> new.success, failed |-> new.failed,
             clientErrors |-> new.clientErrors, fees |-> new.fees, token |-> new.token,
             endpoint |-> new.endpoint, errors |-> new.errors]
  BY <1>2, <1>5
<1> QED BY <1>1, <1>3, <1>6, <1>7 DEF new, mid

\* One more post in a row that agrees, and in the empty one.
LEMMA RowCounts ==
    ASSUME NEW row, RowAgrees(row), NEW e \in Entry,
           NEW new, new = Stats!CountEndpoint(Stats!CountDay(row, e), e)
    PROVE  RowAgrees(new) /\ new.total = row.total + 1 /\ new.fees = Stats!AddFee(row.fees, e)
<1> DEFINE s == Stats!One(e.success)
           f == Stats!One(~e.success)
           x == e.endpoint
           old == row.endpoint[x]
           spot == [total |-> old.total + 1,
                    success |-> old.success + Stats!One(e.success /\ x # "verify"),
                    failed |-> old.failed + Stats!One(~e.success /\ x # "verify")]
<1>1. row \in DayRow
  BY DEF RowAgrees
<1>2. /\ new.total = row.total + 1 /\ new.success = row.success + s /\ new.failed = row.failed + f
      /\ new.clientErrors = row.clientErrors + Stats!One(e.clientError)
      /\ new.fees = Stats!AddFee(row.fees, e)
      /\ new.token = [row.token EXCEPT ![e.token] = @ + 1]
      /\ new.endpoint = [row.endpoint EXCEPT ![x] = spot]
      /\ new.errors = row.errors
      /\ new = [total |-> new.total, success |-> new.success, failed |-> new.failed,
                clientErrors |-> new.clientErrors, fees |-> new.fees, token |-> new.token,
                endpoint |-> new.endpoint, errors |-> new.errors]
  BY <1>1, DayCounts
<1>3. s \in 0..1 /\ f \in 0..1 /\ s + f = 1 /\ Stats!One(e.clientError) \in 0..1
  BY Ones DEF Entry
<1>4. /\ row.total \in Nat /\ row.success \in Nat /\ row.failed \in Nat /\ row.clientErrors \in Nat
      /\ row.fees \in FeeRow /\ row.token \in [Tokens -> Nat]
      /\ row.endpoint \in [Endpoints -> EndpointRow] /\ row.errors \in Nat
  BY <1>1 DEF DayRow
<1>5. x \in Endpoints /\ e.token \in Tokens /\ e.success \in BOOLEAN
  BY DEF Entry
<1>6. old \in EndpointRow /\ old.total \in Nat /\ old.success \in Nat /\ old.failed \in Nat
  <2>1. old \in EndpointRow
    BY <1>4, <1>5
  <2> QED BY <2>1 DEF EndpointRow
<1>7. /\ spot \in EndpointRow /\ spot.total = old.total + 1
      /\ x # "verify" => spot.success = old.success + s /\ spot.failed = old.failed + f
  <2>1. \A b \in BOOLEAN : Stats!One(b) \in Nat
    BY DEF Stats!One
  <2>2. Stats!One(e.success /\ x # "verify") \in Nat /\ Stats!One(~e.success /\ x # "verify") \in Nat
    BY <2>1
  <2>3. spot \in EndpointRow
    BY <1>6, <2>2 DEF EndpointRow
  <2>4. x # "verify" => /\ Stats!One(e.success /\ x # "verify") = s
                        /\ Stats!One(~e.success /\ x # "verify") = f
    BY DEF Stats!One
  <2> QED BY <2>3, <2>4
<1> HIDE DEF s, f, spot
<1>8. new.endpoint[x] = spot /\ \A y \in Endpoints \ {x} : new.endpoint[y] = row.endpoint[y]
  BY <1>2, <1>4, <1>5
<1>9. FeesAgree(new.fees) /\ new.fees.count \in row.fees.count..(row.fees.count + 1)
  BY <1>2, AddsFee DEF RowAgrees
<1>10. new.token \in [Tokens -> Nat] /\ new.endpoint \in [Endpoints -> EndpointRow]
  BY <1>2, <1>4, <1>5, <1>7
<1>11. new \in DayRow
  <2>1. new.total \in Nat /\ new.success \in Nat /\ new.failed \in Nat /\ new.clientErrors \in Nat
    BY <1>2, <1>3, <1>4
  <2>2. new.fees \in FeeRow
    BY <1>9 DEF FeesAgree
  <2> HIDE DEF x, old
  <2> DEFINE a == new.total
             b == new.success
             c == new.failed
             d == new.clientErrors
             g == new.fees
             h == new.token
             i == new.endpoint
             j == new.errors
             r == [total |-> a, success |-> b, failed |-> c, clientErrors |-> d, fees |-> g,
                   token |-> h, endpoint |-> i, errors |-> j]
  <2>3. /\ a \in Nat /\ b \in Nat /\ c \in Nat /\ d \in Nat /\ g \in FeeRow
        /\ h \in [Tokens -> Nat] /\ i \in [Endpoints -> EndpointRow] /\ j \in Nat /\ new = r
    BY <1>2, <1>4, <1>10, <2>1, <2>2
  <2> HIDE DEF a, b, c, d, g, h, i, j
  <2>4. r \in DayRow
    BY <2>3 DEF DayRow
  <2> QED BY <2>3, <2>4
<1>12. new.fees.count <= new.total
  <2>1. row.fees.count \in Nat /\ row.fees.count <= row.total
    BY <1>4 DEF RowAgrees, FeeRow
  <2> QED BY <1>2, <1>4, <1>9, <2>1
<1>13. new.success + new.failed = new.total
  <2>1. row.success + row.failed = row.total
    BY DEF RowAgrees
  <2> QED BY <1>2, <1>3, <1>4, <2>1
<1>14. SumOf(EndpointTotals(new), Endpoints) = new.total
  <2> DEFINE g == EndpointTotals(row)
             h == EndpointTotals(new)
  <2>1. /\ \A y \in Endpoints : g[y] \in Nat
        /\ h[x] = g[x] + 1 /\ \A y \in Endpoints \ {x} : h[y] = g[y]
    BY <1>4, <1>5, <1>7, <1>8 DEF EndpointTotals, EndpointRow
  <2>2. SumOf(g, Endpoints) = row.total
    BY DEF RowAgrees
  <2> HIDE DEF g, h
  <2>3. Changes(SumOf(g, Endpoints), SumOf(h, Endpoints), g[x], h[x])
    BY <1>5, <2>1, StatsAssumption, SumChanges
  <2>4. SumOf(h, Endpoints) = row.total + 1
    BY <2>1, <2>2, <2>3 DEF Changes
  <2> QED BY <1>2, <2>4 DEF h
<1>15. \A y \in Endpoints \ {"verify"} :
          new.endpoint[y].success + new.endpoint[y].failed = new.endpoint[y].total
  <2>1. \A y \in Endpoints \ {"verify"} :
          row.endpoint[y].success + row.endpoint[y].failed = row.endpoint[y].total
    BY DEF RowAgrees
  <2>2. CASE x # "verify"
    <3>1. old.success + old.failed = old.total
      BY <1>5, <2>1, <2>2
    <3>2. spot.success + spot.failed = spot.total
      BY <1>3, <1>6, <1>7, <2>2, <3>1
    <3> QED BY <1>8, <2>1, <3>2
  <2>3. CASE x = "verify"
    BY <1>8, <2>1, <2>3
  <2> QED BY <2>2, <2>3
<1>16. SumOf(new.token, Tokens) = new.total
  <2> DEFINE g == row.token
             h == new.token
             y == e.token
  <2>1. /\ \A z \in Tokens : g[z] \in Nat
        /\ h[y] = g[y] + 1 /\ \A z \in Tokens \ {y} : h[z] = g[z]
    BY <1>2, <1>4, <1>5
  <2>2. SumOf(g, Tokens) = row.total /\ y \in Tokens
    BY <1>5 DEF RowAgrees
  <2> HIDE DEF g, h, y
  <2>3. Changes(SumOf(g, Tokens), SumOf(h, Tokens), g[y], h[y])
    BY <2>1, <2>2, StatsAssumption, SumChanges
  <2>4. SumOf(h, Tokens) = row.total + 1
    BY <2>1, <2>2, <2>3 DEF Changes
  <2> QED BY <1>2, <2>4 DEF h
<1> QED BY <1>2, <1>9, <1>11, <1>12, <1>13, <1>14, <1>15, <1>16 DEF RowAgrees

LEMMA EmptyRow == RowAgrees(Stats!NoDay) /\ Stats!NoDay.total = 0 /\ Stats!NoDay.fees.total = 0
<1> DEFINE n == Stats!NoDay
<1>1. FeesAgree(Stats!NoFees) /\ Stats!NoFees.count = 0 /\ Stats!NoFees.total = 0
  BY DEF FeesAgree, FeeRow, Quote, Stats!NoFees
<1>2. Stats!NoEndpoint \in EndpointRow
  BY DEF Stats!NoEndpoint, EndpointRow
<1>3. Stats!NoFees \in FeeRow
  BY <1>1 DEF FeesAgree
<1>4. n \in DayRow
  BY <1>2, <1>3 DEF DayRow, Stats!NoDay
<1>5. SumOf(EndpointTotals(n), Endpoints) = 0
  <2>1. \A e \in Endpoints : EndpointTotals(n)[e] = 0
    BY DEF EndpointTotals, Stats!NoDay, Stats!NoEndpoint
  <2> QED BY <2>1, SumOfZeros
<1>6. SumOf(n.token, Tokens) = 0
  <2>1. \A t \in Tokens : n.token[t] = 0
    BY DEF Stats!NoDay
  <2> QED BY <2>1, SumOfZeros
<1>7. \A e \in Endpoints : n.endpoint[e].success + n.endpoint[e].failed = n.endpoint[e].total
  BY DEF Stats!NoDay, Stats!NoEndpoint
<1>8. n.total = 0 /\ n.success = 0 /\ n.failed = 0 /\ n.fees = Stats!NoFees
  BY DEF Stats!NoDay
<1> QED BY <1>1, <1>4, <1>5, <1>6, <1>7, <1>8 DEF RowAgrees

--------------------------------------------------------------------------------
(* Statistics: a row of an hour. *)

Post == [at : Stats!Hours, entry : Entries]
HourRow == [total : Nat, success : Nat, clientErrors : Nat, fees : FeeRow]

\* Posts of these hours among these, by their place, and what they quote.
Posts(s, hs, these) == {i \in 1..Len(s) : s[i].at \in hs /\ s[i].entry \in these}
FeeAt(s) == [i \in DOMAIN s |-> s[i].entry.fee]
FeesIn(s, P) == {FeeAt(s)[i] : i \in P}

IsLeast(m, F) == \/ F = {} /\ m = None
                 \/ m \in F /\ m \in Nat /\ \A x \in F : x \in Nat /\ m <= x
IsGreatest(m, F) == \/ F = {} /\ m = None
                    \/ m \in F /\ m \in Nat /\ \A x \in F : x \in Nat /\ x <= m

\* The row of an hour is what was posted in it.
HourAgrees(row, s, h) ==
    /\ row.total = Cardinality(Posts(s, {h}, Entries))
    /\ row.success = Cardinality(Posts(s, {h}, Stats!Succeeded))
    /\ row.clientErrors = Cardinality(Posts(s, {h}, Stats!ClientErrors))
    /\ row.fees.total = SumOf(FeeAt(s), Posts(s, {h}, Stats!Paid))
    /\ IsLeast(row.fees.min, FeesIn(s, Posts(s, {h}, Stats!Paid)))
    /\ IsGreatest(row.fees.max, FeesIn(s, Posts(s, {h}, Stats!Paid)))

LEMMA EntriesTyped ==
    /\ Entries \subseteq Entry
    /\ Stats!Succeeded \subseteq Entries /\ Stats!ClientErrors \subseteq Entries
    /\ Stats!Paid \subseteq Entries
    /\ \A e \in Entries : /\ e.success \in BOOLEAN /\ e.clientError \in BOOLEAN
                          /\ e \in Stats!Succeeded <=> e.success
                          /\ e \in Stats!ClientErrors <=> e.clientError
                          /\ e \in Stats!Paid <=> e.success /\ e.fee # None
                          /\ e \in Stats!Paid => e.fee \in Nat
BY StatsAssumption DEF Entry, Quote, Stats!Succeeded, Stats!ClientErrors, Stats!Paid

\* What is among them.
LEMMA PostsTyped ==
    ASSUME NEW s \in Seq(Post), NEW hs, NEW these
    PROVE  /\ IsFiniteSet(Posts(s, hs, these)) /\ Cardinality(Posts(s, hs, these)) \in Nat
           /\ \A i \in Posts(s, hs, these) :
                 /\ i \in DOMAIN s /\ i \in 1..Len(s) /\ s[i] \in Post /\ s[i].at \in hs
                 /\ s[i].entry \in these /\ s[i].entry \in Entries
                 /\ FeeAt(s)[i] = s[i].entry.fee
<1>1. Len(s) \in Nat /\ DOMAIN s = 1..Len(s) /\ \A i \in 1..Len(s) : s[i] \in Post
  OBVIOUS
<1>2. IsFiniteSet(1..Len(s))
  <2>1. 1 \in Int /\ Len(s) \in Int
    BY <1>1
  <2> QED BY <2>1, FS_Interval
<1>3. Posts(s, hs, these) \subseteq 1..Len(s)
  BY DEF Posts
<1>4. IsFiniteSet(Posts(s, hs, these))
  BY <1>2, <1>3, FS_Subset
<1>5. \A i \in 1..Len(s) : s[i].entry \in Entries
  BY <1>1 DEF Post
<1> QED BY <1>1, <1>3, <1>4, <1>5, FS_CardinalityType DEF Posts, FeeAt

LEMMA PaidQuote ==
    ASSUME NEW s \in Seq(Post), NEW hs
    PROVE  \A i \in Posts(s, hs, Stats!Paid) : FeeAt(s)[i] \in Nat
BY PostsTyped, EntriesTyped

\* t is s and the post of e in hour x.
Posted(t, s, x, e) == t = Append(s, [at |-> x, entry |-> e])

\* One more post.
LEMMA PostsAdded ==
    ASSUME NEW s \in Seq(Post), NEW x \in Stats!Hours, NEW e \in Entries, NEW hs, NEW these,
           NEW t, Posted(t, s, x, e)
    PROVE  /\ t \in Seq(Post) /\ Len(t) = Len(s) + 1
           /\ Len(s) + 1 \notin Posts(s, hs, these)
           /\ Posts(t, hs, these) = IF x \in hs /\ e \in these THEN Posts(s, hs, these) \cup {Len(s) + 1}
                                    ELSE Posts(s, hs, these)
           /\ \A i \in Posts(s, hs, these) : FeeAt(t)[i] = FeeAt(s)[i]
           /\ FeeAt(t)[Len(s) + 1] = e.fee
<1> DEFINE p == [at |-> x, entry |-> e]
           n == Len(s) + 1
<1>1. p \in Post /\ p.at = x /\ p.entry = e
  BY DEF Post
<1> HIDE DEF p
<1>2. /\ t \in Seq(Post) /\ Len(t) = n /\ Len(s) \in Nat /\ t[n] = p
      /\ \A i \in 1..Len(s) : t[i] = s[i]
  BY <1>1 DEF p, Posted
<1>3. DOMAIN s = 1..Len(s) /\ DOMAIN t = 1..n
  BY <1>2
<1>4. \A i : i \in 1..n <=> i \in 1..Len(s) \/ i = n
  BY <1>2
<1>5. n \notin 1..Len(s)
  BY <1>2
<1> HIDE DEF n
<1>6. \A i \in 1..Len(s) : FeeAt(t)[i] = FeeAt(s)[i]
  BY <1>2, <1>3, <1>4 DEF FeeAt
<1>7. FeeAt(t)[n] = e.fee
  BY <1>1, <1>2, <1>3, <1>4 DEF FeeAt
<1>8. \A i : i \in Posts(t, hs, these) <=> \/ i \in Posts(s, hs, these)
                                           \/ i = n /\ x \in hs /\ e \in these
  BY <1>1, <1>2, <1>4, <1>5 DEF Posts
<1>9. \A i \in Posts(s, hs, these) : i \in 1..Len(s)
  BY DEF Posts
<1>10. Posts(t, hs, these) = IF x \in hs /\ e \in these THEN Posts(s, hs, these) \cup {n}
                                    ELSE Posts(s, hs, these)
  <2>1. CASE x \in hs /\ e \in these
    BY <1>8, <2>1
  <2>2. CASE ~(x \in hs /\ e \in these)
    BY <1>8, <2>2
  <2> QED BY <2>1, <2>2
<1> QED BY <1>2, <1>5, <1>6, <1>7, <1>9, <1>10 DEF n

LEMMA CountsPost ==
    ASSUME NEW s \in Seq(Post), NEW x \in Stats!Hours, NEW e \in Entries, NEW these,
           NEW t, Posted(t, s, x, e)
    PROVE  /\ e \in these => Cardinality(Posts(t, {x}, these)) = Cardinality(Posts(s, {x}, these)) + 1
           /\ e \notin these => Cardinality(Posts(t, {x}, these)) = Cardinality(Posts(s, {x}, these))
<1> DEFINE H == {x}
           P == Posts(s, H, these)
           n == Len(s) + 1
<1>0. x \in H
  OBVIOUS
<1> HIDE DEF H
<1>1. /\ n \notin P
      /\ Posts(t, H, these) = IF e \in these THEN P \cup {n} ELSE P
  BY <1>0, PostsAdded
<1>2. IsFiniteSet(P) /\ Cardinality(P) \in Nat
  BY PostsTyped
<1> HIDE DEF P, n
<1>3. Cardinality(P \cup {n}) = Cardinality(P) + 1
  BY <1>1, <1>2, FS_AddElement
<1> QED BY <1>1, <1>3 DEF P, H

\* One more quote among the fees.
LEMMA LeastAdds ==
    ASSUME NEW F, NEW m, IsLeast(m, F), NEW v \in Nat
    PROVE  IsLeast(Stats!Least({m, v}), F \cup {v})
<1>1. m \in Quote
  BY DEF IsLeast, Quote
<1>2. Stats!Least({m, v}) = IF m \in Nat /\ m <= v THEN m ELSE v
  BY <1>1, TwoQuotes
<1> QED BY <1>2, NoneAssumption DEF IsLeast

LEMMA GreatestAdds ==
    ASSUME NEW F, NEW m, IsGreatest(m, F), NEW v \in Nat
    PROVE  IsGreatest(Stats!Greatest({m, v}), F \cup {v})
<1>1. m \in Quote
  BY DEF IsGreatest, Quote
<1>2. Stats!Greatest({m, v}) = IF m \in Nat /\ v <= m THEN m ELSE v
  BY <1>1, TwoQuotes
<1> QED BY <1>2, NoneAssumption DEF IsGreatest

LEMMA QuoteAdds ==
    ASSUME NEW P, IsFiniteSet(P), NEW n, n \notin P, NEW Q, Q = P \cup {n}, NEW q \in Nat, NEW u, NEW w,
           \A i \in P : u[i] = w[i], \A i \in Q : w[i] \in Nat, w[n] = q
    PROVE  SumOf(w, Q) = SumOf(u, P) + q
<1>1. \E k, m \in Nat : k = SumOf(u, P) /\ m = w[n] /\ SumOf(w, Q) = k + m
  BY SumAdds
<1> QED BY <1>1

LEMMA FeesAdded ==
    ASSUME NEW s \in Seq(Post), NEW h \in Stats!Hours, NEW e \in Entries,
           NEW t, Posted(t, s, h, e), NEW old \in FeeRow, NEW new, new = Stats!AddFee(old, e),
           old.total = SumOf(FeeAt(s), Posts(s, {h}, Stats!Paid)),
           IsLeast(old.min, FeesIn(s, Posts(s, {h}, Stats!Paid))),
           IsGreatest(old.max, FeesIn(s, Posts(s, {h}, Stats!Paid)))
    PROVE  /\ new.total = SumOf(FeeAt(t), Posts(t, {h}, Stats!Paid))
           /\ IsLeast(new.min, FeesIn(t, Posts(t, {h}, Stats!Paid)))
           /\ IsGreatest(new.max, FeesIn(t, Posts(t, {h}, Stats!Paid)))
<1> DEFINE H == {h}
           P == Posts(s, H, Stats!Paid)
           Q == Posts(t, H, Stats!Paid)
           n == Len(s) + 1
           was == FeeAt(s)
           is == FeeAt(t)
<1>0. h \in H
  OBVIOUS
<1> HIDE DEF H
<1>1. /\ n \notin P /\ \A i \in P : is[i] = was[i]
      /\ Q = IF e \in Stats!Paid THEN P \cup {n} ELSE P
      /\ t \in Seq(Post) /\ is[n] = e.fee
  BY <1>0, PostsAdded
<1>2. IsFiniteSet(P) /\ (\A i \in P : was[i] \in Nat) /\ (\A i \in Q : is[i] \in Nat)
  BY <1>1, PostsTyped, PaidQuote
<1>3. FeesIn(s, P) = {was[i] : i \in P} /\ FeesIn(t, Q) = {is[i] : i \in Q}
  BY DEF FeesIn
<1> HIDE DEF P, Q, n, was, is
<1>4. CASE ~e.success \/ e.fee = None
  <2>1. e \notin Stats!Paid /\ new = old
    BY <1>4, EntriesTyped DEF Stats!AddFee
  <2>2. Q = P
    BY <1>1, <2>1
  <2>3. SumOf(is, P) = SumOf(was, P)
    BY <1>1, SumSame
  <2>4. {is[i] : i \in P} = {was[i] : i \in P}
    BY <1>1
  <2> QED BY <1>3, <2>1, <2>2, <2>3, <2>4 DEF P, Q, was, is, H
<1>5. CASE e.success /\ e.fee # None
  <2> DEFINE v == e.fee
  <2>1. /\ e \in Stats!Paid /\ v \in Nat
        /\ new.total = old.total + v
        /\ new.min = Stats!Least({old.min, v}) /\ new.max = Stats!Greatest({old.max, v})
    BY <1>5, EntriesTyped DEF Stats!AddFee
  <2>2. Q = P \cup {n} /\ is[n] = v
    BY <1>1, <2>1
  <2>3. (\A i \in P : was[i] = is[i]) /\ (\A i \in Q : is[i] \in Nat)
    BY <1>1, <1>2
  <2>4. SumOf(is, Q) = SumOf(was, P) + v
    BY <1>1, <1>2, <2>1, <2>2, <2>3, QuoteAdds
  <2>7. {is[i] : i \in Q} = {was[i] : i \in P} \cup {v}
    BY <1>1, <2>2
  <2> HIDE DEF v
  <2>5. new.total = SumOf(is, Q)
    BY <2>1, <2>4 DEF P, was, H
  <2>6. IsLeast(new.min, FeesIn(t, Q)) /\ IsGreatest(new.max, FeesIn(t, Q))
    <3>1. IsLeast(old.min, FeesIn(s, P)) /\ IsGreatest(old.max, FeesIn(s, P))
      BY DEF P, H
    <3>2. FeesIn(t, Q) = FeesIn(s, P) \cup {v}
      BY <1>3, <2>7
    <3> QED BY <2>1, <3>1, <3>2, LeastAdds, GreatestAdds
  <2> QED BY <2>5, <2>6 DEF Q, is, H
<1> QED BY <1>4, <1>5

\* One more post in the row of its hour.
LEMMA HourCounts ==
    ASSUME NEW s \in Seq(Post), NEW x \in Stats!Hours, NEW e \in Entries,
           NEW t, Posted(t, s, x, e), NEW row \in HourRow, HourAgrees(row, s, x)
    PROVE  HourAgrees(Stats!CountHour(row, e), t, x)
<1> DEFINE new == Stats!CountHour(row, e)
<1>1. /\ new.total = row.total + 1 /\ new.success = row.success + Stats!One(e.success)
      /\ new.clientErrors = row.clientErrors + Stats!One(e.clientError)
      /\ new.fees = Stats!AddFee(row.fees, e)
  BY DEF Stats!CountHour, HourRow
<1> HIDE DEF new
<1>2. \A b \in BOOLEAN : (b => Stats!One(b) = 1) /\ (~b => Stats!One(b) = 0)
  BY DEF Stats!One
<1>3. Cardinality(Posts(t, {x}, Entries)) = Cardinality(Posts(s, {x}, Entries)) + 1
  BY CountsPost
<1>4. Cardinality(Posts(t, {x}, Stats!Succeeded)) = Cardinality(Posts(s, {x}, Stats!Succeeded))
         + Stats!One(e.success)
  <2>1. /\ Cardinality(Posts(s, {x}, Stats!Succeeded)) \in Nat
        /\ e.success \in BOOLEAN /\ (e \in Stats!Succeeded <=> e.success)
    BY PostsTyped, EntriesTyped
  <2> QED BY <1>2, <2>1, CountsPost
<1>5. Cardinality(Posts(t, {x}, Stats!ClientErrors))
        = Cardinality(Posts(s, {x}, Stats!ClientErrors)) + Stats!One(e.clientError)
  <2>1. /\ Cardinality(Posts(s, {x}, Stats!ClientErrors)) \in Nat
        /\ e.clientError \in BOOLEAN /\ (e \in Stats!ClientErrors <=> e.clientError)
    BY PostsTyped, EntriesTyped
  <2> QED BY <1>2, <2>1, CountsPost
<1>6. row.fees \in FeeRow
  BY DEF HourRow
<1>7. /\ new.fees.total = SumOf(FeeAt(t), Posts(t, {x}, Stats!Paid))
      /\ IsLeast(new.fees.min, FeesIn(t, Posts(t, {x}, Stats!Paid)))
      /\ IsGreatest(new.fees.max, FeesIn(t, Posts(t, {x}, Stats!Paid)))
  BY <1>1, <1>6, FeesAdded DEF HourAgrees
<1> QED BY <1>1, <1>3, <1>4, <1>5, <1>7 DEF HourAgrees, new

\* The rows of the other hours agree as they did.
LEMMA OtherHours ==
    ASSUME NEW s \in Seq(Post), NEW x \in Stats!Hours, NEW e \in Entries,
           NEW t, Posted(t, s, x, e), NEW row, NEW h, h # x, HourAgrees(row, s, h)
    PROVE  HourAgrees(row, t, h)
<1>1. \A these : Posts(t, {h}, these) = Posts(s, {h}, these)
  <2> SUFFICES ASSUME NEW these PROVE Posts(t, {h}, these) = Posts(s, {h}, these)
    OBVIOUS
  <2> DEFINE H == {h}
  <2>1. x \notin H
    OBVIOUS
  <2> HIDE DEF H
  <2>2. Posts(t, H, these) = Posts(s, H, these)
    BY <2>1, PostsAdded
  <2> QED BY <2>2 DEF H
<1> DEFINE H == {h}
           P == Posts(s, H, Stats!Paid)
<1> HIDE DEF H
<1>2. Posts(t, H, Stats!Paid) = P /\ \A i \in P : FeeAt(t)[i] = FeeAt(s)[i]
  <2>1. x \notin H
    BY DEF H
  <2>2. Posts(t, H, Stats!Paid) = P
    BY <1>1 DEF H
  <2>3. ASSUME NEW i \in P PROVE FeeAt(t)[i] = FeeAt(s)[i]
    BY <2>1, <2>2, PostsAdded
  <2> QED BY <2>2, <2>3
<1> HIDE DEF P
<1>3. SumOf(FeeAt(t), P) = SumOf(FeeAt(s), P)
  BY <1>2, SumSame
<1>4. FeesIn(t, P) = FeesIn(s, P)
  BY <1>2 DEF FeesIn
<1>5. /\ row.fees.total = SumOf(FeeAt(s), P)
      /\ IsLeast(row.fees.min, FeesIn(s, P)) /\ IsGreatest(row.fees.max, FeesIn(s, P))
  BY DEF HourAgrees, P, H
<1>6. /\ row.fees.total = SumOf(FeeAt(t), Posts(t, {h}, Stats!Paid))
      /\ IsLeast(row.fees.min, FeesIn(t, Posts(t, {h}, Stats!Paid)))
      /\ IsGreatest(row.fees.max, FeesIn(t, Posts(t, {h}, Stats!Paid)))
  BY <1>2, <1>3, <1>4, <1>5 DEF H
<1> QED BY <1>1, <1>6 DEF HourAgrees

\* Nothing is posted and nothing is counted.
LEMMA EmptyHour ==
    ASSUME NEW s \in Seq(Post), NEW h, \A i \in 1..Len(s) : s[i].at # h
    PROVE  HourAgrees(Stats!NoRow, s, h)
<1>1. \A these : Posts(s, {h}, these) = {}
  BY DEF Posts
<1>2. FeesIn(s, {}) = {} /\ SumOf(FeeAt(s), {}) = 0 /\ Cardinality({}) = 0
  BY SumOfNone, FS_EmptySet DEF FeesIn
<1> QED BY <1>1, <1>2 DEF HourAgrees, IsLeast, IsGreatest, Stats!NoRow, Stats!NoFees

--------------------------------------------------------------------------------
(* Statistics: all rows. *)

\* The fees of a day are zero if all that was paid in it is.
ZeroPaid(d) == \A i \in 1..Len(told) :
                  Stats!Day(told[i].at) = d /\ told[i].entry \in Stats!Paid => told[i].entry.fee = 0

\* Rows of days agree with themselves, rows of hours within reach of the
\* overview with what was posted; the others are pruned by the next post.
StatsInv ==
    /\ hour \in Stats!Hours
    /\ told \in Seq(Post) /\ Len(told) <= MaxEntries
    /\ \A i \in 1..Len(told) : told[i].at <= hour
    /\ \A d \in Stats!Days : RowAgrees(daily[d]) /\ daily[d].total <= Len(told)
    /\ \A d \in Stats!Days : ZeroPaid(d) => daily[d].fees.total = 0
    /\ \A h \in Stats!Hours : hourly[h] \in HourRow /\ hourly[h].total <= Len(told)
    /\ \A h \in Stats!Hours : Stats!Kept(h) => HourAgrees(hourly[h], told, h)

\* The domains of the tables.
StatsTables == DOMAIN daily = Stats!Days /\ DOMAIN hourly = Stats!Hours

LEMMA InitStats == Stats!Init => StatsInv /\ StatsTables
<1> SUFFICES ASSUME Stats!Init PROVE StatsInv /\ StatsTables
  OBVIOUS
<1>1. hour = 0 /\ told = << >> /\ daily = [d \in Stats!Days |-> Stats!NoDay]
      /\ hourly = [h \in Stats!Hours |-> Stats!NoRow]
  BY DEF Stats!Init
<1>2. told \in Seq(Post) /\ Len(told) = 0
  BY <1>1
<1>3. hour \in Stats!Hours /\ MaxEntries \in Nat
  BY <1>1, StatsAssumption DEF Stats!Hours
<1>4. Stats!NoRow \in HourRow /\ Stats!NoRow.total = 0
  BY DEF Stats!NoRow, Stats!NoFees, HourRow, FeeRow, Quote
<1>5. \A h : HourAgrees(Stats!NoRow, told, h)
  <2>1. \A h : \A i \in 1..Len(told) : told[i].at # h
    BY <1>2
  <2> QED BY <1>2, <2>1, EmptyHour
<1> QED BY <1>1, <1>2, <1>3, <1>4, <1>5, EmptyRow DEF StatsInv, StatsTables

\* An hour later fewer rows are within reach, and the new one is empty.
LEMMA StatsTicks == ASSUME StatsInv, StatsTables, Stats!Tick PROVE StatsInv' /\ StatsTables'
<1>1. /\ hour \in Stats!Hours /\ hour < MaxHour /\ hour' = hour + 1 /\ UNCHANGED <<daily, hourly, told>>
      /\ told \in Seq(Post) /\ Len(told) \in Nat
  BY DEF StatsInv, Stats!Tick
<1>2. hour \in Nat /\ hour' \in Nat /\ hour' \in Stats!Hours
  BY <1>1, StatsAssumption DEF Stats!Hours
<1>3. \A i \in 1..Len(told) : told[i].at <= hour'
  <2> SUFFICES ASSUME NEW i \in 1..Len(told) PROVE told[i].at <= hour'
    OBVIOUS
  <2>1. told[i] \in Post /\ told[i].at <= hour
    BY <1>1 DEF StatsInv
  <2>2. told[i].at \in Nat
    BY <2>1, StatsAssumption DEF Post, Stats!Hours
  <2> QED BY <1>1, <1>2, <2>1, <2>2
<1>4. \A h \in Stats!Hours : Stats!Kept(h)' => Stats!Kept(h)
  <2>1. \A h \in Stats!Hours : h \in Nat
    BY StatsAssumption DEF Stats!Hours
  <2>2. 2 * DayHours \in Nat
    BY StatsAssumption
  <2> QED BY <1>1, <1>2, <2>1, <2>2 DEF Stats!Kept
<1>5. \A d : ZeroPaid(d)' <=> ZeroPaid(d)
  BY <1>1 DEF ZeroPaid
<1> QED BY <1>1, <1>2, <1>3, <1>4, <1>5 DEF StatsInv, StatsTables

\* An error's category is counted beside the rest of the row.
LEMMA StatsErrors == ASSUME StatsInv, StatsTables, Stats!RecordError PROVE StatsInv' /\ StatsTables'
<1> DEFINE D == Stats!Day(hour)
           row == daily[D]
           new == [row EXCEPT !.errors = @ + 1]
<1>1. UNCHANGED <<hour, hourly, told>> /\ daily' = [daily EXCEPT ![D].errors = @ + 1]
  BY DEF Stats!RecordError
<1>2. \A d \in Stats!Days : daily'[d] = IF d = D THEN new ELSE daily[d]
  BY <1>1 DEF StatsTables
<1>3. ASSUME RowAgrees(row) PROVE RowAgrees(new) /\ new.total = row.total /\ new.fees = row.fees
  <2>1. row \in DayRow
    BY <1>3 DEF RowAgrees
  <2>2. /\ new \in DayRow
        /\ new.total = row.total /\ new.success = row.success /\ new.failed = row.failed
        /\ new.fees = row.fees /\ new.token = row.token /\ new.endpoint = row.endpoint
    BY <2>1 DEF DayRow
  <2> HIDE DEF new
  <2>3. EndpointTotals(new) = EndpointTotals(row)
    BY <2>2 DEF EndpointTotals
  <2> QED BY <1>3, <2>2, <2>3 DEF RowAgrees
<1> HIDE DEF new, row, D
<1>4. \A d : ZeroPaid(d)' <=> ZeroPaid(d)
  BY <1>1 DEF ZeroPaid
<1>5. \A d \in Stats!Days : /\ RowAgrees(daily'[d]) /\ daily'[d].total = daily[d].total
                            /\ daily'[d].fees = daily[d].fees
  <2> SUFFICES ASSUME NEW d \in Stats!Days
               PROVE  /\ RowAgrees(daily'[d]) /\ daily'[d].total = daily[d].total
                      /\ daily'[d].fees = daily[d].fees
    OBVIOUS
  <2>1. RowAgrees(daily[d])
    BY DEF StatsInv
  <2>2. CASE d = D
    BY <1>2, <1>3, <2>1, <2>2 DEF row
  <2>3. CASE d # D
    BY <1>2, <2>1, <2>3
  <2> QED BY <2>2, <2>3
<1>6. \A h : Stats!Kept(h)' <=> Stats!Kept(h)
  BY <1>1 DEF Stats!Kept
<1>7. DOMAIN daily' = Stats!Days /\ DOMAIN hourly' = Stats!Hours
  BY <1>1 DEF StatsTables
<1> QED BY <1>1, <1>4, <1>5, <1>6, <1>7 DEF StatsInv, StatsTables

LEMMA FeeTyped == ASSUME NEW f \in FeeRow, NEW e \in Entry PROVE Stats!AddFee(f, e) \in FeeRow
<1>1. f.count \in Nat /\ f.total \in Nat /\ f.min \in Quote /\ f.max \in Quote
  BY DEF FeeRow
<1>2. CASE ~e.success \/ e.fee = None
  BY <1>2 DEF Stats!AddFee
<1>3. CASE e.success /\ e.fee # None
  <2> DEFINE least == Stats!Least({f.min, e.fee})
             greatest == Stats!Greatest({f.max, e.fee})
             total == f.total + e.fee
             count == f.count + 1
  <2>1. e.fee \in Nat
    BY <1>3 DEF Entry, Quote
  <2>2. least \in Quote /\ greatest \in Quote
    BY <1>1, <2>1, TwoQuotes DEF Quote
  <2>3. total \in Nat /\ count \in Nat
    BY <1>1, <2>1
  <2>4. Stats!AddFee(f, e) = [count |-> count, total |-> total, min |-> least, max |-> greatest]
    BY <1>3 DEF Stats!AddFee
  <2> HIDE DEF least, greatest, total, count
  <2> QED BY <2>2, <2>3, <2>4 DEF FeeRow
<1> QED BY <1>2, <1>3

LEMMA HourTyped ==
    ASSUME NEW row \in HourRow, NEW e \in Entry
    PROVE  Stats!CountHour(row, e) \in HourRow /\ Stats!CountHour(row, e).total = row.total + 1
<1> DEFINE new == Stats!CountHour(row, e)
           fees == Stats!AddFee(row.fees, e)
           s == Stats!One(e.success)
           c == Stats!One(e.clientError)
<1>1. /\ row.total \in Nat /\ row.success \in Nat /\ row.clientErrors \in Nat /\ row.fees \in FeeRow
  BY DEF HourRow
<1>2. s \in Nat /\ c \in Nat
  BY DEF Stats!One
<1>3. fees \in FeeRow
  BY <1>1, FeeTyped
<1>4. new = [row EXCEPT !.total = @ + 1, !.success = @ + s, !.clientErrors = @ + c, !.fees = fees]
  BY DEF Stats!CountHour
<1> HIDE DEF new, fees, s, c
<1>5. new = [total |-> row.total + 1, success |-> row.success + s, clientErrors |-> row.clientErrors + c,
             fees |-> fees]
  BY <1>4 DEF HourRow
<1> DEFINE a == row.total + 1
           b == row.success + s
           d == row.clientErrors + c
<1>6. a \in Nat /\ b \in Nat /\ d \in Nat /\ 
      new = [total |-> a, success |-> b, clientErrors |-> d, fees |-> fees]
  BY <1>1, <1>2, <1>5
<1>7. new.total = row.total + 1
  BY <1>5
<1> HIDE DEF a, b, d
<1>8. new \in HourRow
  BY <1>3, <1>6 DEF HourRow
<1> QED BY <1>7, <1>8 DEF new

\* A post goes to the row of its day and to that of its hour.
LEMMA StatsRecords ==
    ASSUME StatsInv, StatsTables, NEW e \in Entries, Stats!Record(e)
    PROVE  StatsInv' /\ StatsTables'
<1> DEFINE D == Stats!Day(hour)
           new == Stats!CountEndpoint(Stats!CountDay(daily[D], e), e)
<1>1. /\ hour \in Stats!Hours /\ hour' = hour /\ hour \in Nat
      /\ told \in Seq(Post) /\ Len(told) \in Nat /\ Len(told) < MaxEntries /\ MaxEntries \in Nat
      /\ Posted(told', told, hour, e) /\ e \in Entry
  BY StatsAssumption, EntriesTyped DEF StatsInv, Stats!Record, Stats!Hours, Posted
<1>2. /\ told' \in Seq(Post) /\ Len(told') = Len(told) + 1 /\ Len(told') <= MaxEntries
  <2> DEFINE p == [at |-> hour, entry |-> e]
  <2>1. told' = Append(told, p) /\ p \in Post
    BY <1>1 DEF Posted, Post
  <2> HIDE DEF p
  <2> QED BY <1>1, <2>1
<1>3. /\ \A i \in 1..Len(told) : i \in 1..Len(told') /\ told'[i] = told[i]
      /\ Len(told') \in 1..Len(told') /\ told'[Len(told')].at = hour /\ told'[Len(told')].entry = e
      /\ \A i \in 1..Len(told') : i \in 1..Len(told) \/ i = Len(told')
  <2> DEFINE p == [at |-> hour, entry |-> e]
  <2>1. told' = Append(told, p) /\ p.at = hour /\ p.entry = e
    BY <1>1 DEF Posted
  <2>2. p \in Post
    BY <1>1 DEF Post
  <2> HIDE DEF p
  <2> QED BY <1>1, <1>2, <2>1, <2>2
<1>4. \A i \in 1..Len(told') : told'[i].at <= hour'
  BY <1>1, <1>3 DEF StatsInv
<1>5. /\ \A d \in Stats!Days : daily'[d] = IF d = D THEN new ELSE daily[d]
      /\ DOMAIN daily' = Stats!Days
  BY DEF Stats!Record, StatsTables
<1>6. \A d \in Stats!Days : RowAgrees(daily[d]) /\ daily[d].total <= Len(told)
  BY DEF StatsInv
<1> HIDE DEF D
<1>7. D \in Stats!Days =>
         RowAgrees(new) /\ new.total = daily[D].total + 1 /\ new.fees = Stats!AddFee(daily[D].fees, e)
  BY <1>1, <1>6, RowCounts
<1> HIDE DEF new
<1>8. \A d \in Stats!Days : RowAgrees(daily'[d]) /\ daily'[d].total <= Len(told')
  <2>1. \A d \in Stats!Days : daily[d].total \in Nat
    BY <1>6 DEF RowAgrees, DayRow
  <2> QED BY <1>1, <1>2, <1>5, <1>6, <1>7, <2>1
<1>9. ASSUME NEW d \in Stats!Days, ZeroPaid(d)' PROVE daily'[d].fees.total = 0
  <2>1. ZeroPaid(d)
    BY <1>3, <1>9 DEF ZeroPaid
  <2>2. daily[d].fees.total = 0
    BY <2>1 DEF StatsInv
  <2>3. CASE d = D
    <3>1. e \in Stats!Paid => e.fee = 0
      BY <1>3, <1>9, <2>3 DEF ZeroPaid, D
    <3>2. /\ e.success \in BOOLEAN /\ (e.success /\ e.fee # None => e \in Stats!Paid)
      BY EntriesTyped
    <3>3. Stats!AddFee(daily[d].fees, e).total = 0
      BY <2>2, <3>1, <3>2 DEF Stats!AddFee
    <3> QED BY <1>5, <1>7, <2>3, <3>3
  <2>4. CASE d # D
    BY <1>5, <2>2, <2>4
  <2> QED BY <2>3, <2>4
<1>10. /\ \A h \in Stats!Hours : hourly'[h] = CASE h = hour  -> Stats!CountHour(hourly[h], e)
                                                [] h # hour /\ Stats!Kept(h)  -> hourly[h]
                                                [] OTHER    -> Stats!NoRow
       /\ DOMAIN hourly' = Stats!Hours
  BY DEF Stats!Record
<1>11. \A h \in Stats!Hours : hourly'[h] \in HourRow /\ hourly'[h].total <= Len(told')
  <2> SUFFICES ASSUME NEW h \in Stats!Hours PROVE hourly'[h] \in HourRow /\ hourly'[h].total <= Len(told')
    OBVIOUS
  <2>1. hourly[h] \in HourRow /\ hourly[h].total <= Len(told)
    BY DEF StatsInv
  <2>2. hourly[h].total \in Nat
    BY <2>1 DEF HourRow
  <2>3. CASE h = hour
    <3>1. hourly'[h] = Stats!CountHour(hourly[h], e)
      BY <1>10, <2>3
    <3>2. hourly'[h] \in HourRow /\ hourly'[h].total = hourly[h].total + 1
      BY <1>1, <2>1, <3>1, HourTyped
    <3> QED BY <1>1, <1>2, <2>1, <2>2, <3>2
  <2>4. CASE h # hour /\ Stats!Kept(h)
    BY <1>1, <1>2, <1>10, <2>1, <2>2, <2>4
  <2>5. CASE h # hour /\ ~Stats!Kept(h)
    <3>1. hourly'[h] = Stats!NoRow
      BY <1>10, <2>5
    <3>2. Stats!NoRow \in HourRow /\ Stats!NoRow.total = 0
      BY DEF Stats!NoRow, Stats!NoFees, HourRow, FeeRow, Quote
    <3> QED BY <1>1, <1>2, <3>1, <3>2
  <2> QED BY <2>3, <2>4, <2>5
<1>12. \A h : Stats!Kept(h)' <=> Stats!Kept(h)
  BY <1>1 DEF Stats!Kept
<1>13. ASSUME NEW h \in Stats!Hours, Stats!Kept(h) PROVE HourAgrees(hourly'[h], told', h)
  <2>1. hourly[h] \in HourRow /\ HourAgrees(hourly[h], told, h)
    BY <1>13 DEF StatsInv
  <2>2. CASE h = hour
    <3>1. hourly'[h] = Stats!CountHour(hourly[h], e)
      BY <1>10, <2>2
    <3> QED BY <1>1, <2>1, <2>2, <3>1, HourCounts
  <2>3. CASE h # hour
    <3>1. hourly'[h] = hourly[h]
      BY <1>10, <1>13, <2>3
    <3> QED BY <1>1, <2>1, <2>3, <3>1, OtherHours
  <2> QED BY <2>2, <2>3
<1>14. StatsTables'
  BY <1>5, <1>10 DEF StatsTables
<1> QED BY <1>1, <1>2, <1>4, <1>8, <1>9, <1>11, <1>12, <1>13, <1>14 DEF StatsInv

LEMMA NextStats ==
    ASSUME StatsInv, StatsTables, [Stats!Next]_statVars PROVE StatsInv' /\ StatsTables'
<1>1. ASSUME UNCHANGED statVars PROVE StatsInv' /\ StatsTables'
  BY <1>1 DEF statVars, StatsInv, StatsTables, ZeroPaid, Stats!Kept
<1> QED BY <1>1, StatsTicks, StatsErrors, StatsRecords DEF Stats!Next

LEMMA StatsTypes == StatsInv => Stats!TypeOK
<1> SUFFICES ASSUME StatsInv PROVE Stats!TypeOK
  OBVIOUS
<1>1. MaxEntries \in Nat /\ Len(told) \in Nat /\ Len(told) <= MaxEntries
  BY StatsAssumption DEF StatsInv
<1>2. \A d \in Stats!Days : daily[d].total \in 0..MaxEntries /\ daily[d].fees.count \in 0..MaxEntries
  <2> SUFFICES ASSUME NEW d \in Stats!Days
               PROVE  daily[d].total \in 0..MaxEntries /\ daily[d].fees.count \in 0..MaxEntries
    OBVIOUS
  <2>1. RowAgrees(daily[d]) /\ daily[d].total <= Len(told)
    BY DEF StatsInv
  <2>2. daily[d].total \in Nat /\ daily[d].fees.count \in Nat /\ daily[d].fees.count <= daily[d].total
    BY <2>1 DEF RowAgrees, DayRow, FeesAgree, FeeRow
  <2> QED BY <1>1, <2>1, <2>2
<1>3. \A h \in Stats!Hours : hourly[h].total \in 0..MaxEntries
  BY <1>1 DEF StatsInv, HourRow
<1>4. hour \in Stats!Hours
  BY DEF StatsInv
<1> QED BY <1>1, <1>2, <1>3, <1>4 DEF Stats!TypeOK

\* A row that agrees adds up.
LEMMA StatsAddUp == StatsInv => Stats!BreakdownsAddUp
<1> SUFFICES ASSUME StatsInv, NEW d \in Stats!Days
             PROVE  LET row == daily[d] IN
        /\ row.success + row.failed = row.total
        /\ Stats!SumOf([e \in Endpoints |-> row.endpoint[e].total], Endpoints) = row.total
        /\ \A e \in Endpoints \ {"verify"} :
              row.endpoint[e].success + row.endpoint[e].failed = row.endpoint[e].total
        /\ Stats!SumOf(row.token, Tokens) = row.total
        /\ row.fees.count > 0 => /\ row.fees.min * row.fees.count <= row.fees.total
                                 /\ row.fees.total <= row.fees.max * row.fees.count
  BY DEF Stats!BreakdownsAddUp
<1> DEFINE row == daily[d]
<1>1. RowAgrees(row)
  BY DEF StatsInv
<1> HIDE DEF row
<1>2. Stats!SumOf(EndpointTotals(row), Endpoints) = row.total /\ Stats!SumOf(row.token, Tokens) = row.total
  BY <1>1, SameSum DEF RowAgrees
<1>3. Stats!SumOf([e \in Endpoints |-> row.endpoint[e].total], Endpoints) = row.total
  BY <1>2 DEF EndpointTotals
<1>4. row.fees.count > 0 => /\ row.fees.min * row.fees.count <= row.fees.total
                            /\ row.fees.total <= row.fees.max * row.fees.count
  BY <1>1 DEF RowAgrees, FeesAgree
<1>5. /\ row.success + row.failed = row.total
      /\ \A e \in Endpoints \ {"verify"} :
            row.endpoint[e].success + row.endpoint[e].failed = row.endpoint[e].total
  BY <1>1 DEF RowAgrees
<1> QED BY <1>2, <1>3, <1>4, <1>5 DEF row

--------------------------------------------------------------------------------
(* Statistics: the overview. *)

\* Numbers have a least among them, and bounded ones a greatest.
LEMMA LeastOne ==
    ASSUME NEW F, F # {}, \A x \in F : x \in Nat PROVE \E m \in F : \A x \in F : m <= x
<1> DEFINE R == {p \in Nat \X Nat : p[1] < p[2]}
<1>1. IsWellFoundedOn(R, Nat)
  BY NatLessThanWellFounded DEF OpToRel
<1>2. \A x, y \in Nat : x < y => <<x, y>> \in R
  OBVIOUS
<1> HIDE DEF R
<1>3. F \subseteq Nat
  OBVIOUS
<1>4. PICK m \in F : \A y \in F : ~(<<y, m>> \in R)
  BY <1>1, <1>3, WFMin
<1>5. ASSUME NEW x \in F PROVE m <= x
  <2>1. m \in Nat /\ x \in Nat /\ ~(x < m)
    BY <1>2, <1>4
  <2> QED BY <2>1
<1> QED BY <1>5

LEMMA GreatestOne ==
    ASSUME NEW F, F # {}, \A x \in F : x \in Nat, NEW k \in Nat, \A x \in F : x <= k
    PROVE  \E m \in F : \A x \in F : x <= m
<1> DEFINE T == {n \in Nat : \A x \in F : x <= n}
<1>1. k \in T
  OBVIOUS
<1>2. PICK m \in T : \A n \in T : m <= n
  <2>1. T # {} /\ \A n \in T : n \in Nat
    BY <1>1
  <2> HIDE DEF T
  <2> QED BY <2>1, LeastOne
<1>3. m \in Nat /\ \A x \in F : x <= m
  BY <1>2
<1>4. ASSUME m \notin F PROVE FALSE
  <2>1. \A x \in F : x < m
    BY <1>3, <1>4
  <2>2. m > 0
    BY <1>3, <2>1
  <2>3. m - 1 \in Nat /\ \A x \in F : x <= m - 1
    BY <1>3, <2>1, <2>2
  <2>4. m - 1 \in T
    BY <2>3
  <2> QED BY <1>2, <1>3, <2>4
<1> QED BY <1>3, <1>4

\* The rows of some hours, added up.
LEMMA HoursCount ==
    ASSUME NEW s \in Seq(Post), NEW hs, IsFiniteSet(hs), NEW these, NEW f,
           \A h \in hs : f[h] = Cardinality(Posts(s, {h}, these))
    PROVE  SumOf(f, hs) = Cardinality(Posts(s, hs, these))
<1> DEFINE A == [h \in hs |-> Posts(s, {h}, these)]
           U == Posts(s, hs, these)
<1>1. \A h \in hs : A[h] = Posts(s, {h}, these)
  OBVIOUS
<1>2. \A h \in hs : \A i : i \in A[h] <=> i \in U /\ s[i].at = h
  BY <1>1 DEF Posts
<1>3. \A i \in U : s[i].at \in hs
  BY DEF Posts
<1>4. \A h \in hs : IsFiniteSet(A[h]) /\ f[h] = Cardinality(A[h])
  BY <1>1, PostsTyped
<1> HIDE DEF A, U
<1>5. \A h, k \in hs : \A i \in A[h] : i \in A[k] => h = k
  BY <1>2
<1>6. (\A i \in U : \E h \in hs : i \in A[h]) /\ (\A h \in hs : A[h] \subseteq U)
  BY <1>2, <1>3
<1>7. Classes(hs, A, U)
  BY <1>4, <1>5, <1>6 DEF Classes
<1>8. SumOf(f, hs) = Cardinality(U)
  BY <1>4, <1>7, SumOfCounts
<1> QED BY <1>8 DEF U

LEMMA HoursPay ==
    ASSUME NEW s \in Seq(Post), NEW hs, IsFiniteSet(hs), NEW f,
           \A h \in hs : f[h] = SumOf(FeeAt(s), Posts(s, {h}, Stats!Paid))
    PROVE  SumOf(f, hs) = SumOf(FeeAt(s), Posts(s, hs, Stats!Paid))
<1> DEFINE A == [h \in hs |-> Posts(s, {h}, Stats!Paid)]
           U == Posts(s, hs, Stats!Paid)
           w == FeeAt(s)
<1>1. \A h \in hs : A[h] = Posts(s, {h}, Stats!Paid)
  OBVIOUS
<1>2. \A h \in hs : \A i : i \in A[h] <=> i \in U /\ s[i].at = h
  BY <1>1 DEF Posts
<1>3. \A i \in U : s[i].at \in hs
  BY DEF Posts
<1>4. \A h \in hs : IsFiniteSet(A[h]) /\ f[h] = SumOf(w, A[h])
  BY <1>1, PostsTyped
<1>5. \A i \in U : w[i] \in Nat
  BY PaidQuote
<1> HIDE DEF A, U, w
<1>6. \A h, k \in hs : \A i \in A[h] : i \in A[k] => h = k
  BY <1>2
<1>7. (\A i \in U : \E h \in hs : i \in A[h]) /\ (\A h \in hs : A[h] \subseteq U)
  BY <1>2, <1>3
<1>8. Classes(hs, A, U)
  BY <1>4, <1>6, <1>7 DEF Classes
<1>9. SumOf(f, hs) = SumOf(w, U)
  BY <1>4, <1>5, <1>8, SumOfSums
<1> QED BY <1>9 DEF U, w

LEMMA LeastMember ==
    ASSUME NEW F, NEW m \in F, m \in Nat, \A x \in F : x \in Nat /\ m <= x PROVE Stats!Min(F) = m
<1>1. \A y \in F : (\A x \in F : y <= x) => y = m
  OBVIOUS
<1> QED BY <1>1 DEF Stats!Min

LEMMA GreatestMember ==
    ASSUME NEW F, NEW m \in F, m \in Nat, \A x \in F : x \in Nat /\ x <= m PROVE Stats!Max(F) = m
<1>1. \A x \in F : m >= x
  OBVIOUS
<1>2. \A y \in F : (\A x \in F : y >= x) => y = m
  OBVIOUS
<1> QED BY <1>1, <1>2 DEF Stats!Max

\* The fees of some hours are those of each.
LEMMA HoursFees ==
    ASSUME NEW s \in Seq(Post), NEW hs
    PROVE  LET F == FeesIn(s, Posts(s, hs, Stats!Paid)) IN
           /\ \A x \in F : x \in Nat
           /\ \A h \in hs : \A x \in FeesIn(s, Posts(s, {h}, Stats!Paid)) : x \in F
           /\ \A x \in F : \E h \in hs : x \in FeesIn(s, Posts(s, {h}, Stats!Paid))
<1> DEFINE U == Posts(s, hs, Stats!Paid)
           A(h) == Posts(s, {h}, Stats!Paid)
           w == FeeAt(s)
<1>1. \A h \in hs : \A i : i \in A(h) <=> i \in U /\ s[i].at = h
  BY DEF Posts
<1>2. \A i \in U : s[i].at \in hs
  BY DEF Posts
<1>3. \A i \in U : w[i] \in Nat
  BY PaidQuote
<1> HIDE DEF U, A, w
<1>4. FeesIn(s, U) = {w[i] : i \in U} /\ \A h : FeesIn(s, A(h)) = {w[i] : i \in A(h)}
  BY DEF FeesIn, w
<1>5. \A x \in FeesIn(s, U) : x \in Nat
  BY <1>3, <1>4
<1>6. \A h \in hs : \A x \in FeesIn(s, A(h)) : x \in FeesIn(s, U)
  BY <1>1, <1>4
<1>7. ASSUME NEW x \in FeesIn(s, U) PROVE \E h \in hs : x \in FeesIn(s, A(h))
  <2>1. PICK i \in U : x = w[i]
    BY <1>4
  <2>2. s[i].at \in hs /\ i \in A(s[i].at)
    BY <1>1, <1>2
  <2>3. x \in FeesIn(s, A(s[i].at))
    BY <1>4, <2>1, <2>2
  <2> QED BY <2>2, <2>3
<1> QED BY <1>5, <1>6, <1>7 DEF U, A

Image(f, S) == {f[x] : x \in S}

\* The extremes of some hours are those of the rows.
LEMMA HoursLeast ==
    ASSUME NEW s \in Seq(Post), NEW hs, NEW f,
           \A h \in hs : IsLeast(f[h], FeesIn(s, Posts(s, {h}, Stats!Paid))),
           NEW M, M = Image(f, hs),
           NEW F, F = FeesIn(s, Posts(s, hs, Stats!Paid)), F # {}
    PROVE  Stats!Least(M) = Stats!Min(F) /\ Stats!Least(M) # None
<1>0. \A x : x \in M <=> \E h \in hs : x = f[h]
  BY DEF Image
<1>1. /\ \A x \in F : x \in Nat
      /\ \A h \in hs : \A x \in FeesIn(s, Posts(s, {h}, Stats!Paid)) : x \in F
      /\ \A x \in F : \E h \in hs : x \in FeesIn(s, Posts(s, {h}, Stats!Paid))
  BY HoursFees
<1>2. PICK m \in F : \A x \in F : m <= x
  BY <1>1, LeastOne
<1>3. m \in Nat /\ Stats!Min(F) = m
  BY <1>1, <1>2, LeastMember
<1>4. \A x \in M : x = None \/ (x \in Nat /\ m <= x)
  <2> SUFFICES ASSUME NEW h \in hs PROVE f[h] = None \/ (f[h] \in Nat /\ m <= f[h])
    BY <1>0
  <2>1. f[h] = None \/ f[h] \in FeesIn(s, Posts(s, {h}, Stats!Paid))
    BY DEF IsLeast
  <2> QED BY <1>1, <1>2, <2>1
<1>5. m \in M
  <2>1. PICK h \in hs : m \in FeesIn(s, Posts(s, {h}, Stats!Paid))
    BY <1>1
  <2>2. f[h] \in FeesIn(s, Posts(s, {h}, Stats!Paid)) /\ f[h] <= m /\ f[h] \in Nat
    BY <2>1 DEF IsLeast
  <2>3. m <= f[h]
    BY <1>1, <1>2, <2>2
  <2>4. m = f[h]
    BY <1>3, <2>2, <2>3
  <2> QED BY <1>0, <2>4
<1>6. Stats!Least(M) = m
  BY <1>3, <1>4, <1>5, LeastIs
<1> QED BY <1>3, <1>6, NoneAssumption

LEMMA HoursGreatest ==
    ASSUME NEW s \in Seq(Post), NEW hs, NEW f,
           \A h \in hs : IsGreatest(f[h], FeesIn(s, Posts(s, {h}, Stats!Paid))),
           NEW M, M = Image(f, hs),
           NEW F, F = FeesIn(s, Posts(s, hs, Stats!Paid)), F # {}
    PROVE  Stats!Greatest(M) = Stats!Max(F) /\ Stats!Greatest(M) # None
<1>0. \A x : x \in M <=> \E h \in hs : x = f[h]
  BY DEF Image
<1>1. /\ \A x \in F : x \in Nat
      /\ \A h \in hs : \A x \in FeesIn(s, Posts(s, {h}, Stats!Paid)) : x \in F
      /\ \A x \in F : \E h \in hs : x \in FeesIn(s, Posts(s, {h}, Stats!Paid))
  BY HoursFees
<1>2. PICK m \in F : \A x \in F : x <= m
  <2> DEFINE P == Posts(s, hs, Stats!Paid)
             w == FeeAt(s)
             k == SumOf(w, P)
  <2>1. IsFiniteSet(P) /\ \A i \in P : w[i] \in Nat
    BY PostsTyped, PaidQuote
  <2>2. F = {w[i] : i \in P}
    BY DEF FeesIn
  <2> HIDE DEF P, w
  <2>3. \A i \in P : w[i] <= k /\ k \in Nat
    BY <2>1, SumBounds
  <2> HIDE DEF k
  <2>4. k \in Nat /\ \A x \in F : x <= k
    BY <2>2, <2>3
  <2> QED BY <1>1, <2>4, GreatestOne
<1>3. m \in Nat /\ Stats!Max(F) = m
  BY <1>1, <1>2, GreatestMember
<1>4. \A x \in M : x = None \/ (x \in Nat /\ x <= m)
  <2> SUFFICES ASSUME NEW h \in hs PROVE f[h] = None \/ (f[h] \in Nat /\ f[h] <= m)
    BY <1>0
  <2>1. f[h] = None \/ f[h] \in FeesIn(s, Posts(s, {h}, Stats!Paid))
    BY DEF IsGreatest
  <2> QED BY <1>1, <1>2, <2>1
<1>5. m \in M
  <2>1. PICK h \in hs : m \in FeesIn(s, Posts(s, {h}, Stats!Paid))
    BY <1>1
  <2>2. f[h] \in FeesIn(s, Posts(s, {h}, Stats!Paid)) /\ m <= f[h] /\ f[h] \in Nat
    BY <2>1 DEF IsGreatest
  <2>3. f[h] <= m
    BY <1>1, <1>2, <2>2
  <2>4. m = f[h]
    BY <1>3, <2>2, <2>3
  <2> QED BY <1>0, <2>4
<1>6. Stats!Greatest(M) = m
  BY <1>3, <1>4, <1>5, GreatestIs
<1> QED BY <1>3, <1>6, NoneAssumption

\* The hours of a day that have come are within the window, and the day has a row.
LEMMA Division ==
    ASSUME NEW n \in Nat, NEW m \in Nat, m <= n, NEW k \in Nat, k > 0
    PROVE  /\ n \div k \in Nat /\ m \div k \in Nat /\ m \div k <= n \div k
           /\ m \div k = n \div k => n - (k - 1) <= m
OBVIOUS

\* Both windows are within reach.
LEMMA WindowsKept ==
    ASSUME hour \in Stats!Hours, NEW hs, hs = Stats!Window \/ hs = Stats!PreviousWindow
    PROVE  IsFiniteSet(hs) /\ \A h \in hs : h \in Stats!Hours /\ Stats!Kept(h)
<1>1. DayHours \in Nat /\ DayHours > 0 /\ MaxHour \in Nat /\ hour \in Nat
  BY StatsAssumption DEF Stats!Hours
<1>2. hs \subseteq 0..MaxHour
  BY DEF Stats!Window, Stats!PreviousWindow, Stats!HoursOf, Stats!Hours
<1>3. IsFiniteSet(0..MaxHour)
  <2>1. 0 \in Int /\ MaxHour \in Int
    BY <1>1
  <2> QED BY <2>1, FS_Interval
<1>4. IsFiniteSet(hs)
  BY <1>2, <1>3, FS_Subset
<1>5. ASSUME NEW h \in hs PROVE h \in Stats!Hours /\ Stats!Kept(h)
  <2>1. h \in Nat /\ h \in Stats!Hours
    BY <1>1, <1>2 DEF Stats!Hours
  <2>2. hour - (DayHours - 1) <= h \/ hour - (2 * DayHours - 1) <= h
    BY DEF Stats!Window, Stats!PreviousWindow, Stats!HoursOf
  <2>3. h >= hour - 2 * DayHours
    BY <1>1, <2>1, <2>2
  <2> QED BY <2>1, <2>3 DEF Stats!Kept
<1> QED BY <1>4, <1>5

\* Posts that succeeded, posts whose error is the client's, and the rest.
LEMMA Outcomes ==
    ASSUME NEW s \in Seq(Post), NEW hs
    PROVE  Cardinality(Posts(s, hs, Entries \ (Stats!Succeeded \cup Stats!ClientErrors)))
             = (Cardinality(Posts(s, hs, Entries)) - Cardinality(Posts(s, hs, Stats!Succeeded)))
               - Cardinality(Posts(s, hs, Stats!ClientErrors))
<1> DEFINE these == Entries \ (Stats!Succeeded \cup Stats!ClientErrors)
           E == Posts(s, hs, Entries)
           S == Posts(s, hs, Stats!Succeeded)
           C == Posts(s, hs, Stats!ClientErrors)
           R == Posts(s, hs, these)
<1>1. /\ IsFiniteSet(E) /\ IsFiniteSet(S) /\ IsFiniteSet(C) /\ IsFiniteSet(R)
      /\ Cardinality(E) \in Nat /\ Cardinality(S) \in Nat /\ Cardinality(C) \in Nat /\ Cardinality(R) \in Nat
  BY PostsTyped
<1>2. \A e \in Entries : \/ e \in Stats!Succeeded /\ e \notin Stats!ClientErrors /\ e \notin these
                         \/ e \notin Stats!Succeeded /\ e \in Stats!ClientErrors /\ e \notin these
                         \/ e \notin Stats!Succeeded /\ e \notin Stats!ClientErrors /\ e \in these
  BY StatsAssumption, EntriesTyped
<1>3. \A e : e \in Stats!Succeeded \/ e \in Stats!ClientErrors \/ e \in these => e \in Entries
  BY EntriesTyped
<1> HIDE DEF these
<1>4. S \cap C = {} /\ R \cap (S \cup C) = {} /\ E = R \cup (S \cup C)
  BY <1>2, <1>3 DEF Posts
<1> HIDE DEF E, S, C, R
<1>5. Cardinality({}) = 0
  BY FS_EmptySet
<1>6. IsFiniteSet(S \cup C) /\ Cardinality(S \cup C) = Cardinality(S) + Cardinality(C) - Cardinality(S \cap C)
  BY <1>1, FS_Union
<1>7. Cardinality(R \cup (S \cup C))
        = Cardinality(R) + Cardinality(S \cup C) - Cardinality(R \cap (S \cup C))
  BY <1>1, <1>6, FS_Union
<1>8. Cardinality(E) = Cardinality(R) + (Cardinality(S) + Cardinality(C) - 0) - 0
  BY <1>4, <1>5, <1>6, <1>7, Zenon
<1>9. Cardinality(R) = (Cardinality(E) - Cardinality(S)) - Cardinality(C)
  BY <1>1, <1>8
<1> QED BY <1>9 DEF these, E, S, C, R

\* What the rows of a window say, added up.
LEMMA WindowCounts ==
    ASSUME StatsInv, NEW hs, hs = Stats!Window \/ hs = Stats!PreviousWindow,
           NEW F, F = FeesIn(told, Posts(told, hs, Stats!Paid))
    PROVE  LET r == Stats!Rolling(hs) IN
           /\ r.total = Cardinality(Posts(told, hs, Entries))
           /\ r.success = Cardinality(Posts(told, hs, Stats!Succeeded))
           /\ r.clientErrors = Cardinality(Posts(told, hs, Stats!ClientErrors))
           /\ r.fees = SumOf(FeeAt(told), Posts(told, hs, Stats!Paid))
           /\ F # {} => /\ r.min = Stats!Min(F) /\ r.min # None
                        /\ r.max = Stats!Max(F) /\ r.max # None
<1> DEFINE total == [h \in hs |-> hourly[h].total]
           success == [h \in hs |-> hourly[h].success]
           client == [h \in hs |-> hourly[h].clientErrors]
           fees == [h \in hs |-> hourly[h].fees.total]
           low == [h \in hs |-> hourly[h].fees.min]
           high == [h \in hs |-> hourly[h].fees.max]
           Low == {hourly[h].fees.min : h \in hs}
           High == {hourly[h].fees.max : h \in hs}
           r == Stats!Rolling(hs)
<1>1. /\ hour \in Stats!Hours /\ told \in Seq(Post)
      /\ \A h \in Stats!Hours : Stats!Kept(h) => HourAgrees(hourly[h], told, h)
  BY DEF StatsInv
<1>2. IsFiniteSet(hs) /\ \A h \in hs : HourAgrees(hourly[h], told, h)
  BY <1>1, WindowsKept
<1>3. \A h \in hs : /\ total[h] = Cardinality(Posts(told, {h}, Entries))
                    /\ success[h] = Cardinality(Posts(told, {h}, Stats!Succeeded))
                    /\ client[h] = Cardinality(Posts(told, {h}, Stats!ClientErrors))
                    /\ fees[h] = SumOf(FeeAt(told), Posts(told, {h}, Stats!Paid))
                    /\ IsLeast(low[h], FeesIn(told, Posts(told, {h}, Stats!Paid)))
                    /\ IsGreatest(high[h], FeesIn(told, Posts(told, {h}, Stats!Paid)))
  BY <1>2 DEF HourAgrees
<1>4. Low = Image(low, hs) /\ High = Image(high, hs)
  BY DEF Image
<1>5. /\ r.total = SumOf(total, hs) /\ r.success = SumOf(success, hs) /\ r.clientErrors = SumOf(client, hs)
      /\ r.fees = SumOf(fees, hs)
      /\ r.min = Stats!Least(Low) /\ r.max = Stats!Greatest(High)
  BY SameSum DEF Stats!Rolling
<1> HIDE DEF total, success, client, fees, low, high, Low, High, r
<1>6. SumOf(total, hs) = Cardinality(Posts(told, hs, Entries))
  <2>1. \A h \in hs : total[h] = Cardinality(Posts(told, {h}, Entries))
    BY <1>3
  <2> QED BY <1>1, <1>2, <2>1, HoursCount
<1>7. SumOf(success, hs) = Cardinality(Posts(told, hs, Stats!Succeeded))
  <2>1. \A h \in hs : success[h] = Cardinality(Posts(told, {h}, Stats!Succeeded))
    BY <1>3
  <2> QED BY <1>1, <1>2, <2>1, HoursCount
<1>8. SumOf(client, hs) = Cardinality(Posts(told, hs, Stats!ClientErrors))
  <2>1. \A h \in hs : client[h] = Cardinality(Posts(told, {h}, Stats!ClientErrors))
    BY <1>3
  <2> QED BY <1>1, <1>2, <2>1, HoursCount
<1>9. SumOf(fees, hs) = SumOf(FeeAt(told), Posts(told, hs, Stats!Paid))
  BY <1>1, <1>2, <1>3, HoursPay
<1>10. F # {} => Stats!Least(Low) = Stats!Min(F) /\ Stats!Least(Low) # None
  <2>1. \A h \in hs : IsLeast(low[h], FeesIn(told, Posts(told, {h}, Stats!Paid)))
    BY <1>3
  <2> QED BY <1>1, <1>4, <2>1, HoursLeast
<1>11. F # {} => Stats!Greatest(High) = Stats!Max(F) /\ Stats!Greatest(High) # None
  <2>1. \A h \in hs : IsGreatest(high[h], FeesIn(told, Posts(told, {h}, Stats!Paid)))
    BY <1>3
  <2> QED BY <1>1, <1>4, <2>1, HoursGreatest
<1> QED BY <1>5, <1>6, <1>7, <1>8, <1>9, <1>10, <1>11 DEF r

\* The overview adds up the rows of both windows; the row of the day, which
\* stands in for a window without fees, has none then.
LEMMA StatsCounts == StatsInv => Stats!OverviewCountsAll
<1> SUFFICES ASSUME StatsInv PROVE Stats!OverviewCountsAll
  OBVIOUS
<1> DEFINE W == Stats!Window
           V == Stats!PreviousWindow
           r == Stats!Rolling(W)
           o == Stats!Overview
           paid == Posts(told, W, Stats!Paid)
           F == FeesIn(told, paid)
<1>1. /\ hour \in Stats!Hours /\ told \in Seq(Post) /\ hour \in Nat /\ DayHours \in Nat /\ DayHours > 0
      /\ MaxHour \in Nat
  BY StatsAssumption DEF StatsInv, Stats!Hours
<1>2. /\ r.total = Cardinality(Posts(told, W, Entries))
      /\ r.success = Cardinality(Posts(told, W, Stats!Succeeded))
      /\ r.clientErrors = Cardinality(Posts(told, W, Stats!ClientErrors))
      /\ r.fees = SumOf(FeeAt(told), paid)
      /\ F # {} => /\ r.min = Stats!Min(F) /\ r.min # None
                   /\ r.max = Stats!Max(F) /\ r.max # None
  BY WindowCounts
<1>3. Stats!Rolling(V).total = Cardinality(Posts(told, V, Entries))
  BY WindowCounts
<1>4. IsFiniteSet(paid) /\ (\A i \in paid : FeeAt(told)[i] \in Nat)
  BY <1>1, PostsTyped, PaidQuote
<1>5. r.fees = 0 => Stats!Today.fees.total = 0
  <2> SUFFICES ASSUME r.fees = 0 PROVE Stats!Today.fees.total = 0
    OBVIOUS
  <2>1. \A i \in paid : FeeAt(told)[i] = 0
    BY <1>2, <1>4, SumIsZero
  <2>2. Stats!Day(hour) \in Stats!Days
    BY <1>1, Division DEF Stats!Day, Stats!Days, Stats!Hours
  <2>3. ASSUME NEW i \in 1..Len(told), Stats!Day(told[i].at) = Stats!Day(hour), told[i].entry \in Stats!Paid
        PROVE  told[i].entry.fee = 0
    <3>1. told[i] \in Post /\ told[i].at <= hour
      BY <1>1 DEF StatsInv
    <3>2. told[i].at \in Stats!Hours /\ told[i].at \in Nat
      BY <1>1, <3>1 DEF Post, Stats!Hours
    <3>3. hour - (DayHours - 1) <= told[i].at
      BY <1>1, <2>3, <3>1, <3>2, Division DEF Stats!Day
    <3>4. told[i].at \in W
      BY <3>1, <3>2, <3>3 DEF Stats!Window, Stats!HoursOf
    <3>5. i \in paid
      BY <2>3, <3>4 DEF Posts
    <3>6. FeeAt(told)[i] = told[i].entry.fee
      BY <1>1, <3>5, PostsTyped
    <3> QED BY <2>1, <3>5, <3>6
  <2>4. ZeroPaid(Stats!Day(hour))
    BY <2>3 DEF ZeroPaid
  <2> QED BY <2>2, <2>4 DEF StatsInv, Stats!Today
<1>6. /\ o.total = r.total /\ o.success = r.success
      /\ o.relayErrors = (r.total - r.success) - r.clientErrors
      /\ o.fees = (IF r.fees > 0 THEN r.fees ELSE Stats!Today.fees.total)
      /\ o.min = (IF r.min # None THEN r.min ELSE Stats!Today.fees.min)
      /\ o.max = (IF r.max # None THEN r.max ELSE Stats!Today.fees.max)
      /\ o.previousTotal = Stats!Rolling(V).total
  BY DEF Stats!Overview
<1>7. \A hs, these : Stats!ToldIn(hs, these) = Posts(told, hs, these)
  BY DEF Stats!ToldIn, Posts
<1>8. o.fees = Stats!SumOf([i \in paid |-> told[i].entry.fee], paid)
  <2> DEFINE f == [i \in paid |-> told[i].entry.fee]
  <2>1. \A i \in paid : f[i] = FeeAt(told)[i]
    BY <1>1, PostsTyped
  <2> HIDE DEF f, paid
  <2>2. Stats!SumOf(f, paid) = r.fees
    BY <1>2, <2>1, SameSum, SumSame
  <2>3. r.fees \in Nat
    BY <1>2, <1>4, UnitsFinite
  <2> QED BY <1>5, <1>6, <2>2, <2>3 DEF f
<1>9. {told[i].entry.fee : i \in paid} = F
  <2>1. \A i \in paid : told[i].entry.fee = FeeAt(told)[i]
    BY <1>1, PostsTyped
  <2> HIDE DEF paid
  <2> QED BY <2>1 DEF FeesIn
<1>10. paid # {} => F # {}
  BY DEF FeesIn
<1>11. /\ o.relayErrors
            = Cardinality(Posts(told, W, Entries \ (Stats!Succeeded \cup Stats!ClientErrors)))
  BY <1>1, <1>2, <1>6, Outcomes
<1> HIDE DEF W, V, r, o, paid, F
<1>12. paid # {} => o.min = Stats!Min(F) /\ o.max = Stats!Max(F)
  BY <1>2, <1>6, <1>10
<1> QED BY <1>2, <1>3, <1>6, <1>7, <1>8, <1>9, <1>11, <1>12, SameCount
     DEF Stats!OverviewCountsAll, W, V, o, paid

--------------------------------------------------------------------------------
(* The sender nonce cache. *)

\* What an entry says is so: its last seen nonce was broadcast, its last
\* confirmed one executed.
TrueEntry(e) ==
    /\ e \in Sender!Entry
    /\ e.seen \in broadcast \cup {-1} /\ e.confirmed <= executed

SenderInv ==
    /\ Sender!TypeOK
    /\ \A n \in 0 .. executed : n \in broadcast
    /\ known # None => TrueEntry(known)
    /\ \A s \in Submissions :
         /\ TrueEntry(sub[s].entry)
         /\ sub[s].pc \in {"clear", "note"} => sub[s].nonce \in broadcast
         /\ sub[s].pc \in {"mark", "queued"} => sub[s].answer = "admitted"
         /\ sub[s].pc \in {"idle", "marker", "check", "seed", "putSeed"} => sub[s].answer = "none"
    /\ \A h \in Hooks : hook[h] # None => TrueEntry(hook[h])
    /\ \A n \in inFlight : \E r \in Submissions : sub[r].nonce = n /\ sub[r].answer = "admitted"
    /\ Sender!RefusalsTruthful

\* Nothing is known of the sender at first.
LEMMA NothingTyped == Sender!Nothing \in Sender!Entry /\ None \notin Sender!Entry
BY NonceAssumption, NoneAssumption DEF Sender!Nothing, Sender!Entry

LEMMA InitSender == Sender!Init => SenderInv
<1> SUFFICES ASSUME Sender!Init PROVE SenderInv
  OBVIOUS
<1>1. Sender!Fresh \in Sender!Submission
  BY NothingTyped, NonceAssumption DEF Sender!Fresh, Sender!Submission, Sender!Answers, Sender!Nonces
<1>2. /\ sub = [s \in Submissions |-> Sender!Fresh] /\ hook = [h \in Hooks |-> None]
      /\ known = None /\ inFlight = {} /\ broadcast = {} /\ executed = -1
  BY DEF Sender!Init
<1>3. Sender!TypeOK
  BY <1>1, <1>2, NonceAssumption DEF Sender!TypeOK
<1>4. \A s \in Submissions : sub[s].answer = "none" /\ sub[s].pc = "idle" /\ sub[s].entry = Sender!Nothing
  BY <1>2 DEF Sender!Fresh
<1>5. TrueEntry(Sender!Nothing)
  BY <1>2, NothingTyped DEF TrueEntry, Sender!Nothing
<1> QED BY <1>2, <1>3, <1>4, <1>5 DEF SenderInv, Sender!RefusalsTruthful

\* The larger of two.
LEMMA LargerIs ==
    ASSUME NEW a \in Int, NEW b \in Int
    PROVE  Sender!Max({a, b}) = IF a >= b THEN a ELSE b
<1> DEFINE S == {a, b}
           m == IF a >= b THEN a ELSE b
<1>1. m \in S /\ \A x \in S : m >= x
  OBVIOUS
<1>2. \A y \in S : (\A x \in S : y >= x) => y = m
  OBVIOUS
<1> QED BY <1>1, <1>2 DEF Sender!Max

LEMMA LargestIs ==
    ASSUME NEW a \in Int, NEW b \in Int, NEW c \in Int
    PROVE  Sender!Max({a, b, c}) = LET m == IF a >= b THEN a ELSE b IN IF m >= c THEN m ELSE c
<1> DEFINE S == {a, b, c}
           m == IF a >= b THEN a ELSE b
           k == IF m >= c THEN m ELSE c
<1>1. k \in S /\ \A x \in S : k >= x
  OBVIOUS
<1>2. \A y \in S : (\A x \in S : y >= x) => y = k
  OBVIOUS
<1> QED BY <1>1, <1>2 DEF Sender!Max

\* What the three make of a true entry is true.
LEMMA RaisedTrue ==
    ASSUME SenderInv, NEW e, TrueEntry(e)
    PROVE  /\ \A n \in broadcast : TrueEntry(Sender!Noted(e, n))
           /\ \A n \in 0 .. executed : TrueEntry(Sender!Mined(e, n))
           /\ \A a \in Sender!HiroAnswers : TrueEntry(Sender!Seeded(e, a))
<1>1. /\ e \in [seen : -1 .. MaxNonce, confirmed : -1 .. MaxNonce]
      /\ e.seen \in broadcast \cup {-1} /\ e.confirmed <= executed
      /\ broadcast \subseteq 0 .. MaxNonce /\ executed \in -1 .. MaxNonce /\ MaxNonce \in Nat
      /\ \A n \in 0 .. executed : n \in broadcast
  BY NonceAssumption DEF SenderInv, TrueEntry, Sender!TypeOK, Sender!Entry, Sender!Nonces
<1>2. ASSUME NEW n \in broadcast PROVE TrueEntry(Sender!Noted(e, n))
  <2>1. Sender!Max({e.seen, n}) = IF e.seen >= n THEN e.seen ELSE n
    BY <1>1, LargerIs
  <2>2. Sender!Noted(e, n) = [e EXCEPT !.seen = IF e.seen >= n THEN e.seen ELSE n]
    BY <2>1 DEF Sender!Noted
  <2> QED BY <1>1, <2>2 DEF TrueEntry, Sender!Entry
<1>3. ASSUME NEW n \in 0 .. executed PROVE TrueEntry(Sender!Mined(e, n))
  <2>1. /\ Sender!Max({e.seen, n}) = IF e.seen >= n THEN e.seen ELSE n
        /\ Sender!Max({e.confirmed, n}) = IF e.confirmed >= n THEN e.confirmed ELSE n
    BY <1>1, LargerIs
  <2> DEFINE x == Sender!Mined(e, n)
  <2>2. x = [seen |-> IF e.seen >= n THEN e.seen ELSE n,
             confirmed |-> IF e.confirmed >= n THEN e.confirmed ELSE n]
    BY <2>1 DEF Sender!Mined
  <2>3. x \in [seen : -1 .. MaxNonce, confirmed : -1 .. MaxNonce] /\ x.confirmed <= executed
    BY <1>1, <2>2
  <2>4. x.seen \in broadcast \cup {-1}
    BY <1>1, <2>2
  <2> HIDE DEF x
  <2> QED BY <2>3, <2>4 DEF TrueEntry, Sender!Entry, x
<1>4. ASSUME NEW a \in Sender!HiroAnswers PROVE TrueEntry(Sender!Seeded(e, a))
  <2>1. /\ a.executed \in -1 .. executed /\ a.next - 1 \in broadcast \cup {-1}
        /\ a.next - 1 \in Int
    BY <1>1 DEF Sender!HiroAnswers
  <2> DEFINE c == IF e.confirmed >= a.executed THEN e.confirmed ELSE a.executed
             m == IF e.seen >= c THEN e.seen ELSE c
             k == IF m >= a.next - 1 THEN m ELSE a.next - 1
             x == Sender!Seeded(e, a)
  <2>2. Sender!Max({e.confirmed, a.executed}) = c /\ c \in -1 .. executed
    BY <1>1, <2>1, LargerIs
  <2>3. Sender!Max({e.seen, c, a.next - 1}) = k
    BY <1>1, <2>1, <2>2, LargestIs
  <2>4. x = [seen |-> k, confirmed |-> c]
    BY <2>2, <2>3 DEF Sender!Seeded
  <2>5. c \in broadcast \cup {-1}
    BY <1>1, <2>2
  <2> HIDE DEF c
  <2>6. m \in broadcast \cup {-1}
    BY <1>1, <2>5
  <2> HIDE DEF m
  <2>7. k \in broadcast \cup {-1}
    BY <2>1, <2>6
  <2> HIDE DEF k
  <2>8. k \in -1 .. MaxNonce /\ c \in -1 .. MaxNonce /\ c <= executed
    BY <1>1, <2>2, <2>7
  <2>9. x.seen = k /\ x.confirmed = c /\ x \in [seen : -1 .. MaxNonce, confirmed : -1 .. MaxNonce]
    BY <2>4, <2>8
  <2> HIDE DEF x
  <2> QED BY <2>7, <2>8, <2>9 DEF TrueEntry, Sender!Entry, x
<1> QED BY <1>2, <1>3, <1>4

LEMMA ExistingTrue == ASSUME SenderInv PROVE TrueEntry(Sender!Existing)
<1>1. TrueEntry(Sender!Nothing)
  BY NothingTyped DEF SenderInv, TrueEntry, Sender!TypeOK, Sender!Nothing
<1> QED BY <1>1 DEF SenderInv, Sender!Existing

\* Only submission s is another, and is as x.
Becomes(s, x) ==
    /\ x \in Sender!Submission
    /\ sub' \in [Submissions -> Sender!Submission]
    /\ sub'[s] = x /\ \A r \in Submissions \ {s} : sub'[r] = sub[r]

\* A step of submission s after which it is as x.
LEMMA SubmissionStep ==
    ASSUME SenderInv, NEW s \in Submissions, NEW x, Becomes(s, x), UNCHANGED <<hook, executed>>,
           broadcast' = broadcast \/ (x.nonce \in Sender!Nonces /\ broadcast' = broadcast \cup {x.nonce}),
           known' = known \/ known' = sub[s].entry,
           inFlight' \subseteq inFlight \/ (x.answer = "admitted" /\ inFlight' = inFlight \cup {x.nonce}),
           TrueEntry(x.entry),
           x.nonce = sub[s].nonce \/ (sub[s].answer = "none" /\ x.answer = "none"),
           \/ x.answer = sub[s].answer
           \/ /\ sub[s].answer = "none"
              /\ \/ x.answer = "admitted"
                 \/ x.answer = "stale" /\ x.nonce <= executed
                 \/ x.answer = "duplicate" /\ x.nonce \in broadcast
                 \/ x.answer = "inFlight" /\ \E n \in broadcast : n > x.nonce
                 \/ x.answer = "marked" /\ x.nonce \in inFlight,
           x.pc \in {"clear", "note"} => x.nonce \in broadcast',
           x.pc \in {"mark", "queued"} => x.answer = "admitted",
           x.pc \in {"idle", "marker", "check", "seed", "putSeed"} => x.answer = "none"
    PROVE  SenderInv'
<1> USE DEF Sender!Nonces
<1>1. /\ sub \in [Submissions -> Sender!Submission]
      /\ sub' \in [Submissions -> Sender!Submission]
      /\ sub'[s] = x /\ \A r \in Submissions \ {s} : sub'[r] = sub[r]
  BY DEF SenderInv, Sender!TypeOK, Becomes
<1>2. x.nonce \in Sender!Nonces /\ sub[s].entry \in Sender!Entry
  BY <1>1 DEF Sender!Submission
<1>3. broadcast \subseteq broadcast' /\ broadcast' \subseteq Sender!Nonces /\ inFlight' \subseteq Sender!Nonces
  BY <1>2 DEF SenderInv, Sender!TypeOK
<1>4. Sender!TypeOK'
  BY <1>1, <1>2, <1>3 DEF SenderInv, Sender!TypeOK
<1>5. \A e : TrueEntry(e) => e \in Sender!Entry /\ e.seen \in broadcast' \cup {-1} /\ e.confirmed <= executed'
  BY <1>3 DEF TrueEntry
<1>6. known' # None => TrueEntry(known)'
  BY <1>5 DEF SenderInv, TrueEntry
<1>7. ASSUME NEW r \in Submissions
      PROVE  /\ TrueEntry(sub[r].entry)'
             /\ sub'[r].pc \in {"clear", "note"} => sub'[r].nonce \in broadcast'
             /\ sub'[r].pc \in {"mark", "queued"} => sub'[r].answer = "admitted"
             /\ sub'[r].pc \in {"idle", "marker", "check", "seed", "putSeed"} => sub'[r].answer = "none"
  BY <1>1, <1>3, <1>5 DEF SenderInv, TrueEntry
<1>8. \A h \in Hooks : hook'[h] # None => TrueEntry(hook[h])'
  BY <1>5 DEF SenderInv, TrueEntry
\* Who was let in stays so, with its nonce.
<1>9. \A r \in Submissions : sub[r].answer = "admitted" =>
          sub'[r].answer = "admitted" /\ sub'[r].nonce = sub[r].nonce
  BY <1>1
<1>10. \A n \in inFlight' : \E r \in Submissions : sub'[r].nonce = n /\ sub'[r].answer = "admitted"
  BY <1>1, <1>9 DEF SenderInv
<1>11. Sender!RefusalsTruthful'
  <2> SUFFICES ASSUME NEW r \in Submissions
               PROVE  /\ sub'[r].answer = "stale" => sub'[r].nonce <= executed'
                      /\ sub'[r].answer = "duplicate" => sub'[r].nonce \in broadcast'
                      /\ sub'[r].answer = "inFlight" => \E n \in broadcast' : n > sub'[r].nonce
                      /\ sub'[r].answer = "marked" =>
                           \E q \in Submissions \ {r} :
                              sub'[q].nonce = sub'[r].nonce /\ sub'[q].answer = "admitted"
    BY DEF Sender!RefusalsTruthful
  <2>1. CASE sub'[r].answer = sub[r].answer /\ sub'[r].nonce = sub[r].nonce
    BY <1>3, <1>9, <2>1 DEF SenderInv, Sender!RefusalsTruthful
  <2>2. CASE r = s /\ x.answer = "none"
    BY <1>1, <2>2
  <2>3. CASE r = s /\ x.answer # sub[s].answer
    <3>1. x.answer # "marked" \/ (sub[s].answer = "none" /\ x.nonce \in inFlight)
      BY <2>3
    <3>2. x.answer = "marked" => \E q \in Submissions \ {s} : sub'[q].nonce = x.nonce /\ sub'[q].answer = "admitted"
      BY <1>9, <3>1 DEF SenderInv
    <3> QED BY <1>1, <1>3, <2>3, <3>2
  <2> QED BY <1>1, <2>1, <2>2, <2>3
<1> QED BY <1>4, <1>6, <1>7, <1>8, <1>10, <1>11, <1>3 DEF SenderInv, Sender!TypeOK

\* A step of none: what was broadcast, executed, let in stays so.
LEMMA OthersStep ==
    ASSUME SenderInv, UNCHANGED sub, broadcast \subseteq broadcast', broadcast' \subseteq Sender!Nonces,
           executed <= executed', executed' \in -1 .. MaxNonce, \A n \in 0 .. executed' : n \in broadcast',
           inFlight' \subseteq inFlight, hook' \in [Hooks -> Sender!Entry \cup {None}],
           \A h \in Hooks : hook'[h] # None => TrueEntry(hook'[h]),
           known' = None \/ TrueEntry(known')
    PROVE  SenderInv'
<1>1. executed \in -1 .. MaxNonce
  BY DEF SenderInv, Sender!TypeOK
<1>2. \A e : TrueEntry(e) => e \in Sender!Entry /\ e.seen \in broadcast' \cup {-1} /\ e.confirmed <= executed'
  BY <1>1, NonceAssumption DEF TrueEntry, Sender!Entry
<1>3. Sender!TypeOK'
  BY <1>2 DEF SenderInv, Sender!TypeOK
<1>4. known' # None => TrueEntry(known)'
  BY <1>2 DEF TrueEntry
<1>5. \A h \in Hooks : hook'[h] # None => TrueEntry(hook[h])'
  BY <1>2 DEF TrueEntry
<1>6. \A s \in Submissions : TrueEntry(sub[s].entry)'
  BY <1>2 DEF SenderInv, TrueEntry
<1>7. Sender!RefusalsTruthful'
  <2>1. \A s \in Submissions : sub[s].nonce \in Int
    BY DEF SenderInv, Sender!TypeOK, Sender!Submission, Sender!Nonces
  <2> QED BY <1>1, <2>1 DEF SenderInv, Sender!RefusalsTruthful
<1> QED BY <1>3, <1>4, <1>5, <1>6, <1>7 DEF SenderInv

Pcs == {"idle", "marker", "check", "seed", "putSeed", "mark", "queued", "clear", "note", "putNote", "over"}

\* The forms a submission's step takes.
LEMMA GoesOn ==
    ASSUME SenderInv, NEW s \in Submissions, NEW pc \in Pcs, Sender!Goes(s, pc)
    PROVE  Becomes(s, [sub[s] EXCEPT !.pc = pc])
<1> DEFINE x == [sub[s] EXCEPT !.pc = pc]
<1>1. sub \in [Submissions -> Sender!Submission] /\ sub[s] \in Sender!Submission
  BY DEF SenderInv, Sender!TypeOK
<1>2. x \in Sender!Submission
  BY <1>1 DEF Sender!Submission, Pcs
<1>3. sub' = [sub EXCEPT ![s] = x]
  BY <1>1 DEF Sender!Goes
<1> HIDE DEF x
<1>4. Becomes(s, x)
  BY <1>1, <1>2, <1>3 DEF Becomes
<1> QED BY <1>4 DEF x

LEMMA Replied ==
    ASSUME SenderInv, NEW s \in Submissions, NEW pc \in Pcs, NEW answer \in Sender!Answers,
           Sender!Replies(s, answer, pc)
    PROVE  \E x : Becomes(s, x) /\ x.pc = pc /\ x.nonce = sub[s].nonce /\ x.answer = answer /\ x.entry = sub[s].entry
<1> DEFINE x == [sub[s] EXCEPT !.answer = answer, !.pc = pc, !.seeded = FALSE]
<1>1. sub \in [Submissions -> Sender!Submission] /\ sub[s] \in Sender!Submission
  BY DEF SenderInv, Sender!TypeOK
<1>2. x \in Sender!Submission /\ x.pc = pc /\ x.nonce = sub[s].nonce /\ x.answer = answer /\ x.entry = sub[s].entry
  BY <1>1 DEF Sender!Submission, Pcs
<1>3. sub' = [sub EXCEPT ![s] = x]
  BY <1>1 DEF Sender!Replies
<1> HIDE DEF x
<1>4. Becomes(s, x)
  BY <1>1, <1>2, <1>3 DEF Becomes
<1> QED BY <1>2, <1>4

LEMMA WorkedOut ==
    ASSUME SenderInv, NEW s \in Submissions, NEW pc \in Pcs, NEW entry \in Sender!Entry,
           Sender!WillPut(s, entry, pc)
    PROVE  \E x : Becomes(s, x) /\ x.pc = pc /\ x.nonce = sub[s].nonce /\ x.answer = sub[s].answer /\ x.entry = entry
<1> DEFINE x == [sub[s] EXCEPT !.entry = entry, !.pc = pc]
<1>1. sub \in [Submissions -> Sender!Submission] /\ sub[s] \in Sender!Submission
  BY DEF SenderInv, Sender!TypeOK
<1>2. x \in Sender!Submission /\ x.pc = pc /\ x.nonce = sub[s].nonce /\ x.answer = sub[s].answer /\ x.entry = entry
  BY <1>1 DEF Sender!Submission, Pcs
<1>3. sub' = [sub EXCEPT ![s] = x]
  BY <1>1 DEF Sender!WillPut
<1> HIDE DEF x
<1>4. Becomes(s, x)
  BY <1>1, <1>2, <1>3 DEF Becomes
<1> QED BY <1>2, <1>4

LEMMA NextSender == ASSUME SenderInv, [Sender!Next]_nonceVars PROVE SenderInv'
<1> USE DEF Sender!chain, Sender!At
<1>0. /\ Sender!TypeOK /\ TrueEntry(Sender!Nothing) /\ Sender!Nothing \in Sender!Entry
      /\ hook \in [Hooks -> Sender!Entry \cup {None}] /\ None \notin Sender!Entry
      /\ sub \in [Submissions -> Sender!Submission]
  BY NothingTyped DEF SenderInv, Sender!TypeOK, TrueEntry, Sender!Nothing
<1>00. ASSUME NEW s \in Submissions
       PROVE  /\ sub[s] \in Sender!Submission /\ TrueEntry(sub[s].entry)
              /\ sub[s].pc \in {"clear", "note"} => sub[s].nonce \in broadcast
              /\ sub[s].pc \in {"mark", "queued"} => sub[s].answer = "admitted"
              /\ sub[s].pc \in {"idle", "marker", "check", "seed", "putSeed"} => sub[s].answer = "none"
  BY <1>0 DEF SenderInv
\* A step that only goes on.
<1>1. ASSUME NEW s \in Submissions, NEW pc \in Pcs, Sender!Goes(s, pc), UNCHANGED <<hook, executed>>,
             broadcast' = broadcast \/ broadcast' = broadcast \cup {sub[s].nonce},
             known' = known,
             inFlight' \subseteq inFlight \/ (sub[s].answer = "admitted" /\ inFlight' = inFlight \cup {sub[s].nonce}),
             pc \in {"clear", "note"} => sub[s].nonce \in broadcast',
             pc \in {"mark", "queued"} => sub[s].answer = "admitted",
             pc \in {"idle", "marker", "check", "seed", "putSeed"} => sub[s].answer = "none"
      PROVE  SenderInv'
  <2> DEFINE x == [sub[s] EXCEPT !.pc = pc]
  <2>1. Becomes(s, x)
    BY <1>1, GoesOn
  <2>2. /\ x.pc = pc /\ x.nonce = sub[s].nonce /\ x.answer = sub[s].answer /\ x.entry = sub[s].entry
        /\ x.nonce \in Sender!Nonces
    BY <1>00 DEF Sender!Submission
  <2> HIDE DEF x
  <2> QED BY <1>1, <1>00, <2>1, <2>2, SubmissionStep
\* One that replies.
<1>2. ASSUME NEW s \in Submissions, NEW pc \in {"over", "mark"}, NEW answer \in Sender!Answers,
             Sender!Replies(s, answer, pc), UNCHANGED <<hook, executed, broadcast, known, inFlight>>,
             sub[s].answer = "none", pc = "mark" => answer = "admitted",
             \/ answer = "admitted"
             \/ answer = "stale" /\ sub[s].nonce <= executed
             \/ answer = "duplicate" /\ sub[s].nonce \in broadcast
             \/ answer = "inFlight" /\ \E n \in broadcast : n > sub[s].nonce
             \/ answer = "marked" /\ sub[s].nonce \in inFlight
      PROVE  SenderInv'
  <2>1. PICK x : Becomes(s, x) /\ x.pc = pc /\ x.nonce = sub[s].nonce /\ x.answer = answer /\ x.entry = sub[s].entry
    BY <1>2, Replied DEF Pcs
  <2> QED BY <1>2, <1>00, <2>1, SubmissionStep
\* One that has worked out an entry, or has put it.
<1>3. ASSUME NEW s \in Submissions, NEW pc \in {"putNote", "marker", "over"}, NEW entry, TrueEntry(entry),
             Sender!WillPut(s, entry, pc), UNCHANGED <<hook, executed, broadcast, inFlight>>,
             known' = known \/ known' = sub[s].entry, pc = "marker" => sub[s].answer = "none"
      PROVE  SenderInv'
  <2>1. PICK x : Becomes(s, x) /\ x.pc = pc /\ x.nonce = sub[s].nonce /\ x.answer = sub[s].answer /\ x.entry = entry
    BY <1>3, WorkedOut DEF Pcs, TrueEntry
  <2> QED BY <1>3, <1>00, <2>1, SubmissionStep
<1>4. ASSUME NEW s \in Submissions, NEW n \in Sender!Nonces, Sender!Arrives(s, n) PROVE SenderInv'
  <2> DEFINE x == [sub[s] EXCEPT !.nonce = n, !.pc = "marker"]
  <2>1. /\ x \in Sender!Submission /\ x.pc = "marker" /\ x.answer = sub[s].answer
        /\ x.entry = sub[s].entry /\ x.nonce = n
    BY <1>00 DEF Sender!Submission
  <2>2. sub' = [sub EXCEPT ![s] = x] /\ UNCHANGED <<hook, executed, broadcast, known, inFlight>>
    BY <1>0, <1>4 DEF Sender!Arrives
  <2>3. sub[s].answer = "none"
    BY <1>4, <1>00 DEF Sender!Arrives
  <2> HIDE DEF x
  <2>4. Becomes(s, x)
    BY <1>0, <2>1, <2>2 DEF Becomes
  <2> QED BY <1>00, <2>1, <2>2, <2>3, <2>4, SubmissionStep
<1>5. ASSUME NEW s \in Submissions, Sender!LooksForMarker(s) PROVE SenderInv'
  <2>1. sub[s].pc = "marker" /\ sub[s].answer = "none" /\ UNCHANGED <<hook, executed, broadcast, known, inFlight>>
    BY <1>5, <1>00 DEF Sender!LooksForMarker
  <2>2. CASE sub[s].nonce \in inFlight /\ Sender!Replies(s, "marked", "over")
    BY <1>2, <2>1, <2>2 DEF Sender!Answers
  <2>3. CASE Sender!Goes(s, "check")
    BY <1>1, <2>1, <2>3 DEF Pcs
  <2> QED BY <1>5, <2>2, <2>3 DEF Sender!LooksForMarker
<1>6. ASSUME NEW s \in Submissions, Sender!Checks(s) PROVE SenderInv'
  <2> DEFINE n == sub[s].nonce
             outcome == Sender!Outcome(n)
  <2>1. sub[s].pc = "check" /\ sub[s].answer = "none" /\ UNCHANGED <<hook, executed, broadcast, known, inFlight>>
    BY <1>6, <1>00 DEF Sender!Checks
  <2>2. n \in Nat /\ executed \in -1 .. MaxNonce /\ broadcast \subseteq Nat
    BY <1>0, <1>00 DEF Sender!TypeOK, Sender!Submission, Sender!Nonces
  <2>3. known # None => /\ known \in [seen : -1 .. MaxNonce, confirmed : -1 .. MaxNonce]
                        /\ known.seen \in broadcast \cup {-1} /\ known.confirmed <= executed
    BY DEF SenderInv, TrueEntry, Sender!Entry
  <2>4. /\ outcome = "stale" => n <= executed
        /\ outcome = "duplicate" => n \in broadcast
        /\ outcome = "inFlight" => \E m \in broadcast : m > n
    <3>1. CASE known = None
      BY <3>1 DEF Sender!Outcome
    <3>2. CASE known # None /\ n <= known.confirmed
      BY <2>2, <2>3, <3>2, NonceAssumption DEF Sender!Outcome
    <3>3. CASE known # None /\ n > known.confirmed /\ n = known.seen
      <4>1. outcome = "duplicate"
        BY <2>2, <2>3, <3>3, NonceAssumption DEF Sender!Outcome
      <4> QED BY <2>2, <2>3, <3>3, <4>1
    <3>4. CASE known # None /\ n > known.confirmed /\ n < known.seen
      <4>1. outcome = "inFlight"
        BY <2>2, <2>3, <3>4, NonceAssumption DEF Sender!Outcome
      <4> QED BY <2>2, <2>3, <3>4, <4>1
    <3>5. CASE known # None /\ n > known.confirmed /\ n > known.seen
      <4>1. outcome \in {"healthy", "gap"}
        BY <2>2, <2>3, <3>5, NonceAssumption DEF Sender!Outcome
      <4> QED BY <4>1
    <3> QED BY <2>2, <2>3, <3>1, <3>2, <3>3, <3>4, <3>5, NonceAssumption
  <2> HIDE DEF outcome
  <2>5. CASE Sender!Goes(s, "seed")
    BY <1>1, <2>1, <2>5 DEF Pcs
  <2>6. CASE outcome \in {"stale", "duplicate", "inFlight"} /\ Sender!Replies(s, outcome, "over")
    BY <1>2, <2>1, <2>4, <2>6 DEF Sender!Answers
  <2>7. CASE Sender!Replies(s, "admitted", "mark")
    BY <1>2, <2>1, <2>7 DEF Sender!Answers
  <2> QED BY <1>6, <2>5, <2>6, <2>7 DEF Sender!Checks, outcome
<1>7. ASSUME NEW s \in Submissions, Sender!AsksHiro(s) PROVE SenderInv'
  <2>1. sub[s].pc = "seed" /\ sub[s].answer = "none" /\ UNCHANGED <<hook, executed, broadcast, known, inFlight>>
    BY <1>7, <1>00 DEF Sender!AsksHiro
  <2>2. ASSUME NEW pc \in {"marker", "putSeed"}, NEW x \in Sender!Submission, sub' = [sub EXCEPT ![s] = x],
               x.pc = pc, x.answer = sub[s].answer, TrueEntry(x.entry), x.nonce = sub[s].nonce
        PROVE  SenderInv'
    <3>1. Becomes(s, x)
      BY <1>0, <2>2 DEF Becomes
    <3> QED BY <2>1, <2>2, <3>1, SubmissionStep
  <2>3. CASE sub' = [sub EXCEPT ![s].seeded = TRUE, ![s].pc = "marker"]
    <3> DEFINE x == [sub[s] EXCEPT !.seeded = TRUE, !.pc = "marker"]
    <3>1. /\ x \in Sender!Submission /\ x.pc = "marker" /\ x.answer = sub[s].answer
          /\ x.entry = sub[s].entry /\ x.nonce = sub[s].nonce
      BY <1>00 DEF Sender!Submission
    <3>2. sub' = [sub EXCEPT ![s] = x]
      BY <1>0, <2>3
    <3> HIDE DEF x
    <3> QED BY <1>00, <2>2, <3>1, <3>2
  <2>4. ASSUME NEW e, TrueEntry(e), sub' = [sub EXCEPT ![s].seeded = TRUE, ![s].pc = "putSeed", ![s].entry = e]
        PROVE  SenderInv'
    <3> DEFINE x == [sub[s] EXCEPT !.seeded = TRUE, !.pc = "putSeed", !.entry = e]
    <3>1. /\ x \in Sender!Submission /\ x.pc = "putSeed" /\ x.answer = sub[s].answer
          /\ x.entry = e /\ x.nonce = sub[s].nonce
      BY <1>00, <2>4 DEF Sender!Submission, TrueEntry
    <3>2. sub' = [sub EXCEPT ![s] = x]
      BY <1>0, <2>4
    <3> HIDE DEF x
    <3> QED BY <2>2, <2>4, <3>1, <3>2
  <2>5. \A a \in Sender!HiroAnswers : TrueEntry(Sender!Seeded(Sender!Existing, a))
    BY ExistingTrue, RaisedTrue
  <2> QED BY <1>7, <2>3, <2>4, <2>5 DEF Sender!AsksHiro
<1>8. ASSUME NEW s \in Submissions, Sender!PutsSeed(s) \/ Sender!PutsNote(s) PROVE SenderInv'
  <2>1. PICK pc \in {"marker", "over"} : Sender!Puts(s, pc) /\ (pc = "marker" => sub[s].answer = "none")
    BY <1>8, <1>00 DEF Sender!PutsSeed, Sender!PutsNote
  <2> QED BY <1>0, <1>3, <2>1 DEF Sender!Puts
<1>9. ASSUME NEW s \in Submissions, Sender!Marks(s) PROVE SenderInv'
  BY <1>1, <1>9, <1>00 DEF Sender!Marks, Pcs
<1>10. ASSUME NEW s \in Submissions, Sender!Broadcasts(s) PROVE SenderInv'
  BY <1>1, <1>10 DEF Sender!Broadcasts, Pcs
<1>11. ASSUME NEW s \in Submissions, Sender!GivesUp(s) PROVE SenderInv'
  BY <1>1, <1>11 DEF Sender!GivesUp, Pcs
<1>12. ASSUME NEW s \in Submissions, Sender!Clears(s) PROVE SenderInv'
  BY <1>1, <1>12, <1>00 DEF Sender!Clears, Pcs
<1>13. ASSUME NEW s \in Submissions, Sender!ReadsToNote(s) PROVE SenderInv'
  <2>1. TrueEntry(Sender!Noted(Sender!Existing, sub[s].nonce))
    BY <1>13, <1>00, ExistingTrue, RaisedTrue DEF Sender!ReadsToNote
  <2> QED BY <1>3, <1>13, <2>1 DEF Sender!ReadsToNote
<1>14. ASSUME NEW s \in Submissions, Sender!Dies(s) PROVE SenderInv'
  <2> DEFINE x == [sub[s] EXCEPT !.pc = "over", !.entry = Sender!Nothing, !.seeded = FALSE]
  <2>1. /\ x \in Sender!Submission /\ x.pc = "over" /\ x.answer = sub[s].answer
        /\ x.entry = Sender!Nothing /\ x.nonce = sub[s].nonce
    BY <1>0, <1>00 DEF Sender!Submission
  <2>2. sub' = [sub EXCEPT ![s] = x] /\ UNCHANGED <<hook, executed, broadcast, known, inFlight>>
    BY <1>0, <1>14 DEF Sender!Dies
  <2> HIDE DEF x
  <2>3. Becomes(s, x)
    BY <1>0, <2>1, <2>2 DEF Becomes
  <2> QED BY <1>0, <1>00, <2>1, <2>2, <2>3, SubmissionStep
<1>15. executed \in -1 .. MaxNonce /\ (known = None \/ TrueEntry(known)) /\ broadcast \subseteq Sender!Nonces
       /\ (\A n \in 0 .. executed : n \in broadcast) /\ \A h \in Hooks : hook[h] # None => TrueEntry(hook[h])
  BY DEF SenderInv, Sender!TypeOK
<1>16. ASSUME NEW h \in Hooks, NEW n \in Sender!Nonces, Sender!HookReads(h, n) PROVE SenderInv'
  <2>1. TrueEntry(Sender!Mined(Sender!Existing, n))
    BY <1>15, <1>16, ExistingTrue, RaisedTrue DEF Sender!HookReads, Sender!Nonces
  <2>2. /\ hook' = [hook EXCEPT ![h] = Sender!Mined(Sender!Existing, n)]
        /\ UNCHANGED <<known, inFlight, sub, broadcast, executed>>
    BY <1>16 DEF Sender!HookReads
  <2>3. \A g \in Hooks : hook'[g] # None => TrueEntry(hook'[g])
    BY <1>0, <1>15, <2>1, <2>2
  <2>4. hook' \in [Hooks -> Sender!Entry \cup {None}]
    BY <1>0, <2>1, <2>2 DEF TrueEntry
  <2> QED BY <1>15, <2>2, <2>3, <2>4, OthersStep
<1>17. ASSUME NEW h \in Hooks, Sender!HookPuts(h) PROVE SenderInv'
  <2>1. /\ known' = hook[h] /\ hook[h] # None /\ hook' = [hook EXCEPT ![h] = None]
        /\ UNCHANGED <<inFlight, sub, broadcast, executed>>
    BY <1>17 DEF Sender!HookPuts
  <2>2. \A g \in Hooks : hook'[g] # None => TrueEntry(hook'[g])
    BY <1>0, <1>15, <2>1
  <2>3. hook' \in [Hooks -> Sender!Entry \cup {None}] /\ TrueEntry(known')
    BY <1>0, <1>15, <2>1
  <2> QED BY <1>15, <2>1, <2>2, <2>3, OthersStep
<1>18. ASSUME NEW n \in Sender!Nonces, Sender!SenderBroadcasts(n) PROVE SenderInv'
  BY <1>0, <1>15, <1>18, OthersStep DEF Sender!SenderBroadcasts
<1>19. CASE Sender!Executes
  <2>1. executed' = executed + 1 /\ executed + 1 \in broadcast
        /\ UNCHANGED <<known, inFlight, sub, hook, broadcast>>
    BY <1>19 DEF Sender!Executes
  <2>2. executed <= executed' /\ executed' \in -1 .. MaxNonce
    BY <1>15, <2>1, NonceAssumption DEF Sender!Nonces
  <2>3. \A n \in 0 .. executed' : n \in broadcast'
    BY <1>15, <2>1, NonceAssumption
  <2> QED BY <1>0, <1>15, <2>1, <2>2, <2>3, OthersStep
<1>20. CASE Sender!Expires
  <2>1. /\ UNCHANGED <<sub, hook, broadcast, executed>>
        /\ inFlight' \subseteq inFlight /\ (known' = None \/ known' = known)
    BY <1>20 DEF Sender!Expires
  <2> QED BY <1>0, <1>15, <2>1, OthersStep
<1>21. CASE UNCHANGED nonceVars
  BY <1>0, <1>15, <1>21, OthersStep DEF nonceVars
<1> QED BY <1>4, <1>5, <1>6, <1>7, <1>8, <1>9, <1>10, <1>11, <1>12, <1>13, <1>14, <1>16, <1>17, <1>18,
           <1>19, <1>20, <1>21 DEF Sender!Next

--------------------------------------------------------------------------------
(* The services together. *)

\* A clamp configuration that getClampConfig throws away (services/fee.ts) has
\* a ceiling that was no number JSON can write: updates valid one by one are
\* merged with what is in force, the merge is validated before its put
\* (endpoints/fees-config.ts), and of what was validated only Infinity changes
\* in the round trip.
THEOREM ClampsStayValid == Spec => []StoredIsValid
<1> DEFINE Inv == FeesTyped /\ FeesValid
<1>1. Init => Inv
  BY InitFeesTyped, InitFeesValid DEF Init
<1>2. Inv /\ [Next]_vars => Inv'
  BY PartsStep, NextFeesTyped, NextFeesValid DEF PartsNext
<1>3. Inv => StoredIsValid
  BY DEF FeesValid, StoredIsValid
<1> QED BY <1>1, <1>2, <1>3, PTL DEF Spec

\* A sender gets at most twice the limit through in any stretch as long as the
\* window (middleware/rate-limit.ts), for any limit and window.
THEOREM TwiceAtMost == Spec => []TwiceTheLimitAtMost
<1>1. Init => ThrottleInv
  BY InitThrottle DEF Init
<1>2. ThrottleInv /\ [Next]_vars => ThrottleInv'
  BY PartsStep, NextThrottle DEF PartsNext
<1>3. ThrottleInv => TwiceTheLimitAtMost
  BY ThrottleTwice DEF TwiceTheLimitAtMost
<1> QED BY <1>1, <1>2, <1>3, PTL DEF Spec

\* An address is blocked only for Threshold malformed payloads of the last
\* window (middleware/malformed-tracker.ts).
THEOREM BlocksAreRecent == Spec => []BlockedForRecent
<1>1. Init => ThrottleInv
  BY InitThrottle DEF Init
<1>2. ThrottleInv /\ [Next]_vars => ThrottleInv'
  BY PartsStep, NextThrottle DEF PartsNext
<1>3. ThrottleInv => BlockedForRecent
  BY DEF ThrottleInv, BlockedForRecent
<1> QED BY <1>1, <1>2, <1>3, PTL DEF Spec

\* canSponsor is wrong for as long as the snapshot is fresh at most
\* (utils/sponsor-status.ts, nonce-do.ts).
THEOREM HealthyIsBacked == Spec => []CanSponsorIsBacked
<1>1. Init => StatusInv
  BY InitStatus DEF Init
<1>2. StatusInv /\ [Next]_vars => StatusInv'
  BY PartsStep, NextStatus DEF PartsNext
<1>3. StatusInv => CanSponsorIsBacked
  BY StatusBacked DEF CanSponsorIsBacked
<1> QED BY <1>1, <1>2, <1>3, PTL DEF Spec

\* The health status is what the last checks say, when each ran alone: a put
\* of the history by one that did not loses the others' (services/health-monitor.ts).
THEOREM ChecksTell == Spec => []StatusFollowsChecks
<1>1. Init => HealthInv
  BY InitHealth DEF Init
<1>2. HealthInv /\ [Next]_vars => HealthInv'
  BY PartsStep, NextHealth DEF PartsNext
<1>3. HealthInv => StatusFollowsChecks
  BY StatusFollows DEF StatusFollowsChecks
<1> QED BY <1>1, <1>2, <1>3, PTL DEF Spec

\* The statistics' invariant holds of the whole.
LEMMA StatsAlways == Spec => [](StatsInv /\ StatsTables)
<1>1. Init => StatsInv /\ StatsTables
  BY InitStats DEF Init
<1>2. StatsInv /\ StatsTables /\ [Next]_vars => (StatsInv /\ StatsTables)'
  BY PartsStep, NextStats DEF PartsNext
<1> QED BY <1>1, <1>2, PTL DEF Spec

\* The dashboard's headline figures are those of what was posted in the last
\* window and in the one before it, for windows of any length: no row is pruned
\* that they still need, and the relay's errors are the failures that are not
\* the clients' (durable-objects/stats-do.ts).
THEOREM OverviewComplete == Spec => []OverviewCountsAll
<1>1. StatsInv => OverviewCountsAll
  BY StatsCounts DEF OverviewCountsAll
<1> QED BY <1>1, StatsAlways, PTL

\* Each day's breakdowns by outcome, endpoint and token agree with its total,
\* and its fees lie between their extremes (durable-objects/stats-do.ts).
THEOREM BreakdownsAgree == Spec => []BreakdownsAddUp
<1>1. StatsInv => BreakdownsAddUp
  BY StatsAddUp DEF BreakdownsAddUp
<1> QED BY <1>1, StatsAlways, PTL

\* However seeds, notes of the consumer and calls of the chainhook overlap in the entry
\* sender_nonce:<signer> (services/sender-nonce.ts), submitPayment turns a submission
\* away only for what is so of the sender's nonces: for any number of submissions, calls
\* and nonces.
THEOREM RefusalsTrue == Spec => []RefusalsTruthful
<1>1. Init => SenderInv
  BY InitSender DEF Init
<1>2. SenderInv /\ [Next]_vars => SenderInv'
  BY PartsStep, NextSender DEF PartsNext
<1>3. SenderInv => RefusalsTruthful
  BY DEF SenderInv, RefusalsTruthful
<1> QED BY <1>1, <1>2, <1>3, PTL DEF Spec

\* Every variable of the six parts keeps its type (the seventh, HandTurns, has
\* no invariant of its own).
THEOREM TypeCorrect == Spec => []TypeOK
<1> DEFINE Inv == FeesTyped /\ ThrottleInv /\ StatusInv /\ HealthInv /\ SenderInv
<1>1. Init => Inv
  BY InitFeesTyped, InitThrottle, InitStatus, InitHealth, InitSender DEF Init
<1>2. Inv /\ [Next]_vars => Inv'
  BY PartsStep, NextFeesTyped, NextThrottle, NextStatus, NextHealth, NextSender DEF PartsNext
<1>3. Inv /\ StatsInv => TypeOK
  BY FeesTypes, ThrottleTypes, StatusTypes, HealthTypes, StatsTypes DEF TypeOK, SenderInv
<1> QED BY <1>1, <1>2, <1>3, StatsAlways, PTL DEF Spec

\* Side by side, each part behaves as it is specified by itself; of the two
\* with fairness this states the safety part.
THEOREM PartsAsSpecified ==
    Spec => /\ Fees!Init /\ [][Fees!Next]_feeVars
            /\ Throttle!Spec /\ Status!Spec /\ Health!Spec /\ Stats!Spec /\ Sender!Spec
<1>1. Init => Fees!Init /\ Throttle!Init /\ Status!Init /\ Health!Init /\ Stats!Init
            /\ Sender!Init
  BY DEF Init
<1>2. [Next]_vars => /\ [Fees!Next]_feeVars
                     /\ [Throttle!Next]_(Throttle!vars) /\ [Status!Next]_(Status!vars)
                     /\ [Health!Next]_(Health!vars) /\ [Stats!Next]_(Stats!vars)
                     /\ [Sender!Next]_(Sender!vars)
  BY PartsStep DEF PartsNext, throttleVars, Throttle!vars, statusVars, Status!vars,
                   healthVars, Health!vars, statVars, Stats!vars, nonceVars, Sender!vars, Sender!chain
<1> QED BY <1>1, <1>2, PTL DEF Spec, Throttle!Spec, Status!Spec, Health!Spec, Stats!Spec,
     Sender!Spec
================================================================================
