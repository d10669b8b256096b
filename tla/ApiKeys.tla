------------------------------ MODULE ApiKeys ------------------------------
(***************************************************************************)
(* API keys: provisioning and administration, and POST /sponsor from the   *)
(* Authorization header to the usage record (services/auth.ts,             *)
(* middleware/auth.ts, endpoints/sponsor.ts, endpoints/provision*.ts).     *)
(* Everything lives in KV, which has get and put and nothing in between:   *)
(* each get and each put is a step of its own, any Worker invocation may   *)
(* stop between two of them, and invocations interleave.                   *)
(***************************************************************************)
EXTENDS Naturals, FiniteSets, Sums

CONSTANTS
    Keys,          \* keyIds that can be generated; each stands for its hash too
    Names,         \* what an index entry is for: app:<name>, btc:<addr>, stx:<addr>
    Unlimited,     \* names whose key is created in the unlimited tier (createKey)
    Provisions,    \* invocations that provision or create a key
    Requests,      \* invocations of POST /sponsor
    Fees,          \* fees a sponsored transaction may have
    Estimates,     \* what /sponsor may estimate a fee at, by its size in bytes
    Cap,           \* dailyFeeCapMicroStx of the free tier
    MinuteLimit,   \* requestsPerMinute of the free tier
    DailyLimit,    \* dailyLimit of the free tier
    KeyLife,       \* days a key lives (KEY_EXPIRATION_DAYS)
    MaxDay,        \* bound: days that pass
    None

\* None is no key and no record.
ASSUME KeyAssumption ==
    /\ None \notin Keys /\ None \notin [name : Names, active : BOOLEAN, expiresAt : Nat]
    /\ KeyLife \in Nat /\ MaxDay \in Nat

\* Invocations are finitely many; fees and limits are natural numbers.
ASSUME RequestAssumption ==
    /\ IsFiniteSet(Requests)
    /\ Fees \subseteq Nat /\ Estimates \subseteq Nat /\ Cap \in Nat /\ MinuteLimit \in Nat

VARIABLES
    meta,      \* key:<hash>: the metadata of a key, or None
    byId,      \* keyId:<id> entries
    index,     \* app:, btc: and stx: entries: the keyId, or None
    usage,     \* usage:daily:<keyId>:<today>
    minute,    \* usage:minute:<keyId>:<this minute>
    day,       \* today
    prov,      \* the provisioning invocations
    req,       \* the /sponsor invocations
    admin      \* the operator's CLI command in progress, or None

kv == <<meta, byId, index, usage, minute>>
vars == <<meta, byId, index, usage, minute, day, prov, req, admin>>

Metadata == [name : Names, active : BOOLEAN, expiresAt : 0..(MaxDay + KeyLife)]
Usage == [requests : 0..Cardinality(Requests), feesPaid : Nat]
EmptyUsage == [requests |-> 0, feesPaid |-> 0]

\* Steps of a request after its arrival; the last three end it.
InFlight == {"auth", "limits", "count", "cap", "sponsor", "send",
             "readFee", "putFee", "readUse", "putUse"}

IdleRequest == [at |-> "idle", key |-> None, saw |-> EmptyUsage, minutes |-> 0, day |-> 0,
                sameMinute |-> TRUE, estimate |-> 0, fee |-> 0, taken |-> FALSE, revoked |-> FALSE,
                shared |-> FALSE]

Init ==
    /\ meta = [k \in Keys |-> None]
    /\ byId = [k \in Keys |-> FALSE]
    /\ index = [n \in Names |-> None]
    /\ usage = [k \in Keys |-> EmptyUsage]
    /\ minute = [k \in Keys |-> 0]
    /\ day = 0
    /\ prov = [p \in Provisions |-> [at |-> "idle", name |-> None, key |-> None]]
    /\ req = [r \in Requests |-> IdleRequest]
    /\ admin = None

(***************************************************************************)
(* Provisioning and createKey: the index entry is looked up, a key is      *)
(* generated, and three puts follow: key:, keyId:, index.                  *)
(***************************************************************************)
ProvisionLooks(p, n) ==
    /\ prov[p].at = "idle"
    /\ prov' = [prov EXCEPT ![p] = [at |-> IF index[n] = None THEN "key" ELSE "refused",
                                    name |-> n, key |-> None]]
    /\ UNCHANGED <<kv, day, req, admin>>

\* generateKeyPair: 32 random hex digits, so never a key that exists.
Generated == {k \in Keys : meta[k] = None /\ \A q \in Provisions : prov[q].key # k}

StoreMetaLate(p, k) ==
    /\ prov[p].at = "key"
    /\ k \in Generated
    /\ index' = [index EXCEPT ![prov[p].name] = k]
    /\ prov' = [prov EXCEPT ![p].at = "id", ![p].key = k]
    /\ UNCHANGED <<meta, byId, usage, minute, day, req, admin>>

StoreMeta(p, k) ==
    /\ prov[p].at = "key"
    /\ k \in Generated
    /\ meta' = [meta EXCEPT ![k] = [name |-> prov[p].name, active |-> TRUE,
                                    expiresAt |-> day + KeyLife]]
    /\ prov' = [prov EXCEPT ![p].at = "id", ![p].key = k]
    /\ UNCHANGED <<byId, index, usage, minute, day, req, admin>>

StoreId(p) ==
    /\ prov[p].at = "id"
    /\ byId' = [byId EXCEPT ![prov[p].key] = TRUE]
    /\ prov' = [prov EXCEPT ![p].at = "index"]
    /\ UNCHANGED <<meta, index, usage, minute, day, req, admin>>

StoreIndex(p) ==
    /\ prov[p].at = "index"
    /\ index' = [index EXCEPT ![prov[p].name] = prov[p].key]
    /\ prov' = [prov EXCEPT ![p].at = "told"]
    /\ UNCHANGED <<meta, byId, usage, minute, day, req, admin>>

\* A put fails (500), or the invocation is gone.
ProvisionStops(p) ==
    /\ prov[p].at \in {"key", "id", "index"}
    /\ prov' = [prov EXCEPT ![p].at = "stopped"]
    /\ UNCHANGED <<kv, day, req, admin>>

(***************************************************************************)
(* The operator's commands: get the metadata, change it, put it. One       *)
(* operator runs one command at a time.                                    *)
(***************************************************************************)
AdminReads(op, k) ==
    /\ admin = None
    /\ meta[k] # None
    /\ admin' = [op |-> op, key |-> k, saw |-> meta[k]]
    /\ UNCHANGED <<kv, day, prov, req>>

Revoked(m) == [m EXCEPT !.active = FALSE]
Renewed(m) == [m EXCEPT !.expiresAt = day + KeyLife]

AdminPuts ==
    /\ admin # None
    /\ meta' = [meta EXCEPT ![admin.key] = IF admin.op = "revoke" THEN Revoked(admin.saw)
                                                                  ELSE Renewed(admin.saw)]
    /\ admin' = None
    /\ UNCHANGED <<byId, index, usage, minute, day, prov, req>>

(***************************************************************************)
(* Time.                                                                   *)
(***************************************************************************)
\* A new minute: a new counter; a put still to come goes to the old one.
NewMinute ==
    /\ minute' = [k \in Keys |-> 0]
    /\ req' = [r \in Requests |-> [req[r] EXCEPT !.sameMinute = @ /\ req[r].at # "count"]]

NextMinute ==
    /\ \E k \in Keys : minute[k] > 0
    /\ NewMinute
    /\ UNCHANGED <<meta, byId, index, usage, day, prov, admin>>

\* Midnight UTC: a new usage record, and a new minute.
NextDay ==
    /\ day < MaxDay
    /\ day' = day + 1
    /\ usage' = [k \in Keys |-> EmptyUsage]
    /\ NewMinute
    /\ UNCHANGED <<meta, byId, index, prov, admin>>

(***************************************************************************)
(* POST /sponsor.                                                          *)
(***************************************************************************)
\* A request that ends without its answer: what the node took stays taken.
Ended(r, taken) == [IdleRequest EXCEPT !.at = "failed", !.key = req[r].key, !.taken = taken,
                        !.fee = IF taken THEN req[r].fee ELSE 0, !.revoked = req[r].revoked]

Live(m) == m # None /\ m.active /\ day <= m.expiresAt

\* A request arrives with a key. Whether the key was revoked by then and
\* whether the request ever ran beside another one of its key are recorded
\* for the properties; nothing reads them.
Arrive(r, k) ==
    /\ req[r].at = "idle"
    /\ LET others == {q \in Requests : req[q].at \in InFlight /\ req[q].key = k}
       IN req' = [q \in Requests |->
                    IF q = r THEN [IdleRequest EXCEPT !.at = "auth", !.key = k,
                                       !.shared = others # {},
                                       !.revoked = meta[k] # None /\ ~meta[k].active]
                    ELSE [req[q] EXCEPT !.shared = @ \/ q \in others]]
    /\ UNCHANGED <<kv, day, prov, admin>>

\* validateKey: unknown, revoked and expired keys are refused.
ValidIfKnown(k) == meta[k] # None /\ day <= meta[k].expiresAt
Valid(k) == Live(meta[k])

Authenticate(r) ==
    /\ req[r].at = "auth"
    /\ req' = [req EXCEPT ![r] = IF Valid(req[r].key) THEN [@ EXCEPT !.at = "limits"]
                                                      ELSE Ended(r, FALSE)]
    /\ UNCHANGED <<kv, day, prov, admin>>

\* The body, its signature or the transaction is refused, the address is
\* blocked for malformed payloads, or the sponsor service holds or fails.
TurnAway(r) ==
    /\ req[r].at \in {"limits", "sponsor"}
    /\ req' = [req EXCEPT ![r] = Ended(r, FALSE)]
    /\ UNCHANGED <<kv, day, prov, admin>>

IsFree(k) == meta[k].name \notin Unlimited

\* checkRateLimit: both counts are read together and compared.
CheckLimits(r) ==
    LET k == req[r].key IN
    /\ req[r].at = "limits"
    /\ req' = [req EXCEPT ![r] =
                  CASE ~IsFree(k) -> [@ EXCEPT !.at = "cap"]
                    [] IsFree(k) /\ (minute[k] >= MinuteLimit \/ usage[k].requests >= DailyLimit)
                       -> Ended(r, FALSE)
                    [] OTHER -> [@ EXCEPT !.minutes = minute[k], !.at = "count"]]
    /\ UNCHANGED <<kv, day, prov, admin>>

CountMinuteFresh(r) ==
    /\ req[r].at = "count"
    /\ minute' = [minute EXCEPT ![req[r].key] = @ + 1]
    /\ req' = [req EXCEPT ![r].minutes = 0, ![r].sameMinute = TRUE, ![r].at = "cap"]
    /\ UNCHANGED <<meta, byId, index, usage, day, prov, admin>>

CountMinute(r) ==
    /\ req[r].at = "count"
    /\ minute' = IF req[r].sameMinute
                 THEN [minute EXCEPT ![req[r].key] = req[r].minutes + 1] ELSE minute
    /\ req' = [req EXCEPT ![r].minutes = 0, ![r].sameMinute = TRUE, ![r].at = "cap"]
    /\ UNCHANGED <<meta, byId, index, usage, day, prov, admin>>

\* checkSpendingCap, with the estimate e. Nothing compares e with the fee
\* that is paid in the end, which comes from fee estimates and their clamps.
WithinCapToday(spent, e) == e <= Cap
WithinCap(spent, e) == spent + e <= Cap

CheckCap(r, e) ==
    /\ req[r].at = "cap"
    /\ req' = [req EXCEPT ![r] =
                  IF IsFree(req[r].key) => WithinCap(usage[req[r].key].feesPaid, e)
                  THEN [@ EXCEPT !.at = "sponsor", !.estimate = e] ELSE Ended(r, FALSE)]
    /\ UNCHANGED <<kv, day, prov, admin>>

Sponsor(r, f) ==
    /\ req[r].at = "sponsor"
    /\ req' = [req EXCEPT ![r].fee = f, ![r].at = "send"]
    /\ UNCHANGED <<kv, day, prov, admin>>

SendCharged(r, taken, heard) ==
    /\ req[r].at = "send"
    /\ heard => taken
    /\ req' = [req EXCEPT ![r].taken = taken, ![r].at = "readFee"]
    /\ UNCHANGED <<kv, day, prov, admin>>

\* broadcastWithRetry: a node takes the transaction and says so; or every
\* attempt fails or one is refused, and the transaction may be taken all the
\* same (an answer was lost).
Send(r, taken, heard) ==
    /\ req[r].at = "send"
    /\ heard => taken
    /\ req' = [req EXCEPT ![r] = IF heard THEN [@ EXCEPT !.taken = TRUE, !.at = "readFee"]
                                          ELSE Ended(r, taken)]
    /\ UNCHANGED <<kv, day, prov, admin>>

\* recordFeeSpent and then recordUsage: each gets today's record, adds to
\* it and puts it back. Both add the fee.
ReadUsage(r) ==
    /\ req[r].at \in {"readFee", "readUse"}
    /\ req' = [req EXCEPT ![r].saw = usage[req[r].key], ![r].day = day,
                          ![r].at = IF req[r].at = "readFee" THEN "putFee" ELSE "putUse"]
    /\ UNCHANGED <<kv, day, prov, admin>>

PutToday(r, record) ==
    usage' = IF req[r].day = day THEN [usage EXCEPT ![req[r].key] = record] ELSE usage

Charged(r) == [req[r].saw EXCEPT !.feesPaid = @ + req[r].fee]

PutFee(r) ==
    /\ req[r].at = "putFee"
    /\ PutToday(r, Charged(r))
    /\ req' = [req EXCEPT ![r].saw = EmptyUsage, ![r].day = 0, ![r].at = "readUse"]
    /\ UNCHANGED <<meta, byId, index, minute, day, prov, admin>>

PutUse(r) ==
    /\ req[r].at = "putUse"
    /\ PutToday(r, [Charged(r) EXCEPT !.requests = @ + 1])
    /\ req' = [req EXCEPT ![r].saw = EmptyUsage, ![r].at = "ok"]
    /\ UNCHANGED <<meta, byId, index, minute, day, prov, admin>>

\* A KV call fails (500), or the invocation is gone.
RequestStops(r) ==
    /\ req[r].at \in InFlight
    /\ req' = [req EXCEPT ![r] = Ended(r, req[r].taken)]
    /\ UNCHANGED <<kv, day, prov, admin>>

Next ==
    \/ \E p \in Provisions : \/ \E n \in Names : ProvisionLooks(p, n)
                             \/ \E k \in Keys : StoreMeta(p, k)
                             \/ StoreId(p) \/ StoreIndex(p) \/ ProvisionStops(p)
    \/ \E k \in Keys, op \in {"revoke", "renew"} : AdminReads(op, k)
    \/ AdminPuts \/ NextMinute \/ NextDay
    \/ \E r \in Requests :
          \/ \E k \in Keys : Arrive(r, k)
          \/ Authenticate(r) \/ TurnAway(r) \/ CheckLimits(r) \/ CountMinute(r)
          \/ \E e \in Estimates : CheckCap(r, e)
          \/ \E f \in Fees : Sponsor(r, f)
          \/ \E taken, heard \in BOOLEAN : Send(r, taken, heard)
          \/ ReadUsage(r) \/ PutFee(r) \/ PutUse(r) \/ RequestStops(r)

Spec == Init /\ [][Next]_vars

(***************************************************************************)
(* Properties.                                                             *)
(***************************************************************************)
\* The variables have their types (the KV records of auth.ts, the steps of
\* the two handlers and of the CLI's command).
TypeOK ==
    /\ meta \in [Keys -> Metadata \cup {None}]
    /\ byId \in [Keys -> BOOLEAN]
    /\ index \in [Names -> Keys \cup {None}]
    /\ usage \in [Keys -> Usage]
    /\ minute \in [Keys -> 0..MinuteLimit]
    /\ day \in 0..MaxDay
    /\ \A p \in Provisions :
          /\ prov[p].at \in {"idle", "refused", "key", "id", "index", "told", "stopped"}
          /\ prov[p].name \in Names \cup {None}
          /\ prov[p].key \in Keys \cup {None}
    /\ \A r \in Requests :
          /\ req[r].at \in InFlight \cup {"idle", "failed", "ok"}
          /\ req[r].key \in Keys \cup {None}
          /\ req[r].saw \in Usage
          /\ req[r].minutes \in 0..MinuteLimit
          /\ req[r].estimate \in Estimates \cup {0} /\ req[r].fee \in Fees \cup {0}
    /\ admin # None => admin.key \in Keys /\ admin.saw \in Metadata

\* Wherever storeKeyMetadata stopped, an index entry leads to a key that can
\* be found by its id and has metadata, and so does every key a caller was
\* told: a name is never blocked by a key nobody can revoke.
KeysResolve ==
    /\ \A n \in Names : index[n] # None => meta[index[n]] # None /\ byId[index[n]]
    /\ \A p \in Provisions : prov[p].at = "told" =>
          meta[prov[p].key] # None /\ byId[prov[p].key]

\* A request that arrives after its key was revoked is not served, whatever
\* renewals, expiries and other requests come in between.
RevokedNotServed ==
    \A r \in Requests : req[r].revoked => req[r].at \in {"auth", "failed"}

\* What the requests rs owe together.
SumOfFees(rs) == SumOf([r \in rs |-> req[r].fee], rs)

\* Lost updates apart (requests that ran beside another one of their key),
\* what a free key spends in a day exceeds its cap by no more than its last
\* request costs beyond the estimate: what the others spent left room for
\* that estimate, since each is in the record that the next one's check
\* reads. (The estimate goes by size and the fee by Hiro and the clamps, so
\* that the cap itself is no bound.)
SpentAloneWithinCap ==
    \A k \in Keys : meta[k] # None /\ IsFree(k) =>
        LET alone == {r \in Requests : /\ req[r].at = "ok" /\ req[r].key = k
                                       /\ ~req[r].shared /\ req[r].day = day}
        IN alone # {} => \E last \in alone :
                            SumOfFees(alone \ {last}) + req[last].estimate <= Cap

\* A key is charged (twice, at most) for transactions a node has taken and
\* for no others: a refused or failed request costs nothing.
ChargedForTaken ==
    \A k \in Keys :
        usage[k].feesPaid <= 2 * SumOfFees({r \in Requests : req[r].key = k /\ req[r].taken})

\* types.ts:168, "Total fees paid in microSTX": the day's feesPaid is no more
\* than the fees of the key's transactions.
FeesCountedOnce ==
    \A k \in Keys :
        usage[k].feesPaid <= SumOfFees({r \in Requests : req[r].key = k /\ req[r].taken})
=============================================================================
