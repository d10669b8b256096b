---------------------------- MODULE FeeEstimates ----------------------------
(***************************************************************************)
(* Fee estimates and their clamps (services/fee.ts, endpoints/fees.ts,     *)
(* endpoints/fees-config.ts): a cache and a clamp configuration in KV, both *)
(* read and written by any number of Worker invocations.                   *)
(***************************************************************************)
EXTENDS Naturals

CONSTANTS
    Callers,     \* invocations of getEstimates
    Admins,      \* invocations of POST /fees/config
    Values,      \* fees Hiro may quote
    Updates,     \* bodies of /fees/config: what to set of floor and ceiling
    Default,     \* DEFAULT_CLAMPS, [floor, ceiling]
    Infinity,    \* what JSON.parse makes of a number beyond the doubles
    None         \* nothing, and null in a stored configuration

VARIABLES
    config,      \* fee:config, or None
    cache,       \* fee:estimates, or None: the clamped fee
    limited,     \* fee:rate_limited_until is in the future
    caller,      \* [at, raw, fee] of each caller
    admin        \* [at, merged] of each administrator

vars == <<config, cache, limited, caller, admin>>

\* validateConfig, and the check of getClampConfig: a ceiling of null is no
\* number, and Infinity is one above every floor.
Valid(c) ==
    /\ c.floor > 0 /\ c.ceiling # None
    /\ c.ceiling = Infinity \/ c.floor < c.ceiling

\* getClampConfig: the defaults unless KV holds a valid configuration.
InForce == IF config # None /\ Valid(config) THEN config ELSE Default

Clamp(v, c) == IF v < c.floor THEN c.floor ELSE IF v > c.ceiling THEN c.ceiling ELSE v

Init ==
    /\ config = None
    /\ cache = None
    /\ limited = FALSE
    /\ caller = [f \in Callers |-> [at |-> "idle", raw |-> None, fee |-> None]]
    /\ admin = [a \in Admins |-> [at |-> "idle", merged |-> None]]

(***************************************************************************)
(* getEstimates: the cache, the rate-limit marker, Hiro, the clamps, the   *)
(* cache again; the floors when Hiro gives nothing.                        *)
(***************************************************************************)
Calls(f, s) == caller' = [caller EXCEPT ![f] = s]

ReadCache(f) ==
    /\ caller[f].at = "idle"
    /\ Calls(f, IF cache # None THEN [at |-> "done", raw |-> None, fee |-> cache]
                                ELSE [at |-> "marker", raw |-> None, fee |-> None])
    /\ UNCHANGED <<config, cache, limited, admin>>

\* isRateLimited; an expired or unreadable marker does not count.
ReadMarker(f) ==
    /\ caller[f].at = "marker"
    /\ Calls(f, [caller[f] EXCEPT !.at = IF limited THEN "floors" ELSE "hiro"])
    /\ UNCHANGED <<config, cache, limited, admin>>

\* fetchFromHiro: a 429 leaves the marker, any other failure nothing. The
\* tier missing in Hiro's answer is filled from another one: still a value.
FetchFails(f, tooMany) ==
    /\ caller[f].at = "hiro"
    /\ limited' = (limited \/ tooMany)
    /\ Calls(f, [caller[f] EXCEPT !.at = "floors"])
    /\ UNCHANGED <<config, cache, admin>>

Fetched(f, v) ==
    /\ caller[f].at = "hiro"
    /\ Calls(f, [caller[f] EXCEPT !.at = "clamp", !.raw = v])
    /\ UNCHANGED <<config, cache, limited, admin>>

ClampFees(f) ==
    /\ caller[f].at = "clamp"
    /\ Calls(f, [at |-> "put", raw |-> None, fee |-> Clamp(caller[f].raw, InForce)])
    /\ UNCHANGED <<config, cache, limited, admin>>

\* The put of the cache may fail; the caller is answered all the same.
PutCache(f, ok) ==
    /\ caller[f].at = "put"
    /\ cache' = IF ok THEN caller[f].fee ELSE cache
    /\ Calls(f, [caller[f] EXCEPT !.at = "done"])
    /\ UNCHANGED <<config, limited, admin>>

Floors(f) ==
    /\ caller[f].at = "floors"
    /\ Calls(f, [at |-> "done", raw |-> None, fee |-> InForce.floor])
    /\ UNCHANGED <<config, cache, limited, admin>>

\* The answer is out, or the invocation is gone; the next request is new.
Return(f) ==
    /\ caller[f].at # "idle"
    /\ Calls(f, [at |-> "idle", raw |-> None, fee |-> None])
    /\ UNCHANGED <<config, cache, limited, admin>>

(***************************************************************************)
(* POST /fees/config: the update is merged into the configuration in force,*)
(* the whole is validated, stored, and the cached estimates are deleted.   *)
(***************************************************************************)
Merge(c, u) == [floor |-> IF u.floor = None THEN c.floor ELSE u.floor,
                ceiling |-> IF u.ceiling = None THEN c.ceiling ELSE u.ceiling]

\* Mutant: only the update itself was validated.
AcceptBodyOnly(a, u) ==
    /\ admin[a].at = "idle"
    /\ admin' = [admin EXCEPT ![a] = [at |-> "put", merged |-> Merge(InForce, u)]]
    /\ UNCHANGED <<config, cache, limited, caller>>

Accept(a, u) ==
    /\ admin[a].at = "idle"
    /\ admin' = [admin EXCEPT ![a] = IF Valid(Merge(InForce, u))
                                     THEN [at |-> "put", merged |-> Merge(InForce, u)]
                                     ELSE [at |-> "refused", merged |-> None]]
    /\ UNCHANGED <<config, cache, limited, caller>>

\* JSON.stringify has no Infinity: it writes null.
Stored(c) == [c EXCEPT !.ceiling = IF @ = Infinity THEN None ELSE @]

PutConfig(a) ==
    /\ admin[a].at = "put"
    /\ config' = Stored(admin[a].merged)
    /\ admin' = [admin EXCEPT ![a] = [at |-> "delete", merged |-> None]]
    /\ UNCHANGED <<cache, limited, caller>>

\* A delete that fails is only logged.
DeleteCache(a, ok) ==
    /\ admin[a].at = "delete"
    /\ cache' = IF ok THEN None ELSE cache
    /\ admin' = [admin EXCEPT ![a].at = "done"]
    /\ UNCHANGED <<config, limited, caller>>

(***************************************************************************)
(* KV lets the cached estimates expire (CACHE_TTL_SECONDS) and the marker. *)
(***************************************************************************)
\* Mutant: the put of the cache has no time to live.
NeverExpires == FALSE /\ UNCHANGED vars

CacheExpires ==
    /\ cache # None
    /\ cache' = None
    /\ UNCHANGED <<config, limited, caller, admin>>

MarkerExpires ==
    /\ limited
    /\ limited' = FALSE
    /\ UNCHANGED <<config, cache, caller, admin>>

CallerStep(f) ==
    \/ ReadCache(f) \/ ReadMarker(f) \/ ClampFees(f) \/ Floors(f) \/ Return(f)
    \/ \E v \in Values : Fetched(f, v)
    \/ \E b \in BOOLEAN : FetchFails(f, b) \/ PutCache(f, b)

Next ==
    \/ \E f \in Callers : CallerStep(f)
    \/ \E a \in Admins : \/ \E u \in Updates : Accept(a, u)
                         \/ PutConfig(a)
                         \/ \E ok \in BOOLEAN : DeleteCache(a, ok)
    \/ CacheExpires \/ MarkerExpires

\* A cached entry expires whatever happens, and an invocation that has
\* clamped its answer goes on to put it or is gone.
Fairness ==
    /\ WF_vars(CacheExpires)
    /\ \A f \in Callers : WF_vars(\E b \in BOOLEAN : PutCache(f, b))

Spec == Init /\ [][Next]_vars /\ Fairness

(***************************************************************************)
(* Properties.                                                             *)
(***************************************************************************)
Fee == Nat \cup {None}

\* Every variable has its type.
TypeOK ==
    /\ config # None => config.floor \in Nat /\ config.ceiling \in Nat \cup {None}
    /\ cache \in Fee
    /\ limited \in BOOLEAN
    /\ \A f \in Callers :
          /\ caller[f].at \in {"idle", "marker", "hiro", "clamp", "put", "floors", "done"}
          /\ caller[f].raw \in Fee /\ caller[f].fee \in Fee
    /\ \A a \in Admins : admin[a].at \in {"idle", "put", "delete", "done", "refused"}

\* Two administrators who merge into the same old configuration never store
\* one that getClampConfig would throw away for the defaults, unless the
\* ceiling one of them sent is too large for a number and was stored as null.
StoredIsValid == config # None => Valid(config) \/ config.ceiling = None

Within(fee, c) == fee = None \/ (c.floor <= fee /\ fee <= c.ceiling)

\* Once the configuration no longer changes, cached estimates are for good
\* within the clamps in force: neither a fetch that read the old clamps and
\* put its result after the delete, nor a delete that failed, outlives the
\* time to live. (fee.ts promises "immediately", which neither respects.)
ClampsTakeEffect == <>[]Within(cache, InForce)
=============================================================================
