----------------------------- MODULE Statistics -----------------------------
(***************************************************************************)
(* StatsDO: counters per UTC day and hour and the dashboard's overview of  *)
(* the last and the previous 24 hours (durable-objects/stats-do.ts,        *)
(* services/stats.ts). A request of the object runs to its end undisturbed,*)
(* so each is one step; a post that is lost does not happen (callers do not*)
(* wait for it), and one that is late counts for the hour in which it      *)
(* arrives. The route of POST /record copies the fields it names, and       *)
(* terminalReason and walletIndex are not among them: the columns of the   *)
(* terminal reasons and the table of the wallets are never written, and are*)
(* left out, as are the log of transactions and the volumes.               *)
(***************************************************************************)
EXTENDS Integers, Sequences, FiniteSetsExt, Sums

CONSTANTS
    Entries,     \* TransactionLogEntry values that callers post
    Endpoints,   \* "relay", "sponsor", "settle", "verify"
    Tokens,      \* "STX", "sBTC", "USDCx"
    DayHours,    \* hours of a day, and of the rolling window
    MaxHour,     \* bound: the clock stops
    MaxEntries,  \* bound: posts
    None

VARIABLES
    now,      \* the hour
    daily,    \* daily_stats: a row per day
    hourly,   \* hourly_stats: a row per hour; NoRow when there is none
    told      \* what was posted, [at, entry], in order

vars == <<now, daily, hourly, told>>

Hours == 0..MaxHour
Day(h) == h \div DayHours
Days == 0..Day(MaxHour)

NoFees == [count |-> 0, total |-> 0, min |-> None, max |-> None]
NoRow == [total |-> 0, success |-> 0, clientErrors |-> 0, fees |-> NoFees]
NoEndpoint == [total |-> 0, success |-> 0, failed |-> 0]
NoDay == [total |-> 0, success |-> 0, failed |-> 0, clientErrors |-> 0, fees |-> NoFees,
          token |-> [t \in Tokens |-> 0], endpoint |-> [e \in Endpoints |-> NoEndpoint], errors |-> 0]

Init ==
    /\ now = 0
    /\ daily = [d \in Days |-> NoDay]
    /\ hourly = [h \in Hours |-> NoRow]
    /\ told = << >>

Tick ==
    /\ now < MaxHour
    /\ now' = now + 1
    /\ UNCHANGED <<daily, hourly, told>>

One(b) == IF b THEN 1 ELSE 0

\* The least and the greatest of the fees there are, NULL or null left out.
Least(fees) == IF fees \ {None} = {} THEN None ELSE Min(fees \ {None})
Greatest(fees) == IF fees \ {None} = {} THEN None ELSE Max(fees \ {None})

\* Fees of successful transactions that have one.
AddFee(f, e) ==
    IF ~e.success \/ e.fee = None THEN f
    ELSE [count |-> f.count + 1, total |-> f.total + e.fee,
          min |-> Least({f.min, e.fee}), max |-> Greatest({f.max, e.fee})]

CountDay(row, e) ==
    [row EXCEPT !.total = @ + 1, !.success = @ + One(e.success), !.failed = @ + One(~e.success),
                !.clientErrors = @ + One(e.clientError), !.token[e.token] = @ + 1,
                !.fees = AddFee(@, e)]

CountHour(row, e) ==
    [row EXCEPT !.total = @ + 1, !.success = @ + One(e.success),
                !.clientErrors = @ + One(e.clientError), !.fees = AddFee(@, e)]

\* Mutant: failures are left out.
CountEndpointOfSuccess(row, e) ==
    [row EXCEPT !.endpoint[e.endpoint].total = @ + One(e.success),
                !.endpoint[e.endpoint].success = @ + One(e.success)]

\* verify has a total only.
CountEndpoint(row, e) ==
    [row EXCEPT !.endpoint[e.endpoint] =
        [total   |-> @.total + 1,
         success |-> @.success + One(e.success /\ e.endpoint # "verify"),
         failed  |-> @.failed + One(~e.success /\ e.endpoint # "verify")]]

\* Mutant: pruned of what is older than the window.
KeptHalf(h) == h >= now - DayHours

\* hourly_stats is pruned of what is older than twice the window.
Kept(h) == h >= now - 2 * DayHours

\* POST /record: recordTx.
Record(e) ==
    /\ Len(told) < MaxEntries
    /\ daily' = [daily EXCEPT ![Day(now)] = CountEndpoint(CountDay(@, e), e)]
    /\ hourly' = [h \in Hours |-> CASE h = now  -> CountHour(hourly[h], e)
                                    [] h # now /\ Kept(h)  -> hourly[h]
                                    [] OTHER    -> NoRow]
    /\ told' = Append(told, [at |-> now, entry |-> e])
    /\ UNCHANGED now

\* POST /error: recordErrorCategory; one at most in a day, as a bound.
RecordError ==
    /\ daily[Day(now)].errors = 0
    /\ daily' = [daily EXCEPT ![Day(now)].errors = @ + 1]
    /\ UNCHANGED <<now, hourly, told>>

Next == Tick \/ RecordError \/ \E e \in Entries : Record(e)

Spec == Init /\ [][Next]_vars

(***************************************************************************)
(* GET /overview.                                                          *)
(***************************************************************************)
HoursOf(from, to) == {h \in Hours : from <= h /\ h <= to}
Window == HoursOf(now - (DayHours - 1), now)
PreviousWindow == HoursOf(now - (2 * DayHours - 1), now - DayHours)

\* readHourlyData, or readPrevious24hTotals, summed.
Rolling(hours) ==
    [total        |-> SumOf([h \in hours |-> hourly[h].total], hours),
     success      |-> SumOf([h \in hours |-> hourly[h].success], hours),
     clientErrors |-> SumOf([h \in hours |-> hourly[h].clientErrors], hours),
     fees         |-> SumOf([h \in hours |-> hourly[h].fees.total], hours),
     min          |-> Least({hourly[h].fees.min : h \in hours}),
     max          |-> Greatest({hourly[h].fees.max : h \in hours})]

\* readDailyStats(1): the row of the day, zeros when it has none.
Today == daily[Day(now)]

\* The fees of today stand in where the window has none.
Overview ==
    LET r == Rolling(Window)
        today == Today.fees
    IN [total |-> r.total, success |-> r.success, failed |-> r.total - r.success,
        relayErrors |-> (r.total - r.success) - r.clientErrors,
        fees |-> IF r.fees > 0 THEN r.fees ELSE today.total,
        min |-> IF r.min # None THEN r.min ELSE today.min,
        max |-> IF r.max # None THEN r.max ELSE today.max,
        previousTotal |-> Rolling(PreviousWindow).total]

(***************************************************************************)
(* Properties.                                                             *)
(***************************************************************************)
\* Every variable has its type.
TypeOK ==
    /\ now \in Hours
    /\ \A d \in Days : daily[d].total \in 0..MaxEntries /\ daily[d].fees.count \in 0..MaxEntries
    /\ \A h \in Hours : hourly[h].total \in 0..MaxEntries
    /\ Len(told) <= MaxEntries

Succeeded == {e \in Entries : e.success}
ClientErrors == {e \in Entries : e.clientError}
Paid == {e \in Succeeded : e.fee # None}

\* Which posts that came in these hours are among these.
ToldIn(hours, these) == {i \in 1..Len(told) : told[i].at \in hours /\ told[i].entry \in these}

\* The headline figures of the dashboard are those of what was posted in the
\* last window and in the one before it, across midnight and whatever was
\* pruned meanwhile: the outcomes, the relay's errors (all failures but the
\* clients'), and the sum, the least and the greatest of the fees.
OverviewCountsAll ==
    LET paid == ToldIn(Window, Paid)
        fees == {told[i].entry.fee : i \in paid}
    IN /\ Overview.total = Cardinality(ToldIn(Window, Entries))
       /\ Overview.success = Cardinality(ToldIn(Window, Succeeded))
       /\ Overview.relayErrors =
             Cardinality(ToldIn(Window, Entries \ (Succeeded \cup ClientErrors)))
       /\ Overview.previousTotal = Cardinality(ToldIn(PreviousWindow, Entries))
       /\ Overview.fees = SumOf([i \in paid |-> told[i].entry.fee], paid)
       /\ paid # {} => Overview.min = Min(fees) /\ Overview.max = Max(fees)

\* Each day's breakdowns agree with its total: by outcome, by endpoint (and
\* there by outcome), by token, and the fees with their count and extremes.
BreakdownsAddUp ==
    \A d \in Days :
        LET row == daily[d] IN
        /\ row.success + row.failed = row.total
        /\ SumOf([e \in Endpoints |-> row.endpoint[e].total], Endpoints) = row.total
        /\ \A e \in Endpoints \ {"verify"} :
              row.endpoint[e].success + row.endpoint[e].failed = row.endpoint[e].total
        /\ SumOf(row.token, Tokens) = row.total
        /\ row.fees.count > 0 => /\ row.fees.min * row.fees.count <= row.fees.total
                                 /\ row.fees.total <= row.fees.max * row.fees.count
=============================================================================
