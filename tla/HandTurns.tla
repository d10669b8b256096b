------------------------------ MODULE HandTurns ------------------------------
(***************************************************************************)
(* Whose turn it is in the alarm's sweep of the held hands (sweepHeldHands   *)
(* of nonce-do.ts): a slice of the senders that wait, in the order of their  *)
(* addresses, from an offset that the object keeps between alarms.  What is  *)
(* in the hands is left out here; SenderHand uses Slice and NextCursor.      *)
(***************************************************************************)
EXTENDS Integers, FiniteSets

CONSTANTS
    SenderCount,    \* sender addresses, numbered in the order SQL sorts them
    MaxSweep        \* MAX_SWEEP_SENDERS

Senders == 1 .. SenderCount

VARIABLES
    waiting,    \* senders with an active row in sender_hand
    cursor,     \* alarm_sender_cursor
    tick        \* parity of the number of alarms: no alarm is a stuttering step

vars == <<waiting, cursor, tick>>

Position(W, s) == Cardinality({t \in W : t < s})

\* Mutant: the slice begins after the sender the offset is at.
SliceAfter(W, c) ==
    {s \in W : LET offset == c % Cardinality(W)
               IN offset < Position(W, s) /\ Position(W, s) < offset + MaxSweep}

\* ORDER BY sender_address LIMIT MaxSweep OFFSET c % total.
Slice(W, c) ==
    {s \in W : LET offset == c % Cardinality(W)
               IN offset <= Position(W, s) /\ Position(W, s) < offset + MaxSweep}

\* Mutant: the offset is kept as it grows.
NextCursorUnwrapped(total, c) == IF total = 0 THEN c ELSE c + MaxSweep

\* The offset of the next alarm; without waiting senders the sweep returns early.
NextCursor(total, c) == IF total = 0 THEN c ELSE (c + MaxSweep) % total

Init == waiting = {} /\ cursor = 0 /\ tick = 0

\* Only senders of the slice can have their hand emptied by the sweep.
Alarm ==
    /\ \E gone \in SUBSET Slice(waiting, cursor) : waiting' = waiting \ gone
    /\ cursor' = NextCursor(Cardinality(waiting), cursor)
    /\ tick' = 1 - tick

\* A submission, a repair on demand, a replay; a row expires.
Comes(s) == s \notin waiting /\ waiting' = waiting \cup {s} /\ UNCHANGED <<cursor, tick>>
Leaves(s) == s \in waiting /\ waiting' = waiting \ {s} /\ UNCHANGED <<cursor, tick>>

Next == Alarm \/ \E s \in Senders : Comes(s) \/ Leaves(s)

\* The alarm is always set again.
Spec == Init /\ [][Next]_vars /\ WF_vars(Alarm)

--------------------------------------------------------------------------------
(* If from some time on the senders of W are the ones that wait, each of them is *)
(* in a slice again and again.                                              *)
GoesRound(W) == <>[](waiting = W) => \A s \in W : []<>(s \in Slice(W, cursor))

\* Every sender gets its turn while the number that waits is not a multiple of the
\* slice's size: the offset, which does not wrap inside a slice (7670-7683), then
\* comes back to 0 by itself.
GoesRoundUnaligned ==
    \A W \in {V \in SUBSET Senders : Cardinality(V) % MaxSweep # 0} : GoesRound(W)
================================================================================
