--------------------------- MODULE Settlement_proofs ---------------------------
(***************************************************************************)
(* Proofs about Settlement, for any number of requests and accesses,       *)
(* whatever payloads their identifiers stand for and however often a       *)
(* broadcast is tried.                                                     *)
(*                                                                         *)
(* Knowledge says of every place a transaction is written down (handler,   *)
(* polling, cache, receipt, answer) that what it says is so; a step Moves  *)
(* one process and Writes what that process knows. Way is the path of a    *)
(* handler, Leases what NonceDO lent it, Accessed what became of the       *)
(* receipts.                                                               *)
(***************************************************************************)
EXTENDS Settlement, TLAPS

--------------------------------------------------------------------------------

\* What a handler holds of its transaction is so, and so is what it told its client.
HandlerKnows(r) ==
    /\ h[r].pc \in {"liveness", "await", "receipt", "record", "status"} => h[r].tx \in accepted
    /\ h[r].status = "confirmed" =>
          h[r].pc \in {"receipt", "record", "status"} /\ Executed(h[r].tx, TRUE)
AnswerKnows(r) ==
    /\ answer[r].kind = "ok" => Holds(answer[r].tx, answer[r].status)
    /\ answer[r].kind = "aborted" => chain.tx # None /\ ~chain.ok

\* What a polling has seen is so.
PollingKnows(r) ==
    background[r] # NotPolling =>
        /\ background[r].tx \in accepted
        /\ background[r].sees = "confirmed" => Executed(background[r].tx, TRUE)
        /\ background[r].sees = "aborted" => Executed(background[r].tx, FALSE)

\* Nothing is pending once a version was executed.
NodeInv == pool # None => chain.tx = None

Knowledge ==
    /\ TypeOK /\ NodeInv
    /\ \A r \in Requests : HandlerKnows(r) /\ AnswerKnows(r) /\ PollingKnows(r)
    /\ RecordsTruthful

USE NoneAssumption, IdentsAssumption, TriesAssumption

LEMMA VersionFacts ==
    /\ Plain \in Versions /\ None \notin Versions /\ None \notin Requests
    /\ \A r \in Requests, n \in {1, 2} : <<r, n>> \in Versions
BY DEF Versions, Plain

\* A version that is called confirmed or aborted was executed.
LEMMA AwaitedIsSo ==
    ASSUME NEW v, NEW s \in Awaited(v)
    PROVE  /\ s \in {"pending", "confirmed", "aborted"}
           /\ s = "confirmed" => Executed(v, TRUE)
           /\ s = "aborted" => Executed(v, FALSE)
BY DEF Awaited, Streamed, Polled, Interpret, HiroSays

LEMMA InitKnowledge == Init => Knowledge
<1> SUFFICES ASSUME Init PROVE Knowledge
  OBVIOUS
<1> USE VersionFacts DEF Init
<1>1. TypeOK
  <2>1. h \in [Requests -> Handler] /\ answer \in [Requests -> Answer]
    BY DEF Start, Empty, Handler, NoAnswer, Answer
  <2>2. ident \in [Requests -> Nat]
    OBVIOUS
  <2>3. dedup \in [tx : Versions \cup {None}, status : {"pending", "confirmed"}, old : BOOLEAN]
    BY DEF NoEntry
  <2>4. payid \in [tx : Versions \cup {None}, hash : Nat]
    BY DEF NoPayId
  <2>5. receipts \in [Requests -> [tx : Versions \cup {None}, status : {"pending", "confirmed"},
                                  consumed : BOOLEAN]]
    BY DEF NoReceipt
  <2>6. background \in [Requests -> [tx : Versions \cup {None},
                                    sees : {"nothing", "pending", "confirmed", "aborted"}]]
    BY DEF NotPolling
  <2>7. acc \in [Accesses -> [pc : {"idle", "passed", "served", "over"}, r : Requests \cup {None}]]
    BY DEF NoAccess
  <2> QED BY <2>1, <2>2, <2>3, <2>4, <2>5, <2>6, <2>7 DEF TypeOK
<1>2. NodeInv /\ \A r \in Requests : HandlerKnows(r) /\ AnswerKnows(r) /\ PollingKnows(r)
  BY DEF NodeInv, HandlerKnows, AnswerKnows, PollingKnows, Start, Empty, NoAnswer
<1>3. RecordsTruthful
  BY DEF RecordsTruthful, StatusAnswer
<1> QED BY <1>1, <1>2, <1>3 DEF Knowledge

\* Nodes forget nothing they took, and what was executed stays so.
Lasting ==
    /\ accepted \subseteq accepted'
    /\ chain.tx # None => chain' = chain

Pcs == {"new", "dedup", "liveness", "cooldown", "sponsor", "verify", "send",
        "await", "receipt", "record", "status", "done", "dead"}
Kinds == {"none", "ok", "held", "conflict", "refused", "unsent", "aborted"}
Known == {"pending", "confirmed"}

Others(r) == \A q \in Requests \ {r} : h'[q] = h[q] /\ answer'[q] = answer[q]

LEMMA GoesOn ==
    ASSUME TypeOK, NEW r \in Requests, NEW pc \in Pcs, Goes(r, pc)
    PROVE  /\ h' \in [Requests -> Handler]
           /\ \A q \in Requests \ {r} : h'[q] = h[q]
           /\ h'[r].pc = pc /\ h'[r].round = h[r].round /\ h'[r].try = h[r].try
           /\ h'[r].tx = h[r].tx /\ h'[r].status = h[r].status
<1> DEFINE x == [h[r] EXCEPT !.pc = pc]
<1>1. h[r] \in Handler
  BY DEF TypeOK
<1>2. x \in Handler /\ x.pc = pc /\ x.round = h[r].round /\ x.try = h[r].try /\ x.tx = h[r].tx
         /\ x.status = h[r].status
  BY <1>1 DEF Handler, Pcs
<1>3. h' = [h EXCEPT ![r] = x]
  BY DEF Goes
<1> HIDE DEF x
<1>4. h' \in [Requests -> Handler] /\ h'[r] = x /\ \A q \in Requests \ {r} : h'[q] = h[q]
  BY <1>2, <1>3 DEF TypeOK
<1> QED BY <1>2, <1>4

LEMMA IsOver ==
    ASSUME TypeOK, NEW r \in Requests, NEW pc \in Pcs, Over(r, pc)
    PROVE  /\ h' \in [Requests -> Handler]
           /\ \A q \in Requests \ {r} : h'[q] = h[q]
           /\ h'[r].pc = pc /\ h'[r].status = "pending" /\ h'[r].tx = Plain /\ h'[r].try = h[r].try
<1>1. h[r] \in Handler
  BY DEF TypeOK
<1>2. Empty(pc, h[r].try) \in Handler
  BY <1>1, VersionFacts DEF Handler, Pcs, Empty
<1>3. h' = [h EXCEPT ![r] = Empty(pc, h[r].try)]
  BY DEF Over
<1>4. h' \in [Requests -> Handler] /\ h'[r] = Empty(pc, h[r].try) /\ \A q \in Requests \ {r} : h'[q] = h[q]
  BY <1>2, <1>3 DEF TypeOK
<1> QED BY <1>4 DEF Empty

LEMMA Finishes ==
    ASSUME TypeOK, NEW r \in Requests, NEW kind \in Kinds, NEW v \in Versions \cup {None}, NEW s \in Known,
           Finish(r, kind, v, s)
    PROVE  /\ h' \in [Requests -> Handler]
           /\ answer' \in [Requests -> Answer]
           /\ Others(r)
           /\ h'[r].pc = "done" /\ h'[r].status = "pending" /\ h'[r].tx = Plain /\ h'[r].try = h[r].try
           /\ answer'[r] = [kind |-> kind, tx |-> v, status |-> s]
<1>1. Over(r, "done")
  BY DEF Finish
<1>2. /\ h' \in [Requests -> Handler]
      /\ \A q \in Requests \ {r} : h'[q] = h[q]
      /\ h'[r].pc = "done" /\ h'[r].status = "pending" /\ h'[r].tx = Plain /\ h'[r].try = h[r].try
  BY <1>1, IsOver DEF Pcs
<1>3. /\ answer' \in [Requests -> Answer]
      /\ \A q \in Requests \ {r} : answer'[q] = answer[q]
      /\ answer'[r] = [kind |-> kind, tx |-> v, status |-> s]
  BY DEF Finish, TypeOK, Answer, Kinds, Known
<1> QED BY <1>2, <1>3 DEF Others

\* The shapes a handler's record changes in.
LEMMA Retargets ==
    ASSUME TypeOK, NEW r \in Requests, NEW pc \in Pcs, NEW v \in Versions,
           h' = [h EXCEPT ![r].pc = pc, ![r].tx = v]
    PROVE  /\ h' \in [Requests -> Handler]
           /\ \A q \in Requests \ {r} : h'[q] = h[q]
           /\ h'[r].pc = pc /\ h'[r].round = h[r].round /\ h'[r].try = h[r].try
           /\ h'[r].tx = v /\ h'[r].status = h[r].status
<1>1. h \in [Requests -> Handler] /\ h[r] \in Handler
  BY DEF TypeOK
<1>2. h' = [q \in Requests |-> IF q = r THEN [h[r] EXCEPT !.pc = pc, !.tx = v] ELSE h[q]]
  BY <1>1
<1>3. [h[r] EXCEPT !.pc = pc, !.tx = v] \in Handler
  BY <1>1 DEF Handler, Pcs
<1> QED BY <1>1, <1>2, <1>3 DEF Handler

LEMMA StartsToSend ==
    ASSUME TypeOK, NEW r \in Requests, h' = [h EXCEPT ![r].pc = "send", ![r].try = 1, ![r].failed = FALSE]
    PROVE  /\ h' \in [Requests -> Handler]
           /\ \A q \in Requests \ {r} : h'[q] = h[q]
           /\ h'[r].pc = "send" /\ h'[r].round = h[r].round /\ h'[r].try = 1
           /\ h'[r].tx = h[r].tx /\ h'[r].status = h[r].status
<1> DEFINE x == [h[r] EXCEPT !.pc = "send", !.try = 1, !.failed = FALSE]
<1>1. h \in [Requests -> Handler] /\ h[r] \in Handler
  BY DEF TypeOK
<1>2. h' = [q \in Requests |-> IF q = r THEN x ELSE h[q]]
  BY <1>1
<1>3. 1 \in 1 .. MaxTries
  OBVIOUS
<1>4. x \in Handler
  BY <1>1, <1>3 DEF Handler
<1> QED BY <1>1, <1>2, <1>4 DEF Handler

LEMMA TriesNext ==
    ASSUME TypeOK, NEW r \in Requests, h[r].try < MaxTries,
           h' = [h EXCEPT ![r].try = @ + 1, ![r].failed = TRUE]
    PROVE  /\ h' \in [Requests -> Handler]
           /\ \A q \in Requests \ {r} : h'[q] = h[q]
           /\ h'[r].pc = h[r].pc /\ h'[r].round = h[r].round /\ h'[r].try = h[r].try + 1
           /\ h'[r].tx = h[r].tx /\ h'[r].status = h[r].status
<1> DEFINE x == [h[r] EXCEPT !.try = h[r].try + 1, !.failed = TRUE]
<1>1. h \in [Requests -> Handler] /\ h[r] \in Handler
  BY DEF TypeOK
<1>2. h' = [q \in Requests |-> IF q = r THEN x ELSE h[q]]
  BY <1>1
<1>3. h[r].try + 1 \in 1 .. MaxTries
  BY <1>1 DEF Handler
<1>4. x \in Handler
  BY <1>1, <1>3 DEF Handler
<1> QED BY <1>1, <1>2, <1>4 DEF Handler

LEMMA LearnsStatus ==
    ASSUME TypeOK, NEW r \in Requests, NEW s \in Known, h' = [h EXCEPT ![r].pc = "receipt", ![r].status = s]
    PROVE  /\ h' \in [Requests -> Handler]
           /\ \A q \in Requests \ {r} : h'[q] = h[q]
           /\ h'[r].pc = "receipt" /\ h'[r].round = h[r].round /\ h'[r].try = h[r].try
           /\ h'[r].tx = h[r].tx /\ h'[r].status = s
<1> DEFINE x == [h[r] EXCEPT !.pc = "receipt", !.status = s]
<1>1. h \in [Requests -> Handler] /\ h[r] \in Handler
  BY DEF TypeOK
<1>2. h' = [q \in Requests |-> IF q = r THEN x ELSE h[q]]
  BY <1>1
<1>3. x \in Handler
  BY <1>1 DEF Handler, Known
<1> QED BY <1>1, <1>2, <1>3 DEF Handler

LEMMA SponsorsAgain ==
    ASSUME TypeOK, NEW r \in Requests, h' = [h EXCEPT ![r].pc = "sponsor", ![r].round = 2]
    PROVE  /\ h' \in [Requests -> Handler]
           /\ \A q \in Requests \ {r} : h'[q] = h[q]
           /\ h'[r].pc = "sponsor" /\ h'[r].round = 2 /\ h'[r].try = h[r].try
           /\ h'[r].tx = h[r].tx /\ h'[r].status = h[r].status
<1> DEFINE x == [h[r] EXCEPT !.pc = "sponsor", !.round = 2]
<1>1. h \in [Requests -> Handler] /\ h[r] \in Handler
  BY DEF TypeOK
<1>2. h' = [q \in Requests |-> IF q = r THEN x ELSE h[q]]
  BY <1>1
<1>3. x \in Handler
  BY <1>1 DEF Handler
<1> QED BY <1>1, <1>2, <1>3 DEF Handler

LEMMA ExecutedLasts ==
    ASSUME Lasting, NEW v \in Versions, NEW ok, Executed(v, ok)
    PROVE  Executed(v, ok)'
BY VersionFacts DEF Lasting, Executed

LEMMA HoldsLasts ==
    ASSUME Lasting, accepted \subseteq Versions, NEW v, NEW s, Holds(v, s)
    PROVE  Holds(v, s)'
BY ExecutedLasts DEF Lasting, Holds

\* What a step does to the process of r: it goes on with what it knows, or ends with a
\* true answer.
Moves(r) ==
    /\ h' \in [Requests -> Handler] /\ answer' \in [Requests -> Answer]
    /\ Others(r)
    /\ HandlerKnows(r)' /\ AnswerKnows(r)'

LEMMA GoingOnMoves ==
    ASSUME Knowledge, NEW r \in Requests, h' \in [Requests -> Handler],
           \A q \in Requests \ {r} : h'[q] = h[q],
           UNCHANGED answer, Lasting, HandlerKnows(r)'
    PROVE  Moves(r)
<1>1. TypeOK /\ AnswerKnows(r)
  BY DEF Knowledge
<1>2. accepted \subseteq Versions /\ answer \in [Requests -> Answer]
  BY <1>1 DEF TypeOK
<1>3. AnswerKnows(r)'
  BY <1>1, <1>2, HoldsLasts DEF AnswerKnows, Lasting
<1> QED BY <1>2, <1>3 DEF Moves, Others

LEMMA FinishingMoves ==
    ASSUME Knowledge, NEW r \in Requests, NEW kind \in Kinds, NEW v \in Versions \cup {None}, NEW s \in Known,
           Finish(r, kind, v, s),
           kind = "ok" => Holds(v, s)',
           kind = "aborted" => (chain.tx # None /\ ~chain.ok)'
    PROVE  Moves(r)
<1>1. /\ h' \in [Requests -> Handler]
      /\ answer' \in [Requests -> Answer]
      /\ Others(r)
      /\ h'[r].pc = "done" /\ h'[r].status = "pending" /\ h'[r].tx = Plain /\ h'[r].try = h[r].try
      /\ answer'[r] = [kind |-> kind, tx |-> v, status |-> s]
  BY Finishes DEF Knowledge
<1>2. HandlerKnows(r)' /\ AnswerKnows(r)'
  BY <1>1 DEF HandlerKnows, AnswerKnows
<1> QED BY <1>1, <1>2 DEF Moves

LEMMA RefusingMoves ==
    ASSUME Knowledge, NEW r \in Requests, NEW kind \in {"held", "conflict", "refused", "unsent"}, Refuse(r, kind)
    PROVE  Moves(r)
BY FinishingMoves DEF Refuse, Kinds, Known

\* The steps before the broadcast.
LEMMA EarlyMoves ==
    ASSUME Knowledge, NEW r \in Requests,
           \/ RelayTurnsAway(r) \/ SelfPayTurnsAway(r) \/ SettleTurnsAway(r) \/ SettleRejects(r)
           \/ CheckPaymentId(r) \/ CheckDedup(r) \/ CheckLiveness(r) \/ CheckCooldown(r)
           \/ Sponsor(r) \/ SponsorFails(r) \/ Verify(r)
    PROVE  Moves(r)
<1>1. UNCHANGED node /\ Lasting /\ TypeOK /\ RecordsTruthful /\ HandlerKnows(r)
  BY DEF RelayTurnsAway, SelfPayTurnsAway, SettleTurnsAway, SettleRejects, CheckPaymentId, CheckDedup,
         CheckLiveness, CheckCooldown, Sponsor, SponsorFails, Verify, node, Lasting, Knowledge
<1>2. CASE RelayTurnsAway(r) \/ SelfPayTurnsAway(r) \/ SettleTurnsAway(r) \/ SettleRejects(r)
  BY <1>1, <1>2, RefusingMoves DEF RelayTurnsAway, SelfPayTurnsAway, SettleTurnsAway, SettleRejects
<1>3. CASE CheckPaymentId(r)
  <2>1. CASE Identified(r) /\ payid.hash = ident[r] /\ Finish(r, "ok", payid.tx, "pending")
    <3>1. payid.tx \in accepted
      BY <1>1, <2>1 DEF Identified, RecordsTruthful, NoPayId
    <3>2. payid.tx \in Versions \cup {None} /\ payid.tx \in accepted'
      BY <1>1, <3>1 DEF TypeOK, Lasting
    <3> QED BY <2>1, <3>2, FinishingMoves DEF Kinds, Known, Holds
  <2>2. CASE Refuse(r, "conflict")
    BY <2>2, RefusingMoves
  <2>3. CASE At(r, "new") /\ Goes(r, "dedup") /\ UNCHANGED answer
    <3>1. HandlerKnows(r)'
      BY <1>1, <2>3, GoesOn DEF Pcs, At, HandlerKnows
    <3> QED BY <1>1, <2>3, <3>1, GoesOn, GoingOnMoves DEF Pcs
  <2> QED BY <1>3, <2>1, <2>2, <2>3 DEF CheckPaymentId
<1>4. CASE CheckDedup(r)
  <2>1. AfterDedup(r) \in {"verify", "cooldown", "sponsor"}
    BY DEF AfterDedup
  <2>2. CASE At(r, "dedup") /\ Goes(r, AfterDedup(r)) /\ UNCHANGED answer
    <3>1. h'[r].pc = AfterDedup(r) /\ h'[r].status = h[r].status /\ h' \in [Requests -> Handler]
          /\ \A q \in Requests \ {r} : h'[q] = h[q]
      BY <1>1, <2>1, <2>2, GoesOn DEF Pcs
    <3>2. HandlerKnows(r)'
      BY <1>1, <2>1, <2>2, <3>1 DEF At, HandlerKnows
    <3> QED BY <1>1, <2>2, <3>1, <3>2, GoingOnMoves
  <2>3. CASE dedup # NoEntry /\ Finish(r, "ok", dedup.tx, dedup.status)
    <3>1. dedup.tx \in Versions \cup {None} /\ dedup.status \in Known /\ accepted \subseteq Versions
      BY <1>1 DEF TypeOK, Known
    <3>2. dedup.tx \in accepted /\ (dedup.status = "confirmed" => Executed(dedup.tx, TRUE))
      BY <1>1, <2>3 DEF RecordsTruthful, Holds
    <3>3. dedup.tx \in accepted' /\ (dedup.status = "confirmed" => chain'.tx = dedup.tx /\ chain'.ok = TRUE)
      BY <1>1, <3>2 DEF node, Executed
    <3> QED BY <2>3, <3>1, <3>3, FinishingMoves DEF Kinds, Holds, Executed
  <2>4. CASE /\ At(r, "dedup") /\ dedup # NoEntry
             /\ h' = [h EXCEPT ![r].pc = "liveness", ![r].tx = dedup.tx] /\ UNCHANGED answer
    <3>1. dedup.tx \in accepted /\ accepted \subseteq Versions
      BY <1>1, <2>4 DEF RecordsTruthful, Holds, TypeOK
    <3>2. /\ h' \in [Requests -> Handler]
          /\ \A q \in Requests \ {r} : h'[q] = h[q]
          /\ h'[r].tx = dedup.tx /\ h'[r].status = h[r].status
      BY <1>1, <2>4, <3>1, Retargets DEF Pcs
    <3>3. HandlerKnows(r)'
      BY <1>1, <2>4, <3>1, <3>2 DEF At, HandlerKnows, Lasting
    <3> QED BY <1>1, <2>4, <3>2, <3>3, GoingOnMoves
  <2> QED BY <1>4, <2>2, <2>3, <2>4 DEF CheckDedup
<1>5. CASE CheckLiveness(r)
  <2>1. AfterDedup(r) \in {"verify", "cooldown", "sponsor"}
    BY DEF AfterDedup
  <2>2. CASE Finish(r, "ok", h[r].tx, "pending")
    <3>1. h[r].tx \in accepted' /\ h[r].tx \in Versions
      BY <1>1, <1>5 DEF HandlerKnows, CheckLiveness, At, Lasting, TypeOK, Handler
    <3> QED BY <2>2, <3>1, FinishingMoves DEF Kinds, Known, Holds
  <2>3. CASE h' = [h EXCEPT ![r].pc = AfterDedup(r), ![r].tx = Plain] /\ UNCHANGED answer
    <3>1. /\ h' \in [Requests -> Handler]
          /\ \A q \in Requests \ {r} : h'[q] = h[q]
          /\ h'[r].pc = AfterDedup(r) /\ h'[r].status = h[r].status
      BY <1>1, <2>1, <2>3, Retargets, VersionFacts DEF Pcs
    <3>2. HandlerKnows(r)'
      BY <1>1, <1>5, <2>1, <3>1 DEF CheckLiveness, At, HandlerKnows
    <3> QED BY <1>1, <2>3, <3>1, <3>2, GoingOnMoves
  <2> QED BY <1>5, <2>2, <2>3 DEF CheckLiveness
<1>6. CASE CheckCooldown(r)
  <2>1. CASE At(r, "cooldown") /\ Goes(r, "sponsor") /\ UNCHANGED answer
    <3>1. HandlerKnows(r)'
      BY <1>1, <2>1, GoesOn DEF Pcs, At, HandlerKnows
    <3> QED BY <1>1, <2>1, <3>1, GoesOn, GoingOnMoves DEF Pcs
  <2> QED BY <1>6, <2>1, RefusingMoves DEF CheckCooldown
<1>7. CASE Sponsor(r)
  <2>1. <<r, h[r].round>> \in Versions
    BY <1>1, VersionFacts DEF TypeOK, Handler
  <2>2. /\ h' \in [Requests -> Handler]
        /\ \A q \in Requests \ {r} : h'[q] = h[q]
        /\ h'[r].pc = "verify" /\ h'[r].status = h[r].status
    BY <1>1, <1>7, <2>1, Retargets DEF Sponsor, Pcs
  <2>3. HandlerKnows(r)'
    BY <1>1, <1>7, <2>2 DEF Sponsor, At, HandlerKnows
  <2> QED BY <1>1, <1>7, <2>2, <2>3, GoingOnMoves DEF Sponsor
<1>8. CASE SponsorFails(r)
  BY <1>8, RefusingMoves DEF SponsorFails, EndConflict
<1>9. CASE Verify(r)
  <2>1. CASE At(r, "verify") /\ h' = [h EXCEPT ![r].pc = "send", ![r].try = 1, ![r].failed = FALSE]
             /\ UNCHANGED answer
    <3>1. HandlerKnows(r)'
      BY <1>1, <2>1, StartsToSend DEF At, HandlerKnows
    <3> QED BY <1>1, <2>1, <3>1, StartsToSend, GoingOnMoves
  <2> QED BY <1>9, <2>1, RefusingMoves DEF Verify
<1> QED BY <1>2, <1>3, <1>4, <1>5, <1>6, <1>7, <1>8, <1>9

\* The steps of broadcastAndConfirm.  A node takes a version only while none was executed.
LEMMA EndingMoves ==
    ASSUME Knowledge, NEW r \in Requests, NEW kind \in {"refused", "unsent", "aborted"},
           EndError(r, kind) \/ EndConflict(r),
           kind = "aborted" => (chain.tx # None /\ ~chain.ok)'
    PROVE  Moves(r)
<1>1. CASE Refuse(r, "conflict")
  BY <1>1, RefusingMoves
<1>2. CASE Refuse(r, kind)
  BY <1>2, FinishingMoves DEF Refuse, Kinds, Known
<1> QED BY <1>1, <1>2 DEF EndError, EndConflict

LEMMA SendMoves ==
    ASSUME Knowledge, NEW r \in Requests,
           \/ SendAccepted(r) \/ (\E taken \in BOOLEAN : SendFails(r, taken)) \/ SendConflict(r)
           \/ SendConflictPlain(r) \/ SendRejected(r) \/ Await(r)
    PROVE  Moves(r)
<1>1. TypeOK /\ HandlerKnows(r) /\ h[r] \in Handler
  BY DEF Knowledge, TypeOK
<1>2. Lasting
  BY DEF SendAccepted, SendFails, SendConflict, SendConflictPlain, SendRejected, Await, node, Lasting,
         Accept, Takes
<1>3. CASE SendAccepted(r)
  <2>1. CASE h[r].failed
    BY <1>3, <2>1, EndingMoves DEF SendAccepted
  <2>2. CASE ~h[r].failed
    <3>1. PICK pc \in {"await", "record"} : Goes(r, pc) /\ UNCHANGED answer
      BY <1>3, <2>2 DEF SendAccepted
    <3>2. /\ h' \in [Requests -> Handler]
          /\ \A q \in Requests \ {r} : h'[q] = h[q]
          /\ h'[r].pc = pc /\ h'[r].tx = h[r].tx /\ h'[r].status = h[r].status
      BY <1>1, <3>1, GoesOn DEF Pcs
    <3>3. h[r].pc = "send" /\ h[r].tx \in accepted'
      BY <1>3 DEF SendAccepted, At, Accept
    <3>4. HandlerKnows(r)'
      BY <1>1, <3>2, <3>3 DEF HandlerKnows
    <3> QED BY <1>2, <3>1, <3>2, <3>4, GoingOnMoves
  <2> QED BY <2>1, <2>2
<1>4. CASE \E taken \in BOOLEAN : SendFails(r, taken)
  <2>1. CASE h[r].try < MaxTries
    <3>1. h' = [h EXCEPT ![r].try = @ + 1, ![r].failed = TRUE] /\ UNCHANGED answer /\ h[r].pc = "send"
      BY <1>4, <2>1 DEF SendFails, At
    <3>2. /\ h' \in [Requests -> Handler]
          /\ \A q \in Requests \ {r} : h'[q] = h[q]
          /\ h'[r].pc = h[r].pc /\ h'[r].status = h[r].status
      BY <1>1, <2>1, <3>1, TriesNext
    <3>3. HandlerKnows(r)'
      BY <1>1, <3>1, <3>2 DEF HandlerKnows
    <3> QED BY <1>2, <3>1, <3>2, <3>3, GoingOnMoves
  <2>2. CASE ~(h[r].try < MaxTries)
    BY <1>4, <2>2, EndingMoves DEF SendFails
  <2> QED BY <2>1, <2>2
<1>5. CASE SendConflict(r)
  <2>1. CASE h[r].round = 1
    <3>1. h' = [h EXCEPT ![r].pc = "sponsor", ![r].round = 2] /\ UNCHANGED answer /\ h[r].pc = "send"
      BY <1>5, <2>1 DEF SendConflict, At
    <3>2. /\ h' \in [Requests -> Handler]
          /\ \A q \in Requests \ {r} : h'[q] = h[q]
          /\ h'[r].pc = "sponsor" /\ h'[r].status = h[r].status
      BY <1>1, <3>1, SponsorsAgain
    <3>3. HandlerKnows(r)'
      BY <1>1, <3>1, <3>2 DEF HandlerKnows
    <3> QED BY <1>2, <3>1, <3>2, <3>3, GoingOnMoves
  <2>2. CASE h[r].round # 1
    BY <1>5, <2>2, EndingMoves DEF SendConflict
  <2> QED BY <2>1, <2>2
<1>6. CASE SendConflictPlain(r)
  BY <1>6, RefusingMoves DEF SendConflictPlain
<1>7. CASE SendRejected(r)
  BY <1>7, EndingMoves DEF SendRejected
<1>8. CASE Await(r)
  <2>1. h[r].pc = "await" /\ h[r].tx \in accepted /\ h[r].tx \in Versions /\ UNCHANGED node
    BY <1>1, <1>8 DEF Await, At, HandlerKnows, Handler
  <2>2. PICK s \in Awaited(h[r].tx) :
           IF s = "aborted" THEN EndError(r, "aborted")
           ELSE h' = [h EXCEPT ![r].pc = "receipt", ![r].status = s] /\ UNCHANGED answer
    BY <1>8 DEF Await
  <2>3. /\ s \in {"pending", "confirmed", "aborted"}
        /\ s = "confirmed" => chain.tx = h[r].tx /\ chain.ok = TRUE
        /\ s = "aborted" => chain.tx = h[r].tx /\ chain.ok = FALSE
    BY AwaitedIsSo DEF Executed
  <2>4. CASE s = "aborted"
    <3>1. chain.tx # None /\ ~chain.ok /\ chain' = chain
      BY <2>1, <2>3, <2>4, VersionFacts DEF node
    <3> QED BY <2>2, <2>4, <3>1, EndingMoves
  <2>5. CASE s # "aborted"
    <3>1. s \in Known /\ h' = [h EXCEPT ![r].pc = "receipt", ![r].status = s] /\ UNCHANGED answer
      BY <2>2, <2>3, <2>5 DEF Known
    <3>2. /\ h' \in [Requests -> Handler]
          /\ \A q \in Requests \ {r} : h'[q] = h[q]
          /\ h'[r].pc = "receipt" /\ h'[r].tx = h[r].tx /\ h'[r].status = s
      BY <1>1, <3>1, LearnsStatus
    <3>3. HandlerKnows(r)'
      BY <2>1, <2>3, <3>2 DEF HandlerKnows, Executed, node
    <3> QED BY <1>2, <3>1, <3>2, <3>3, GoingOnMoves
  <2> QED BY <2>4, <2>5
<1> QED BY <1>3, <1>4, <1>5, <1>6, <1>7, <1>8

\* The steps after the broadcast, and the end of a Worker.
LEMMA LateMoves ==
    ASSUME Knowledge, NEW r \in Requests,
           StoreReceipt(r) \/ RecordDedup(r) \/ RecordTxStatus(r) \/ Dies(r)
    PROVE  Moves(r)
<1>1. UNCHANGED node /\ Lasting /\ TypeOK /\ HandlerKnows(r) /\ h[r] \in Handler
  BY DEF Knowledge, TypeOK, StoreReceipt, RecordDedup, RecordTxStatus, Dies, node, Lasting
<1>2. ASSUME NEW pc \in {"record", "status"}, h[r].pc \in {"receipt", "record"}, Goes(r, pc), UNCHANGED answer
      PROVE  Moves(r)
  <2>1. /\ h' \in [Requests -> Handler]
        /\ \A q \in Requests \ {r} : h'[q] = h[q]
        /\ h'[r].pc = pc /\ h'[r].tx = h[r].tx /\ h'[r].status = h[r].status
    BY <1>1, <1>2, GoesOn DEF Pcs
  <2>2. HandlerKnows(r)'
    BY <1>1, <1>2, <2>1 DEF HandlerKnows, Executed, node
  <2> QED BY <1>1, <1>2, <2>1, <2>2, GoingOnMoves
<1>3. ASSUME NEW s \in Known, h[r].pc \in {"record", "status"}, Finish(r, "ok", h[r].tx, s),
             s \in {"pending", h[r].status}
      PROVE  Moves(r)
  <2>1. h[r].tx \in Versions /\ h[r].tx \in accepted' /\ (s = "confirmed" => chain'.tx = h[r].tx /\ chain'.ok = TRUE)
    BY <1>1, <1>3 DEF HandlerKnows, Executed, node, Handler
  <2> QED BY <1>3, <2>1, FinishingMoves DEF Kinds, Holds, Executed
<1>4. CASE StoreReceipt(r)
  BY <1>2, <1>4 DEF StoreReceipt, At
<1>5. CASE RecordDedup(r)
  <2>1. h[r].pc = "record" /\ h[r].status \in Known
    BY <1>1, <1>5 DEF RecordDedup, At, Handler, Known
  <2> QED BY <1>2, <1>3, <1>5, <2>1 DEF RecordDedup
<1>6. CASE RecordTxStatus(r)
  BY <1>3, <1>6 DEF RecordTxStatus, At, Known
<1>7. CASE Dies(r)
  <2>1. /\ h' \in [Requests -> Handler]
        /\ \A q \in Requests \ {r} : h'[q] = h[q]
        /\ h'[r].pc = "dead" /\ h'[r].status = "pending" /\ UNCHANGED answer
    BY <1>1, <1>7, IsOver DEF Dies, Pcs
  <2>2. HandlerKnows(r)'
    BY <2>1 DEF HandlerKnows
  <2> QED BY <1>1, <2>1, <2>2, GoingOnMoves
<1> QED BY <1>4, <1>5, <1>6, <1>7

\* What a handler's step may do to the rest of the system.
Writes(r) ==
    /\ UNCHANGED <<mode, sponsorable, ident, acc, served>>
    /\ UNCHANGED node \/ Accept(h[r].tx)
    /\ nonce' \in [Versions -> {"free", "leased", "released", "used"}]
    /\ cooldown' \in BOOLEAN
    /\ \/ dedup' \in {dedup, NoEntry}
       \/ (At(r, "record") /\ dedup' = [tx |-> h[r].tx, status |-> h[r].status, old |-> FALSE])
    /\ \/ receipts' = receipts
       \/ /\ At(r, "receipt")
          /\ receipts' = [receipts EXCEPT ![r] =
                            [tx |-> h[r].tx, status |-> h[r].status, consumed |-> FALSE]]
    /\ \/ payid' = payid
       \/ (At(r, "status") /\ payid' = [tx |-> h[r].tx, hash |-> ident[r]])
    /\ \/ txStatus' = txStatus
       \/ (At(r, "status") /\ txStatus' = [txStatus EXCEPT ![h[r].tx] = "broadcast"])
    /\ \/ background' = background
       \/ (At(r, "status") /\ background' = [background EXCEPT ![r] = [tx |-> h[r].tx, sees |-> "nothing"]])

LEMMA TellTyped ==
    ASSUME TypeOK, NEW r \in Requests, NEW what \in {"released", "used"}
    PROVE  Tell(r, what) \in [Versions -> {"free", "leased", "released", "used"}]
BY DEF TypeOK, Tell

LEMMA HandlerWrites ==
    ASSUME TypeOK, NEW r \in Requests, HandlerStep(r) \/ Dies(r)
    PROVE  Writes(r)
<1> USE DEF Writes, node, kv, process, access, given
<1>1. /\ nonce \in [Versions -> {"free", "leased", "released", "used"}] /\ cooldown \in BOOLEAN
      /\ h[r].round \in {1, 2}
  BY DEF TypeOK, Handler
<1>2. CASE \/ RelayTurnsAway(r) \/ SelfPayTurnsAway(r) \/ SettleTurnsAway(r) \/ SettleRejects(r)
           \/ CheckPaymentId(r) \/ CheckDedup(r) \/ CheckLiveness(r) \/ CheckCooldown(r) \/ Dies(r)
  BY <1>1, <1>2 DEF RelayTurnsAway, SelfPayTurnsAway, SettleTurnsAway, SettleRejects, CheckPaymentId,
                    CheckDedup, CheckLiveness, CheckCooldown, Dies
<1>3. CASE Sponsor(r)
  BY <1>1, <1>3 DEF Sponsor
<1>4. CASE SponsorFails(r)
  BY <1>1, <1>4 DEF SponsorFails, EndConflict
<1>5. CASE Verify(r)
  BY <1>1, <1>5, TellTyped DEF Verify
<1>6. ASSUME NEW kind, EndError(r, kind) PROVE nonce' = Tell(r, "released") /\ cooldown' \in BOOLEAN
  BY <1>1, <1>6 DEF EndError, EndConflict
<1>7. CASE SendAccepted(r)
  BY <1>1, <1>6, <1>7, TellTyped DEF SendAccepted
<1>8. CASE SendFails(r, TRUE) \/ SendFails(r, FALSE)
  BY <1>1, <1>6, <1>8, TellTyped DEF SendFails
<1>9. CASE SendConflict(r)
  BY <1>1, <1>9, TellTyped DEF SendConflict, EndConflict
<1>10. CASE SendConflictPlain(r) \/ SendRejected(r)
  BY <1>1, <1>6, <1>10, TellTyped DEF SendConflictPlain, SendRejected
<1>11. CASE Await(r)
  BY <1>1, <1>6, <1>11, TellTyped DEF Await
<1>12. CASE StoreReceipt(r)
  BY <1>1, <1>12 DEF StoreReceipt
<1>13. CASE RecordDedup(r)
  BY <1>1, <1>13 DEF RecordDedup, PutDedup
<1>14. CASE RecordTxStatus(r)
  BY <1>1, <1>14 DEF RecordTxStatus, PutPayId
<1> QED BY <1>2, <1>3, <1>4, <1>5, <1>7, <1>8, <1>9, <1>10, <1>11, <1>12, <1>13, <1>14 DEF HandlerStep

\* Whoever writes a record writes what he knows of a version.
LEMMA HandlerKeepsKnowledge ==
    ASSUME Knowledge, NEW r \in Requests, HandlerStep(r) \/ Dies(r)
    PROVE  Knowledge'
<1>1. Writes(r) /\ TypeOK /\ NodeInv /\ RecordsTruthful /\ HandlerKnows(r) /\ h[r] \in Handler
  BY HandlerWrites DEF Knowledge, TypeOK
<1>2. Moves(r)
  <2>1. CASE SendFails(r, TRUE) \/ SendFails(r, FALSE)
    BY <2>1, SendMoves
  <2> QED BY <2>1, EarlyMoves, SendMoves, LateMoves DEF HandlerStep
<1>3. /\ h[r].tx \in Versions /\ h[r].status \in Known
  BY <1>1 DEF Handler, Known
<1>4. Lasting /\ accepted' \subseteq Versions
  BY <1>1, <1>3 DEF Writes, node, Lasting, Accept, Takes, TypeOK
<1>5. h[r].pc \in {"receipt", "record", "status"} =>
        /\ h[r].tx \in accepted'
        /\ h[r].status = "confirmed" => chain'.tx = h[r].tx /\ chain'.ok = TRUE
  BY <1>1, <1>3, <1>4, VersionFacts DEF HandlerKnows, Executed, Lasting
<1>6. TypeOK'
  <2>1. h' \in [Requests -> Handler] /\ answer' \in [Requests -> Answer]
    BY <1>2 DEF Moves
  <2>2. /\ mode' \in [Requests -> Modes] /\ sponsorable' \in BOOLEAN /\ ident' \in [Requests -> Nat]
        /\ pool' \in Versions \cup {None} /\ accepted' \subseteq Versions
        /\ chain' \in [tx : Versions \cup {None}, ok : BOOLEAN]
        /\ acc' \in [Accesses -> [pc : {"idle", "passed", "served", "over"}, r : Requests \cup {None}]]
        /\ served' \in [Requests -> Nat]
    BY <1>1, <1>3, <1>4 DEF TypeOK, Writes, node, Accept
  <2>3. dedup' \in [tx : Versions \cup {None}, status : {"pending", "confirmed"}, old : BOOLEAN]
    <3> DEFINE E == [tx : Versions \cup {None}, status : {"pending", "confirmed"}, old : BOOLEAN]
    <3>1. dedup \in E
      BY <1>1 DEF TypeOK
    <3>2. NoEntry \in E /\ [tx |-> h[r].tx, status |-> h[r].status, old |-> FALSE] \in E
      BY <1>3 DEF NoEntry, Known
    <3> QED BY <1>1, <3>1, <3>2 DEF Writes
  <2>4. payid' \in [tx : Versions \cup {None}, hash : Nat]
    BY <1>1, <1>3 DEF TypeOK, Writes
  <2>5. txStatus' \in [Versions -> {"none", "broadcast", "pending", "confirmed", "failed"}]
    BY <1>1, <1>3 DEF TypeOK, Writes
  <2>6. receipts' \in [Requests -> [tx : Versions \cup {None}, status : {"pending", "confirmed"},
                                    consumed : BOOLEAN]]
    <3> DEFINE E == [tx : Versions \cup {None}, status : {"pending", "confirmed"}, consumed : BOOLEAN]
               x == [tx |-> h[r].tx, status |-> h[r].status, consumed |-> FALSE]
    <3>1. receipts \in [Requests -> E]
      BY <1>1 DEF TypeOK
    <3>2. x \in E
      BY <1>3 DEF Known
    <3>3. receipts' = receipts \/ receipts' = [receipts EXCEPT ![r] = x]
      BY <1>1 DEF Writes
    <3> HIDE DEF E, x
    <3>4. receipts' \in [Requests -> E]
      BY <3>1, <3>2, <3>3
    <3> QED BY <3>4 DEF E
  <2>7. background' \in [Requests -> [tx : Versions \cup {None},
                                      sees : {"nothing", "pending", "confirmed", "aborted"}]]
    BY <1>1, <1>3 DEF TypeOK, Writes
  <2>8. nonce' \in [Versions -> {"free", "leased", "released", "used"}] /\ cooldown' \in BOOLEAN
    BY <1>1 DEF Writes
  <2> QED BY <2>1, <2>2, <2>3, <2>4, <2>5, <2>6, <2>7, <2>8 DEF TypeOK
<1>7. NodeInv'
  BY <1>1 DEF Writes, node, Accept, Takes, NodeInv
<1>8. \A q \in Requests : HandlerKnows(q)' /\ AnswerKnows(q)'
  <2>1. ASSUME NEW q \in Requests \ {r} PROVE HandlerKnows(q)' /\ AnswerKnows(q)'
    <3>1. HandlerKnows(q) /\ AnswerKnows(q) /\ h'[q] = h[q] /\ answer'[q] = answer[q] /\ h[q].tx \in Versions
      BY <1>1, <1>2 DEF Knowledge, Moves, Others, TypeOK, Handler
    <3>2. HandlerKnows(q)'
      BY <1>4, <3>1, VersionFacts DEF HandlerKnows, Executed, Lasting
    <3>3. AnswerKnows(q)'
      BY <1>1, <1>4, <3>1, VersionFacts DEF AnswerKnows, Holds, Executed, Lasting, TypeOK
    <3> QED BY <3>2, <3>3
  <2> QED BY <1>2, <2>1 DEF Moves
<1>9. \A q \in Requests : PollingKnows(q)'
  <2> SUFFICES ASSUME NEW q \in Requests PROVE PollingKnows(q)'
    OBVIOUS
  <2>1. PollingKnows(q) /\ background \in [Requests -> [tx : Versions \cup {None},
                                           sees : {"nothing", "pending", "confirmed", "aborted"}]]
    BY <1>1 DEF Knowledge, TypeOK
  <2>2. CASE background'[q] = background[q]
    BY <1>4, <2>1, <2>2, VersionFacts DEF PollingKnows, Executed, Lasting
  <2>3. CASE At(r, "status") /\ background'[q] = [tx |-> h[r].tx, sees |-> "nothing"]
    BY <1>5, <2>3 DEF PollingKnows, At
  <2> QED BY <1>1, <2>1, <2>2, <2>3 DEF Writes
<1>10. RecordsTruthful'
  <2>1. ASSUME dedup' # NoEntry PROVE Holds(dedup.tx, dedup.status)'
    <3>1. CASE dedup' = dedup
      BY <1>1, <1>4, <2>1, <3>1, VersionFacts DEF RecordsTruthful, Holds, Executed, Lasting, TypeOK
    <3>2. CASE At(r, "record") /\ dedup' = [tx |-> h[r].tx, status |-> h[r].status, old |-> FALSE]
      BY <1>5, <3>2 DEF Holds, Executed, At
    <3> QED BY <1>1, <2>1, <3>1, <3>2 DEF Writes
  <2>2. payid' # NoPayId => payid'.tx \in accepted'
    BY <1>1, <1>4, <1>5 DEF Writes, RecordsTruthful, At, Lasting
  <2>3. ASSUME NEW q \in Requests, receipts'[q] # NoReceipt PROVE Holds(receipts[q].tx, receipts[q].status)'
    <3>1. CASE receipts'[q] = receipts[q]
      BY <1>1, <1>4, <2>3, <3>1, VersionFacts DEF RecordsTruthful, Holds, Executed, Lasting, TypeOK
    <3>2. CASE At(r, "receipt") /\ receipts'[q] = [tx |-> h[r].tx, status |-> h[r].status, consumed |-> FALSE]
      BY <1>5, <3>2 DEF Holds, Executed, At
    <3>3. receipts \in [Requests -> [tx : Versions \cup {None}, status : {"pending", "confirmed"},
                                     consumed : BOOLEAN]]
      BY <1>1 DEF TypeOK
    <3> QED BY <1>1, <3>1, <3>2, <3>3 DEF Writes
  <2>4. ASSUME NEW v \in Versions
        PROVE  /\ StatusAnswer(v)' # "not_found" => v \in accepted'
               /\ StatusAnswer(v)' = "confirmed" => Executed(v, TRUE)'
               /\ StatusAnswer(v)' = "failed" => Executed(v, FALSE)'
    <3>1. CASE txStatus'[v] = txStatus[v]
      BY <1>1, <1>4, <3>1, VersionFacts DEF RecordsTruthful, StatusAnswer, Executed, Lasting
    <3>2. CASE v \in accepted' /\ txStatus'[v] = "broadcast"
      BY <3>2 DEF StatusAnswer
    <3>3. txStatus \in [Versions -> {"none", "broadcast", "pending", "confirmed", "failed"}]
      BY <1>1 DEF TypeOK
    <3> QED BY <1>1, <1>3, <1>5, <3>1, <3>2, <3>3 DEF Writes, At
  <2> QED BY <2>1, <2>2, <2>3, <2>4 DEF RecordsTruthful
<1> QED BY <1>6, <1>7, <1>8, <1>9, <1>10 DEF Knowledge

\* What is known stays known while the node and the chain move on.
LEMMA ProcessesLast ==
    ASSUME Knowledge, Lasting, UNCHANGED <<h, answer>>, NEW r \in Requests
    PROVE  HandlerKnows(r)' /\ AnswerKnows(r)'
<1>1. TypeOK /\ HandlerKnows(r) /\ AnswerKnows(r)
  BY DEF Knowledge
<1>2. h[r].tx \in Versions /\ accepted \subseteq Versions
  BY <1>1 DEF TypeOK, Handler
<1>3. HandlerKnows(r)'
  BY <1>1, <1>2, VersionFacts DEF HandlerKnows, Executed, Lasting
<1>4. AnswerKnows(r)'
  BY <1>1, <1>2, VersionFacts DEF AnswerKnows, Holds, Executed, Lasting
<1> QED BY <1>3, <1>4

LEMMA PollingLasts ==
    ASSUME Knowledge, Lasting, NEW r \in Requests,
           background'[r] \in {background[r], NotPolling}
    PROVE  PollingKnows(r)'
<1>1. TypeOK /\ PollingKnows(r)
  BY DEF Knowledge
<1>2. accepted \subseteq Versions
  BY <1>1 DEF TypeOK
<1> QED BY <1>1, <1>2, VersionFacts DEF PollingKnows, Executed, Lasting

LEMMA DedupLasts ==
    ASSUME Knowledge, Lasting, dedup' # NoEntry,
           dedup # NoEntry /\ dedup'.tx = dedup.tx /\ dedup'.status = dedup.status
    PROVE  Holds(dedup.tx, dedup.status)'
BY VersionFacts DEF Knowledge, TypeOK, RecordsTruthful, Holds, Executed, Lasting

LEMMA ReceiptLasts ==
    ASSUME Knowledge, Lasting, NEW r \in Requests, receipts[r] # NoReceipt,
           receipts'[r].tx = receipts[r].tx /\ receipts'[r].status = receipts[r].status
    PROVE  Holds(receipts[r].tx, receipts[r].status)'
BY VersionFacts DEF Knowledge, TypeOK, RecordsTruthful, Holds, Executed, Lasting

LEMMA StatusLasts ==
    ASSUME Knowledge, Lasting, NEW v \in Versions, txStatus'[v] = txStatus[v]
    PROVE  /\ StatusAnswer(v)' # "not_found" => v \in accepted'
           /\ StatusAnswer(v)' = "confirmed" => Executed(v, TRUE)'
           /\ StatusAnswer(v)' = "failed" => Executed(v, FALSE)'
BY VersionFacts DEF Knowledge, RecordsTruthful, StatusAnswer, Executed, Lasting

LEMMA BackgroundKeepsKnowledge ==
    ASSUME Knowledge, NEW r \in Requests, Background(r)
    PROVE  Knowledge'
<1> USE DEF node, kv, access, given
<1>1. /\ UNCHANGED <<h, answer, nonce, node, cooldown, payid, receipts, access, given>>
      /\ Lasting /\ TypeOK /\ NodeInv /\ RecordsTruthful /\ PollingKnows(r)
  BY DEF Background, BackgroundSees, BackgroundPuts, BackgroundDies, Lasting, Knowledge
<1> DEFINE B == [tx : Versions \cup {None}, sees : {"nothing", "pending", "confirmed", "aborted"}]
<1>2. background \in [Requests -> B] /\ background[r].tx \in Versions \cup {None}
  BY <1>1 DEF TypeOK
<1>3. NotPolling \in B /\ NotPolling.sees = "nothing"
  BY DEF NotPolling
<1>4. NodeInv'
  BY <1>1 DEF NodeInv
<1>5. \A q \in Requests : HandlerKnows(q)' /\ AnswerKnows(q)'
  BY <1>1, ProcessesLast
<1>6. ASSUME background' \in [Requests -> B], txStatus' \in [Versions -> {"none", "broadcast", "pending", "confirmed", "failed"}],
             dedup' \in [tx : Versions \cup {None}, status : {"pending", "confirmed"}, old : BOOLEAN]
      PROVE  TypeOK'
  BY <1>1, <1>6 DEF TypeOK
<1>7. ASSUME dedup' = dedup PROVE dedup' # NoEntry => Holds(dedup.tx, dedup.status)'
  BY <1>1, <1>7, DedupLasts
<1>8. payid' # NoPayId => payid'.tx \in accepted'
  BY <1>1 DEF RecordsTruthful
<1>9. \A q \in Requests : receipts'[q] # NoReceipt => Holds(receipts[q].tx, receipts[q].status)'
  BY <1>1, ReceiptLasts
<1>10. CASE BackgroundSees(r)
  <2>1. PICK s \in Awaited(background[r].tx) : background' = [background EXCEPT ![r].sees = s]
    BY <1>10 DEF BackgroundSees
  <2>2. /\ s \in {"pending", "confirmed", "aborted"}
        /\ s = "confirmed" => chain.tx = background[r].tx /\ chain.ok = TRUE
        /\ s = "aborted" => chain.tx = background[r].tx /\ chain.ok = FALSE
    BY AwaitedIsSo DEF Executed
  <2> DEFINE x == [tx |-> background[r].tx, sees |-> s]
  <2>3. x \in B /\ x = [background[r] EXCEPT !.sees = s]
    BY <1>2, <2>2
  <2>4. background' = [background EXCEPT ![r] = x]
    BY <2>1, <2>3
  <2>5. background' \in [Requests -> B] /\ background'[r] = x /\ \A q \in Requests \ {r} : background'[q] = background[q]
    BY <1>2, <2>3, <2>4
  <2>6. PollingKnows(r)'
    BY <1>1, <1>10, <2>2, <2>5 DEF PollingKnows, Executed, BackgroundSees
  <2>7. \A q \in Requests : PollingKnows(q)'
    BY <1>1, <2>5, <2>6, PollingLasts
  <2>8. UNCHANGED <<dedup, txStatus>>
    BY <1>10 DEF BackgroundSees
  <2>9. RecordsTruthful'
    BY <1>1, <1>7, <1>8, <1>9, <2>8, StatusLasts DEF RecordsTruthful
  <2> QED BY <1>1, <1>4, <1>5, <1>6, <2>5, <2>7, <2>8, <2>9 DEF Knowledge, TypeOK
<1>11. CASE BackgroundDies(r)
  <2>1. background' = [background EXCEPT ![r] = NotPolling] /\ UNCHANGED <<dedup, txStatus>>
    BY <1>11 DEF BackgroundDies
  <2>2. background' \in [Requests -> B] /\ \A q \in Requests : background'[q] \in {background[q], NotPolling}
    BY <1>2, <1>3, <2>1
  <2>3. \A q \in Requests : PollingKnows(q)'
    BY <1>1, <2>2, PollingLasts
  <2>4. RecordsTruthful'
    BY <1>1, <1>7, <1>8, <1>9, <2>1, StatusLasts DEF RecordsTruthful
  <2> QED BY <1>1, <1>4, <1>5, <1>6, <2>1, <2>2, <2>3, <2>4 DEF Knowledge, TypeOK
<1>12. CASE BackgroundPuts(r)
  <2> DEFINE v == background[r].tx
             s == IF background[r].sees = "aborted" THEN "failed" ELSE background[r].sees
  <2>1. background[r].sees # "nothing" /\ background' = [background EXCEPT ![r] = NotPolling]
    BY <1>12 DEF BackgroundPuts
  <2>2. /\ v \in accepted /\ v \in Versions
        /\ s \in {"pending", "confirmed", "failed"}
        /\ s = "confirmed" => chain.tx = v /\ chain.ok = TRUE
        /\ s = "failed" => chain.tx = v /\ chain.ok = FALSE
    <3>1. background[r] # NotPolling /\ background[r] \in B
      BY <1>2, <1>3, <2>1
    <3> QED BY <1>1, <2>1, <3>1 DEF PollingKnows, Executed, TypeOK
  <2>3. txStatus' = txStatus \/ txStatus' = [txStatus EXCEPT ![v] = s]
    BY <1>12 DEF BackgroundPuts
  <2>4. dedup' = dedup \/ (s = "confirmed" /\ dedup' = [tx |-> v, status |-> "confirmed", old |-> FALSE])
    BY <1>12 DEF BackgroundPuts, PutDedup
  <2> HIDE DEF v, s
  <2>5. background' \in [Requests -> B] /\ \A q \in Requests : background'[q] \in {background[q], NotPolling}
    BY <1>2, <1>3, <2>1
  <2>6. \A q \in Requests : PollingKnows(q)'
    BY <1>1, <2>5, PollingLasts
  <2>7. txStatus' \in [Versions -> {"none", "broadcast", "pending", "confirmed", "failed"}]
    BY <1>1, <2>2, <2>3 DEF TypeOK
  <2>8. dedup' \in [tx : Versions \cup {None}, status : {"pending", "confirmed"}, old : BOOLEAN]
    <3>1. [tx |-> v, status |-> "confirmed", old |-> FALSE] \in
             [tx : Versions \cup {None}, status : {"pending", "confirmed"}, old : BOOLEAN]
      BY <2>2
    <3> QED BY <1>1, <2>4, <3>1 DEF TypeOK
  <2>9. dedup' # NoEntry => Holds(dedup.tx, dedup.status)'
    <3>1. CASE s = "confirmed" /\ dedup' = [tx |-> v, status |-> "confirmed", old |-> FALSE]
      BY <1>1, <2>2, <3>1 DEF Holds, Executed
    <3> QED BY <1>7, <2>4, <3>1
  <2>10. ASSUME NEW u \in Versions
         PROVE  /\ StatusAnswer(u)' # "not_found" => u \in accepted'
                /\ StatusAnswer(u)' = "confirmed" => Executed(u, TRUE)'
                /\ StatusAnswer(u)' = "failed" => Executed(u, FALSE)'
    <3>1. txStatus'[u] = txStatus[u] \/ (u = v /\ txStatus'[u] = s)
      BY <1>1, <2>2, <2>3 DEF TypeOK
    <3>2. CASE u = v /\ txStatus'[u] = s
      BY <1>1, <2>2, <3>2 DEF StatusAnswer, Executed
    <3> QED BY <1>1, <3>1, <3>2, StatusLasts
  <2>11. RecordsTruthful'
    BY <1>8, <1>9, <2>9, <2>10 DEF RecordsTruthful
  <2> QED BY <1>4, <1>5, <1>6, <2>5, <2>6, <2>7, <2>8, <2>11 DEF Knowledge
<1> QED BY <1>10, <1>11, <1>12 DEF Background

LEMMA AccessKeepsKnowledge ==
    ASSUME Knowledge, NEW a \in Accesses, Access(a)
    PROVE  Knowledge'
<1> USE DEF node, kv, process, given
<1>1. /\ UNCHANGED <<process, node, dedup, cooldown, payid, txStatus, given>>
      /\ Lasting /\ TypeOK /\ NodeInv /\ RecordsTruthful
  BY DEF Access, AccessReads, AccessRefused, AccessServed, MarkConsumed, Lasting, Knowledge
<1> DEFINE A == [pc : {"idle", "passed", "served", "over"}, r : Requests \cup {None}]
           R == [tx : Versions \cup {None}, status : {"pending", "confirmed"}, consumed : BOOLEAN]
<1>2. acc \in [Accesses -> A] /\ acc[a] \in A /\ served \in [Requests -> Nat] /\ receipts \in [Requests -> R]
  BY <1>1 DEF TypeOK
<1>3. \A q \in Requests : HandlerKnows(q)' /\ AnswerKnows(q)' /\ PollingKnows(q)'
  BY <1>1, ProcessesLast, PollingLasts
<1>4. NodeInv'
  BY <1>1 DEF NodeInv
<1>5. acc' \in [Accesses -> A]
  <2>1. CASE \E r \in Requests : AccessReads(a, r)
    BY <1>2, <2>1 DEF AccessReads
  <2>2. CASE AccessRefused(a)
    BY <1>2, <2>2 DEF AccessRefused, NoAccess
  <2>3. CASE AccessServed(a)
    <3> DEFINE x == [pc |-> "served", r |-> acc[a].r]
    <3>1. x \in A /\ x = [acc[a] EXCEPT !.pc = "served"]
      BY <1>2
    <3>2. acc' = [acc EXCEPT ![a] = x]
      BY <2>3, <3>1 DEF AccessServed
    <3> QED BY <1>2, <3>1, <3>2
  <2>4. CASE MarkConsumed(a)
    <3> DEFINE x == [pc |-> "over", r |-> acc[a].r]
    <3>1. x \in A /\ x = [acc[a] EXCEPT !.pc = "over"]
      BY <1>2
    <3>2. acc' = [acc EXCEPT ![a] = x]
      BY <2>4, <3>1 DEF MarkConsumed
    <3> QED BY <1>2, <3>1, <3>2
  <2> QED BY <2>1, <2>2, <2>3, <2>4 DEF Access
<1>6. served' \in [Requests -> Nat]
  BY <1>2 DEF Access, AccessReads, AccessRefused, AccessServed, MarkConsumed
<1>7. /\ receipts' \in [Requests -> R]
      /\ \A q \in Requests : /\ receipts'[q] # NoReceipt => receipts[q] # NoReceipt
                             /\ receipts'[q].tx = receipts[q].tx /\ receipts'[q].status = receipts[q].status
  <2>1. CASE receipts' = receipts
    BY <1>2, <2>1
  <2>2. CASE receipts' = [receipts EXCEPT ![acc[a].r].consumed = TRUE] /\ receipts[acc[a].r] # NoReceipt
    <3> DEFINE r == acc[a].r
               x == [receipts[r] EXCEPT !.consumed = TRUE]
    <3>1. CASE r \in Requests
      <4>1. receipts[r] \in R
        BY <1>2, <3>1
      <4>2. x \in R /\ x.tx = receipts[r].tx /\ x.status = receipts[r].status
        BY <4>1
      <4>3. receipts' = [receipts EXCEPT ![r] = x]
        BY <2>2
      <4> HIDE DEF R, x
      <4>4. receipts' \in [Requests -> R] /\ receipts'[r] = x /\ \A q \in Requests \ {r} : receipts'[q] = receipts[q]
        BY <1>2, <3>1, <4>2, <4>3
      <4> QED BY <2>2, <4>2, <4>4
    <3>2. CASE r \notin Requests
      <4>1. receipts' = receipts
        BY <1>2, <2>2, <3>2
      <4> QED BY <1>2, <4>1
    <3> QED BY <3>1, <3>2
  <2> QED BY <2>1, <2>2 DEF Access, AccessReads, AccessRefused, AccessServed, MarkConsumed
<1>8. RecordsTruthful'
  <2>1. dedup' # NoEntry => Holds(dedup.tx, dedup.status)'
    BY <1>1, DedupLasts
  <2>2. \A q \in Requests : receipts'[q] # NoReceipt => Holds(receipts[q].tx, receipts[q].status)'
    BY <1>1, <1>7, ReceiptLasts
  <2> QED BY <1>1, <2>1, <2>2, StatusLasts DEF RecordsTruthful
<1>9. TypeOK'
  BY <1>1, <1>5, <1>6, <1>7 DEF TypeOK
<1> QED BY <1>3, <1>4, <1>8, <1>9 DEF Knowledge

LEMMA EnvironmentKeepsKnowledge ==
    ASSUME Knowledge, Environment \/ UNCHANGED vars
    PROVE  Knowledge'
<1> USE DEF node, kv, process, access, given
<1>1. /\ UNCHANGED <<process, access, txStatus, receipts, given, accepted>>
      /\ TypeOK /\ NodeInv /\ RecordsTruthful
  BY DEF Environment, Mine, Evict, DedupAges, DedupExpires, PayIdExpires, CooldownExpires, vars, Knowledge
<1>2. /\ Lasting /\ NodeInv'
      /\ pool' \in {pool, None} /\ payid' \in {payid, NoPayId} /\ cooldown' \in {cooldown, FALSE}
      /\ chain' = chain \/ \E ok \in BOOLEAN : pool # None /\ chain' = [tx |-> pool, ok |-> ok]
      /\ dedup' \in {dedup, NoEntry, [dedup EXCEPT !.old = TRUE]}
      /\ dedup' # NoEntry => dedup # NoEntry
  BY <1>1 DEF Environment, Mine, Evict, DedupAges, DedupExpires, PayIdExpires, CooldownExpires, vars,
              Lasting, NodeInv
<1> DEFINE E == [tx : Versions \cup {None}, status : {"pending", "confirmed"}, old : BOOLEAN]
<1>3. dedup \in E /\ NoEntry \in E
  BY <1>1 DEF TypeOK, NoEntry
<1>4. dedup' \in E /\ (dedup' # NoEntry => dedup'.tx = dedup.tx /\ dedup'.status = dedup.status)
  <2>1. [dedup EXCEPT !.old = TRUE] \in E
    BY <1>3
  <2> QED BY <1>2, <1>3, <2>1
<1>5. TypeOK'
  <2>1. payid' \in [tx : Versions \cup {None}, hash : Nat]
    BY <1>1, <1>2 DEF TypeOK, NoPayId
  <2>2. chain' \in [tx : Versions \cup {None}, ok : BOOLEAN] /\ pool' \in Versions \cup {None}
    BY <1>1, <1>2 DEF TypeOK
  <2> QED BY <1>1, <1>2, <1>4, <2>1, <2>2 DEF TypeOK
<1>6. \A q \in Requests : HandlerKnows(q)' /\ AnswerKnows(q)' /\ PollingKnows(q)'
  BY <1>1, <1>2, ProcessesLast, PollingLasts
<1>7. RecordsTruthful'
  <2>1. dedup' # NoEntry => Holds(dedup.tx, dedup.status)'
    BY <1>2, <1>4, DedupLasts
  <2>2. \A q \in Requests : receipts'[q] # NoReceipt => Holds(receipts[q].tx, receipts[q].status)'
    BY <1>1, <1>2, ReceiptLasts
  <2>3. payid' # NoPayId => payid'.tx \in accepted'
    BY <1>1, <1>2 DEF RecordsTruthful
  <2> QED BY <1>1, <1>2, <2>1, <2>2, <2>3, StatusLasts DEF RecordsTruthful
<1> QED BY <1>2, <1>5, <1>6, <1>7 DEF Knowledge

LEMMA NextKeepsKnowledge == Knowledge /\ [Next]_vars => Knowledge'
BY HandlerKeepsKnowledge, BackgroundKeepsKnowledge, AccessKeepsKnowledge, EnvironmentKeepsKnowledge DEF Next

LEMMA AlwaysKnowledge == Spec => []Knowledge
BY InitKnowledge, NextKeepsKnowledge, PTL DEF Spec

\* Type correctness, whatever the requests send and however often the broadcast is tried.
THEOREM TypeCorrect == Spec => []TypeOK
<1>1. Knowledge => TypeOK
  BY DEF Knowledge
<1> QED BY <1>1, AlwaysKnowledge, PTL

\* Whatever the caches, the retries and the lost answers make of a request, what its client
\* is told of the payment is so, and stays so (the answers of /relay and /settle).
THEOREM AnswersTrue == Spec => []AnswersTruthful
<1>1. Knowledge => AnswersTruthful
  BY DEF Knowledge, AnswersTruthful, AnswerKnows
<1> QED BY <1>1, AlwaysKnowledge, PTL

\* The caches in RELAY_KV say only what the node and the chain did, although their
\* writers race (recordDedup, recordPaymentId, storeReceipt, recordTxStatus,
\* updateTxStatus).
THEOREM RecordsTrue == Spec => []RecordsTruthful
<1>1. Knowledge => RecordsTruthful
  BY DEF Knowledge
<1> QED BY <1>1, AlwaysKnowledge, PTL

--------------------------------------------------------------------------------
(* The way of a handler. *)

Edges ==
    {<<"new", "dedup">>, <<"dedup", "liveness">>, <<"liveness", "verify">>, <<"liveness", "cooldown">>,
     <<"liveness", "sponsor">>, <<"dedup", "verify">>, <<"dedup", "cooldown">>, <<"dedup", "sponsor">>,
     <<"cooldown", "sponsor">>, <<"sponsor", "verify">>, <<"send", "await">>, <<"send", "record">>,
     <<"await", "receipt">>, <<"receipt", "record">>, <<"record", "status">>}

\* It ends, goes along an edge, starts to send, tries again, or is sponsored a second time.
Ends(r) == h[r].pc \notin {"done", "dead"} /\ h'[r].pc \in {"done", "dead"}
Forward(r) == <<h[r].pc, h'[r].pc>> \in Edges /\ h'[r].round = h[r].round
Sends(r) == h[r].pc = "verify" /\ h'[r].pc = "send" /\ h'[r].round = h[r].round
Retries(r) ==
    /\ h[r].pc = "send" /\ h'[r].pc = "send" /\ h'[r].round = h[r].round
    /\ h'[r].try = h[r].try + 1
Restarts(r) == h[r].pc = "send" /\ h'[r].pc = "sponsor" /\ h[r].round = 1 /\ h'[r].round = 2

Way(r) ==
    /\ h' \in [Requests -> Handler]
    /\ \A q \in Requests \ {r} : h'[q] = h[q]
    /\ Ends(r) \/ Forward(r) \/ Sends(r) \/ Retries(r) \/ Restarts(r)

LEMMA FinishingEnds ==
    ASSUME TypeOK, NEW r \in Requests, h[r].pc \notin {"done", "dead"},
           \/ \E kind : Refuse(r, kind)
           \/ \E kind, v, s : Finish(r, kind, v, s)
           \/ Over(r, "dead")
    PROVE  Way(r)
<1>1. \E pc \in {"done", "dead"} : Over(r, pc)
  BY DEF Refuse, Finish
<1> QED BY <1>1, IsOver DEF Way, Ends, Pcs

LEMMA GoingOnIsForward ==
    ASSUME TypeOK, NEW r \in Requests, NEW pc \in Pcs, Goes(r, pc), <<h[r].pc, pc>> \in Edges
    PROVE  Way(r)
BY GoesOn DEF Way, Forward

LEMMA HandlersWay ==
    ASSUME Knowledge, NEW r \in Requests, HandlerStep(r) \/ Dies(r)
    PROVE  Way(r)
<1>1. TypeOK /\ h[r] \in Handler
  BY DEF Knowledge, TypeOK
<1>2. AfterDedup(r) \in {"verify", "cooldown", "sponsor"}
  BY DEF AfterDedup
<1>3. ASSUME NEW kind, EndError(r, kind) \/ EndConflict(r), h[r].pc \notin {"done", "dead"}
      PROVE  Way(r)
  BY <1>1, <1>3, FinishingEnds DEF EndError, EndConflict
<1>4. CASE \/ RelayTurnsAway(r) \/ SelfPayTurnsAway(r) \/ SettleTurnsAway(r) \/ SettleRejects(r)
           \/ SendConflictPlain(r) \/ Dies(r)
  BY <1>1, <1>4, FinishingEnds DEF RelayTurnsAway, SelfPayTurnsAway, SettleTurnsAway, SettleRejects,
                             SendConflictPlain, Dies, At
<1>5. CASE CheckPaymentId(r)
  BY <1>1, <1>5, FinishingEnds, GoingOnIsForward DEF CheckPaymentId, At, Pcs, Edges
<1>6. CASE CheckDedup(r)
  <2>1. h[r].pc = "dedup"
    BY <1>6 DEF CheckDedup, At
  <2>2. CASE Goes(r, AfterDedup(r))
    BY <1>1, <1>2, <2>1, <2>2, GoingOnIsForward DEF Pcs, Edges
  <2>3. CASE Finish(r, "ok", dedup.tx, dedup.status)
    BY <1>1, <2>1, <2>3, FinishingEnds
  <2>4. CASE dedup # NoEntry /\ h' = [h EXCEPT ![r].pc = "liveness", ![r].tx = dedup.tx]
    <3>1. dedup.tx \in Versions
      BY <1>1, <2>4 DEF Knowledge, RecordsTruthful, Holds, TypeOK
    <3> QED BY <1>1, <2>1, <2>4, <3>1, Retargets DEF Way, Forward, Edges, Pcs
  <2> QED BY <1>6, <2>2, <2>3, <2>4 DEF CheckDedup
<1>7. CASE CheckLiveness(r)
  <2>1. h[r].pc = "liveness"
    BY <1>7 DEF CheckLiveness, At
  <2>2. CASE h' = [h EXCEPT ![r].pc = AfterDedup(r), ![r].tx = Plain]
    BY <1>1, <1>2, <2>1, <2>2, Retargets, VersionFacts DEF Way, Forward, Edges, Pcs
  <2> QED BY <1>1, <1>7, <2>1, <2>2, FinishingEnds DEF CheckLiveness
<1>8. CASE CheckCooldown(r)
  BY <1>1, <1>8, FinishingEnds, GoingOnIsForward DEF CheckCooldown, At, Pcs, Edges
<1>9. CASE Sponsor(r)
  <2>1. <<r, h[r].round>> \in Versions
    BY <1>1, VersionFacts DEF Handler
  <2>2. h[r].pc = "sponsor" /\ h' = [h EXCEPT ![r].pc = "verify", ![r].tx = <<r, h[r].round>>]
    BY <1>9 DEF Sponsor, At
  <2> QED BY <1>1, <2>1, <2>2, Retargets DEF Way, Forward, Edges, Pcs
<1>10. CASE SponsorFails(r)
  BY <1>1, <1>3, <1>10, FinishingEnds DEF SponsorFails, At
<1>11. CASE Verify(r)
  BY <1>1, <1>11, FinishingEnds, StartsToSend DEF Verify, At, Way, Sends
<1>12. CASE SendAccepted(r)
  BY <1>1, <1>3, <1>12, GoingOnIsForward DEF SendAccepted, At, Pcs, Edges
<1>13. CASE SendFails(r, TRUE) \/ SendFails(r, FALSE)
  <2>1. h[r].pc = "send"
    BY <1>13 DEF SendFails, At
  <2>2. CASE h[r].try < MaxTries /\ h' = [h EXCEPT ![r].try = @ + 1, ![r].failed = TRUE]
    BY <1>1, <2>1, <2>2, TriesNext DEF Way, Retries
  <2> QED BY <1>3, <1>13, <2>1, <2>2 DEF SendFails
<1>14. CASE SendConflict(r)
  <2>1. h[r].pc = "send"
    BY <1>14 DEF SendConflict, At
  <2>2. CASE h[r].round = 1 /\ h' = [h EXCEPT ![r].pc = "sponsor", ![r].round = 2]
    BY <1>1, <2>1, <2>2, SponsorsAgain DEF Way, Restarts
  <2> QED BY <1>3, <1>14, <2>1, <2>2 DEF SendConflict
<1>15. CASE SendRejected(r)
  BY <1>3, <1>15 DEF SendRejected, At
<1>16. CASE Await(r)
  <2>1. h[r].pc = "await"
    BY <1>16 DEF Await, At
  <2>2. ASSUME NEW s \in Awaited(h[r].tx), s # "aborted", h' = [h EXCEPT ![r].pc = "receipt", ![r].status = s]
        PROVE  Way(r)
    <3>1. s \in Known
      BY <2>2, AwaitedIsSo DEF Known
    <3> QED BY <1>1, <2>1, <2>2, <3>1, LearnsStatus DEF Way, Forward, Edges
  <2> QED BY <1>3, <1>16, <2>1, <2>2 DEF Await
<1>17. CASE StoreReceipt(r)
  BY <1>1, <1>17, GoingOnIsForward DEF StoreReceipt, At, Pcs, Edges
<1>18. CASE RecordDedup(r)
  BY <1>1, <1>18, FinishingEnds, GoingOnIsForward DEF RecordDedup, At, Pcs, Edges
<1>19. CASE RecordTxStatus(r)
  BY <1>1, <1>19, FinishingEnds DEF RecordTxStatus, At
<1> QED BY <1>4, <1>5, <1>6, <1>7, <1>8, <1>9, <1>10, <1>11, <1>12, <1>13, <1>14, <1>15, <1>16, <1>17, <1>18,
           <1>19 DEF HandlerStep

\* What a handler has left to do, one step after the other.
LEMMA RankIs ==
    ASSUME NEW x \in Handler
    PROVE  LET more == IF x.round = 1 THEN MaxTries + 7 ELSE 0
           IN  /\ x.pc \in {"done", "dead"} => Rank(x) = 0
               /\ x.pc \notin {"done", "dead"} => Rank(x) \in Nat /\ Rank(x) > more
               /\ x.pc = "status" => Rank(x) = more + 1
               /\ x.pc = "record" => Rank(x) = more + 2
               /\ x.pc = "receipt" => Rank(x) = more + 3
               /\ x.pc = "await" => Rank(x) = more + 4
               /\ x.pc = "send" => Rank(x) = more + (5 + MaxTries - x.try)
               /\ x.pc = "verify" => Rank(x) = more + (5 + MaxTries)
               /\ x.pc = "sponsor" => Rank(x) = more + (6 + MaxTries)
               /\ x.pc = "cooldown" => Rank(x) = more + (7 + MaxTries)
               /\ x.pc = "liveness" => Rank(x) = more + (8 + MaxTries)
               /\ x.pc = "dedup" => Rank(x) = more + (9 + MaxTries)
               /\ x.pc = "new" => Rank(x) = more + (10 + MaxTries)
<1> DEFINE more == IF x.round = 1 THEN MaxTries + 7 ELSE 0
<1>1. x.round \in {1, 2} /\ x.try \in 1 .. MaxTries /\ x.pc \in Pcs
  BY DEF Handler, Pcs
<1>2. more = (2 - x.round) * (MaxTries + 7)
  BY <1>1
<1> HIDE DEF more
<1> QED BY <1>1, <1>2 DEF Rank, Pcs, more

LEMMA WayLeadsOn ==
    ASSUME TypeOK, NEW r \in Requests, Way(r)
    PROVE  Rank(h'[r]) < Rank(h[r])
<1>1. h[r] \in Handler /\ h'[r] \in Handler
  BY DEF TypeOK, Way
<1>2. /\ h[r].round \in {1, 2} /\ h[r].try \in 1 .. MaxTries
      /\ h'[r].round \in {1, 2} /\ h'[r].try \in 1 .. MaxTries
  BY <1>1 DEF Handler
<1>3. CASE Ends(r)
  BY <1>1, <1>3, RankIs DEF Ends
<1>4. CASE Forward(r)
  BY <1>1, <1>2, <1>4, RankIs DEF Forward, Edges
<1>5. CASE Sends(r)
  BY <1>1, <1>2, <1>5, RankIs DEF Sends
<1>6. CASE Retries(r)
  BY <1>1, <1>2, <1>6, RankIs DEF Retries
<1>7. CASE Restarts(r)
  BY <1>1, <1>2, <1>7, RankIs DEF Restarts
<1> QED BY <1>3, <1>4, <1>5, <1>6, <1>7 DEF Way

LEMMA OthersStandStill ==
    ASSUME Next
    PROVE  (\E r \in Requests : HandlerStep(r) \/ Dies(r)) \/ UNCHANGED <<h, nonce>>
BY DEF Next, Background, BackgroundSees, BackgroundPuts, BackgroundDies, Access, AccessReads, AccessRefused,
       AccessServed, MarkConsumed, Environment, Mine, Evict, DedupAges, DedupExpires, PayIdExpires,
       CooldownExpires, process

\* Every step of a handler brings it nearer to its answer, through the attempts of the
\* broadcast and the second sponsoring: a request is answered in a bounded number of them.
THEOREM AnswerComesNearer == Spec => NearerToTheAnswer
<1>1. ASSUME Knowledge, [Next]_vars, NEW r \in Requests, h'[r] # h[r]
      PROVE  Rank(h'[r]) < Rank(h[r])
  <2>1. PICK q \in Requests : HandlerStep(q) \/ Dies(q)
    BY <1>1, OthersStandStill DEF vars, process
  <2>2. Way(q) /\ TypeOK
    BY <1>1, <2>1, HandlersWay DEF Knowledge
  <2>3. q = r
    BY <1>1, <2>2 DEF Way
  <2> QED BY <2>2, <2>3, WayLeadsOn
<1>2. Knowledge /\ [Next]_vars => [\A r \in Requests : h'[r] # h[r] => Rank(h'[r]) < Rank(h[r])]_vars
  BY <1>1
<1> QED BY <1>2, AlwaysKnowledge, PTL DEF Spec, NearerToTheAnswer

--------------------------------------------------------------------------------
(* Nonces and receipts. *)

\* A nonce is leased only to the version the handler is at, or that of a Worker that died.
LeaseKnows(r) ==
    /\ h[r].pc \in {"cooldown", "sponsor"} => sponsorable
    /\ \A n \in {1, 2} : nonce[<<r, n>>] = "leased" =>
          /\ sponsorable
          /\ h[r].pc \in {"verify", "send", "await", "dead"}
          /\ h[r].pc # "dead" => h[r].tx = <<r, n>>
Leases == \A r \in Requests : LeaseKnows(r)

\* What a step does to the nonces of one request: told of, or gone on with.
Freed(r) == \A n \in {1, 2} : nonce'[<<r, n>>] # "leased"
Carried(r) == \A n \in {1, 2} : nonce'[<<r, n>>] = "leased" => nonce[<<r, n>>] = "leased"

LEMMA TellFrees ==
    ASSUME TypeOK, NEW r \in Requests, LeaseKnows(r), NEW what \in {"released", "used"}, nonce' = Tell(r, what),
           h[r].pc # "dead"
    PROVE  Freed(r) /\ \A q \in Requests \ {r} : Carried(q)
<1>1. h[r].tx \in Versions /\ nonce \in [Versions -> {"free", "leased", "released", "used"}]
  BY DEF TypeOK, Handler
<1> QED BY <1>1, VersionFacts DEF LeaseKnows, Freed, Carried, Tell

\* A handler that lets go of its version has told NonceDO of it.
LEMMA HandlerKeepsLeases ==
    ASSUME Knowledge, Leases, NEW r \in Requests, HandlerStep(r) \/ Dies(r)
    PROVE  Leases'
<1>1. TypeOK /\ h[r] \in Handler /\ LeaseKnows(r) /\ Way(r) /\ UNCHANGED sponsorable
  BY HandlersWay, HandlerWrites DEF Knowledge, TypeOK, Leases, Writes
<1>2. SUFFICES LeaseKnows(r)' /\ \A q \in Requests \ {r} : Carried(q)
  <2>1. ASSUME NEW q \in Requests \ {r}, Carried(q) PROVE LeaseKnows(q)'
    BY <1>1, <2>1 DEF Leases, LeaseKnows, Way, Carried
  <2> QED BY <2>1 DEF Leases
<1>3. nonce \in [Versions -> {"free", "leased", "released", "used"}] /\ AfterDedup(r) \in {"verify", "cooldown", "sponsor"}
  BY <1>1 DEF TypeOK, AfterDedup
<1>4. ASSUME UNCHANGED nonce PROVE \A q \in Requests : Carried(q)
  BY <1>4 DEF Carried
<1>5. ASSUME Freed(r), h'[r].pc \in {"cooldown", "sponsor"} => sponsorable PROVE LeaseKnows(r)'
  BY <1>1, <1>5 DEF LeaseKnows, Freed
<1>6. ASSUME UNCHANGED nonce, h[r].pc \notin {"verify", "send", "await", "dead"} PROVE Freed(r)
  BY <1>1, <1>6 DEF LeaseKnows, Freed
<1>7. ASSUME NEW kind, NEW v, NEW s, Finish(r, kind, v, s) PROVE h'[r].pc = "done"
  BY <1>1, <1>7, IsOver DEF Finish, Pcs
<1>8. ASSUME NEW kind, EndError(r, kind), h[r].pc \in {"send", "await"}
      PROVE  LeaseKnows(r)' /\ \A q \in Requests \ {r} : Carried(q)
  BY <1>1, <1>5, <1>7, <1>8, TellFrees DEF EndError, EndConflict, Refuse
<1>9. CASE \/ RelayTurnsAway(r) \/ SelfPayTurnsAway(r) \/ SettleTurnsAway(r) \/ SettleRejects(r)
           \/ StoreReceipt(r) \/ RecordDedup(r) \/ RecordTxStatus(r)
  <2>1. h[r].pc \in {"new", "dedup", "receipt", "record", "status"} /\ UNCHANGED nonce
    BY <1>9 DEF RelayTurnsAway, SelfPayTurnsAway, SettleTurnsAway, SettleRejects, StoreReceipt, RecordDedup,
                RecordTxStatus, At
  <2>2. h'[r].pc \notin {"cooldown", "sponsor"}
    BY <1>1, <1>7, <1>9, GoesOn DEF RelayTurnsAway, SelfPayTurnsAway, SettleTurnsAway, SettleRejects,
             StoreReceipt, RecordDedup, RecordTxStatus, Refuse, Pcs
  <2> QED BY <1>4, <1>5, <1>6, <2>1, <2>2
<1>10. CASE CheckPaymentId(r)
  <2>1. h[r].pc = "new" /\ UNCHANGED nonce /\ h'[r].pc \in {"done", "dedup"}
    BY <1>1, <1>7, <1>10, GoesOn DEF CheckPaymentId, At, Refuse, Pcs
  <2> QED BY <1>4, <1>5, <1>6, <2>1
<1>11. CASE CheckDedup(r) \/ CheckLiveness(r)
  <2>1. h[r].pc \in {"dedup", "liveness"} /\ UNCHANGED nonce
    BY <1>11 DEF CheckDedup, CheckLiveness, At
  <2>2. h'[r].pc \in {"done", "liveness", AfterDedup(r)}
    <3>1. dedup # NoEntry => dedup.tx \in Versions
      BY <1>1 DEF Knowledge, RecordsTruthful, Holds, TypeOK
    <3>2. CASE \E kind, v, s : Finish(r, kind, v, s)
      BY <1>7, <3>2
    <3>3. CASE Goes(r, AfterDedup(r))
      BY <1>1, <1>3, <3>3, GoesOn DEF Pcs
    <3>4. CASE dedup # NoEntry /\ h' = [h EXCEPT ![r].pc = "liveness", ![r].tx = dedup.tx]
      BY <1>1, <3>1, <3>4, Retargets DEF Pcs
    <3>5. CASE h' = [h EXCEPT ![r].pc = AfterDedup(r), ![r].tx = Plain]
      BY <1>1, <1>3, <3>5, Retargets, VersionFacts DEF Pcs
    <3> QED BY <1>11, <3>2, <3>3, <3>4, <3>5 DEF CheckDedup, CheckLiveness
  <2>3. AfterDedup(r) \in {"cooldown", "sponsor"} => sponsorable
    BY <1>1 DEF AfterDedup, TypeOK
  <2> QED BY <1>3, <1>4, <1>5, <1>6, <2>1, <2>2, <2>3
<1>12. CASE CheckCooldown(r)
  <2>1. h[r].pc = "cooldown" /\ UNCHANGED nonce /\ sponsorable
    BY <1>1, <1>12 DEF CheckCooldown, At, LeaseKnows
  <2> QED BY <1>4, <1>5, <1>6, <2>1
<1>13. CASE Sponsor(r)
  <2> DEFINE v == <<r, h[r].round>>
  <2>1. v \in Versions /\ h[r].round \in {1, 2}
    BY <1>1, VersionFacts DEF Handler
  <2>2. h[r].pc = "sponsor" /\ sponsorable /\ h' = [h EXCEPT ![r].pc = "verify", ![r].tx = v]
        /\ nonce' = [nonce EXCEPT ![v] = "leased"]
    BY <1>1, <1>13 DEF Sponsor, At, LeaseKnows
  <2> HIDE DEF v
  <2>3. h'[r].pc = "verify" /\ h'[r].tx = v
    BY <1>1, <2>1, <2>2, Retargets DEF Pcs
  <2>4. \A n \in {1, 2} : nonce'[<<r, n>>] = "leased" => v = <<r, n>>
    BY <1>1, <1>3, <2>1, <2>2, VersionFacts DEF LeaseKnows
  <2>5. \A q \in Requests \ {r} : Carried(q)
    BY <1>3, <2>2, VersionFacts DEF Carried, v
  <2> QED BY <1>1, <2>2, <2>3, <2>4, <2>5 DEF LeaseKnows
<1>14. CASE SponsorFails(r)
  <2>1. h[r].pc = "sponsor" /\ UNCHANGED nonce /\ h'[r].pc = "done"
    BY <1>7, <1>14 DEF SponsorFails, At, EndConflict, Refuse
  <2> QED BY <1>4, <1>5, <1>6, <2>1
<1>15. CASE Verify(r)
  <2>1. CASE h' = [h EXCEPT ![r].pc = "send", ![r].try = 1, ![r].failed = FALSE] /\ UNCHANGED nonce
    BY <1>1, <1>4, <1>15, <2>1, StartsToSend DEF LeaseKnows, Verify, At
  <2>2. CASE Refuse(r, "refused") /\ nonce' = Tell(r, "released")
    BY <1>1, <1>5, <1>7, <1>15, <2>2, TellFrees DEF Verify, At, Refuse
  <2> QED BY <1>15, <2>1, <2>2 DEF Verify
<1>16. CASE SendAccepted(r)
  <2>1. h[r].pc = "send"
    BY <1>16 DEF SendAccepted, At
  <2>2. CASE h[r].failed
    BY <1>8, <1>16, <2>1, <2>2 DEF SendAccepted
  <2>3. CASE ~h[r].failed /\ mode[r] = "settle"
    <3>1. nonce' = Tell(r, "used") /\ h'[r].pc \in {"await", "record"}
      BY <1>1, <1>16, <2>3, GoesOn DEF SendAccepted, Pcs
    <3> QED BY <1>1, <1>5, <2>1, <3>1, TellFrees
  <2>4. CASE ~h[r].failed /\ mode[r] # "settle"
    <3>1. UNCHANGED nonce /\ Goes(r, IF mode[r] = "relay" THEN "await" ELSE "record") /\ mode[r] = "relay"
      BY <1>1, <1>16, <2>4 DEF SendAccepted, TypeOK, Modes
    <3>2. h'[r].pc = "await" /\ h'[r].tx = h[r].tx
      BY <1>1, <3>1, GoesOn DEF Pcs
    <3> QED BY <1>1, <1>4, <2>1, <3>1, <3>2 DEF LeaseKnows
  <2> QED BY <2>2, <2>3, <2>4
<1>17. CASE SendFails(r, TRUE) \/ SendFails(r, FALSE)
  <2>1. h[r].pc = "send"
    BY <1>17 DEF SendFails, At
  <2>2. CASE h[r].try < MaxTries /\ h' = [h EXCEPT ![r].try = @ + 1, ![r].failed = TRUE] /\ UNCHANGED nonce
    BY <1>1, <1>4, <2>1, <2>2, TriesNext DEF LeaseKnows
  <2> QED BY <1>8, <1>17, <2>1, <2>2 DEF SendFails
<1>18. CASE SendConflict(r)
  <2>1. h[r].pc = "send" /\ sponsorable /\ nonce' = Tell(r, "released")
    BY <1>18 DEF SendConflict, At
  <2> QED BY <1>1, <1>5, <2>1, TellFrees
<1>19. CASE SendConflictPlain(r)
  <2>1. UNCHANGED nonce /\ ~sponsorable /\ h'[r].pc = "done"
    BY <1>7, <1>19 DEF SendConflictPlain, Refuse
  <2> QED BY <1>1, <1>4, <2>1 DEF LeaseKnows
<1>20. CASE SendRejected(r)
  BY <1>8, <1>20 DEF SendRejected, At
<1>21. CASE Await(r)
  <2>1. h[r].pc = "await"
    BY <1>21 DEF Await, At
  <2>2. ASSUME NEW s \in Awaited(h[r].tx), s # "aborted", h' = [h EXCEPT ![r].pc = "receipt", ![r].status = s],
               nonce' = Tell(r, "used")
        PROVE  LeaseKnows(r)' /\ \A q \in Requests \ {r} : Carried(q)
    <3>1. s \in Known
      BY <2>2, AwaitedIsSo DEF Known
    <3> QED BY <1>1, <1>5, <2>1, <2>2, <3>1, LearnsStatus, TellFrees
  <2> QED BY <1>8, <1>21, <2>1, <2>2 DEF Await
<1>22. CASE Dies(r)
  <2>1. h'[r].pc = "dead" /\ UNCHANGED nonce
    BY <1>1, <1>22, IsOver DEF Dies, process, Pcs
  <2> QED BY <1>1, <1>4, <2>1 DEF LeaseKnows
<1> QED BY <1>9, <1>10, <1>11, <1>12, <1>13, <1>14, <1>15, <1>16, <1>17, <1>18, <1>19, <1>20, <1>21, <1>22
        DEF HandlerStep

LEMMA GivenStays ==
    ASSUME TypeOK, [Next]_vars
    PROVE  UNCHANGED given
<1>1. ASSUME NEW r \in Requests, HandlerStep(r) \/ Dies(r) PROVE UNCHANGED given
  BY <1>1, HandlerWrites DEF Writes, given
<1> QED BY <1>1 DEF Next, Background, BackgroundSees, BackgroundPuts, BackgroundDies, Access, AccessReads,
       AccessRefused, AccessServed, MarkConsumed, Environment, Mine, Evict, DedupAges, DedupExpires, PayIdExpires,
       CooldownExpires, vars

\* On every way out of a handler, those of the errors, of the lost answers and of the second
\* sponsoring included, the sponsor nonce was released or its broadcast reported.
THEOREM NoncesReported == Spec => []EveryNonceReported
<1>1. Init => Leases
  <2>1. Start.pc = "new"
    BY DEF Start, Empty
  <2> QED BY <2>1, VersionFacts DEF Init, Leases, LeaseKnows
<1>2. ASSUME Knowledge, Leases, [Next]_vars PROVE Leases'
  <2>1. CASE \E r \in Requests : HandlerStep(r) \/ Dies(r)
    BY <1>2, <2>1, HandlerKeepsLeases
  <2>2. CASE UNCHANGED <<h, nonce>>
    <3>1. UNCHANGED sponsorable
      BY <1>2, GivenStays DEF Knowledge, given
    <3> QED BY <1>2, <2>2, <3>1 DEF Leases, LeaseKnows
  <2> QED BY <1>2, <2>1, <2>2, OthersStandStill DEF vars, process
<1>3. Leases => EveryNonceReported
  BY DEF Leases, LeaseKnows, EveryNonceReported, At
<1> QED BY <1>1, <1>2, <1>3, AlwaysKnowledge, PTL DEF Spec

\* An access that is past the service has been served, and only such a one consumes.
Accessed ==
    /\ \A a \in Accesses : acc[a].pc # "idle" =>
          acc[a].r \in Requests /\ (acc[a].pc # "passed" => served[acc[a].r] > 0)
    /\ \A r \in Requests : receipts[r].consumed => served[r] > 0

LEMMA NextKeepsAccessed ==
    ASSUME TypeOK, Accessed, [Next]_vars
    PROVE  Accessed'
<1> DEFINE A == [pc : {"idle", "passed", "served", "over"}, r : Requests \cup {None}]
           R == [tx : Versions \cup {None}, status : {"pending", "confirmed"}, consumed : BOOLEAN]
<1>1. acc \in [Accesses -> A] /\ served \in [Requests -> Nat] /\ receipts \in [Requests -> R]
  BY DEF TypeOK
<1>2. CASE UNCHANGED <<acc, served, receipts>>
  BY <1>2 DEF Accessed
<1>3. ASSUME NEW r \in Requests, HandlerStep(r) \/ Dies(r) PROVE Accessed'
  <2>1. /\ UNCHANGED <<acc, served>>
        /\ \A q \in Requests : receipts'[q] = receipts[q] \/ receipts'[q].consumed = FALSE
    <3> DEFINE x == [tx |-> h[r].tx, status |-> h[r].status, consumed |-> FALSE]
    <3>1. UNCHANGED <<acc, served>> /\ (receipts' = receipts \/ receipts' = [receipts EXCEPT ![r] = x])
      BY <1>3, HandlerWrites DEF Writes
    <3>2. x.consumed = FALSE
      OBVIOUS
    <3> HIDE DEF x
    <3> QED BY <1>1, <3>1, <3>2
  <2> QED BY <2>1 DEF Accessed
<1>4. ASSUME NEW a \in Accesses, Access(a) PROVE Accessed'
  <2>1. CASE \E r \in Requests : AccessReads(a, r)
    BY <1>1, <2>1 DEF AccessReads, Accessed, kv
  <2>2. CASE AccessRefused(a)
    BY <1>1, <2>2 DEF AccessRefused, Accessed, kv, NoAccess
  <2>3. CASE AccessServed(a)
    <3> DEFINE r == acc[a].r
               x == [pc |-> "served", r |-> r]
    <3>1. r \in Requests /\ served' = [served EXCEPT ![r] = @ + 1] /\ receipts' = receipts
      BY <2>3 DEF AccessServed, Accessed, kv
    <3>2. x = [acc[a] EXCEPT !.pc = "served"] /\ x.r = r
      BY <1>1
    <3>3. acc' = [acc EXCEPT ![a] = x]
      BY <2>3, <3>2 DEF AccessServed
    <3> HIDE DEF x
    <3>4. \A b \in Accesses \ {a} : acc'[b] = acc[b]
      BY <1>1, <3>3
    <3>5. acc'[a] = x /\ \A q \in Requests : served[q] > 0 => served'[q] > 0
      BY <1>1, <3>1, <3>3
    <3>6. served'[r] > 0
      BY <1>1, <3>1
    <3> QED BY <3>1, <3>2, <3>4, <3>5, <3>6 DEF Accessed
  <2>4. CASE MarkConsumed(a)
    <3> DEFINE r == acc[a].r
               x == [pc |-> "over", r |-> r]
    <3>1. r \in Requests /\ served[r] > 0 /\ served' = served
      BY <2>4 DEF MarkConsumed, Accessed
    <3>2. x = [acc[a] EXCEPT !.pc = "over"] /\ x.r = r
      BY <1>1
    <3>3. acc' = [acc EXCEPT ![a] = x]
      BY <2>4, <3>2 DEF MarkConsumed
    <3>4. receipts' = receipts \/ receipts' = [receipts EXCEPT ![r].consumed = TRUE]
      BY <2>4 DEF MarkConsumed
    <3> HIDE DEF x
    <3>5. acc'[a] = x /\ \A b \in Accesses \ {a} : acc'[b] = acc[b]
      BY <1>1, <3>3
    <3>6. \A q \in Requests \ {r} : receipts'[q] = receipts[q]
      BY <1>1, <3>1, <3>4
    <3> QED BY <3>1, <3>2, <3>5, <3>6 DEF Accessed
  <2> QED BY <1>4, <2>1, <2>2, <2>3, <2>4 DEF Access
<1>5. CASE \E r \in Requests : Background(r)
  BY <1>2, <1>5 DEF Background, BackgroundSees, BackgroundPuts, BackgroundDies, kv, access
<1>6. CASE Environment \/ UNCHANGED vars
  BY <1>2, <1>6 DEF Environment, Mine, Evict, DedupAges, DedupExpires, PayIdExpires, CooldownExpires, kv, access,
                    vars
<1> QED BY <1>3, <1>4, <1>5, <1>6 DEF Next

\* A receipt is consumed only by an access that got the resource (POST /access,
\* markConsumed), however the accesses and the request that stores it interleave.
THEOREM ConsumedIsServed == Spec => []ConsumedWasServed
<1>1. Init => Accessed
  BY DEF Init, Accessed, NoAccess, NoReceipt
<1>2. Accessed => ConsumedWasServed
  BY DEF Accessed, ConsumedWasServed, ReceiptAnswer
<1> QED BY <1>1, <1>2, TypeCorrect, NextKeepsAccessed, PTL DEF Spec
================================================================================
