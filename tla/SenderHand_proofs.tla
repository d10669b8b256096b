--------------------------- MODULE SenderHand_proofs ---------------------------
(***************************************************************************)
(* Proofs about SenderHand, for any number of senders, invocations and       *)
(* nonces, any size of run and slice, and whatever Hiro answers.             *)
(*                                                                         *)
(* Everything that happens to a hand before its run is dispatched is Quiet:   *)
(* the frontier does not fall and no active row goes.  A dispatch after quiet *)
(* changes is an orderly step (Orderly), which is what the abstract           *)
(* SenderOutlet and KeepsActive ask of every sender.                         *)
(***************************************************************************)
EXTENDS SenderHand, FiniteSetTheorems, WellFoundedInduction, TLAPS

--------------------------------------------------------------------------------
\* The nonces, frontiers and senders are integers.
LEMMA Ranges ==
    /\ MaxNonce \in Nat /\ MaxRun \in Nat \ {0} /\ MaxSweep \in Nat \ {0}
    /\ SenderCount \in Nat \ {0} /\ HiroAnswers \subseteq Frontiers
    /\ Nonces \subseteq Nat /\ Frontiers \subseteq Nat /\ Nonces \subseteq Frontiers
    /\ 0 \in Frontiers /\ Senders \subseteq Nat /\ Unset \notin Frontiers
BY HandAssumption DEF HandAssumption, Nonces, Frontiers, Senders, Unset

\* A next expected nonce is a number; no row is -1.
LEMMA NextIsInt ==
    \A x \in Frontiers \cup {Unset} : x \in Int /\ (x = -1 \/ 0 <= x) /\ (x # Unset => 0 <= x)
BY HandAssumption DEF HandAssumption, Frontiers, Unset

\* A hand with active rows has a lowest one.
LEMMA LowestRow ==
    ASSUME NEW st, Active(st) # {}
    PROVE  /\ Lowest(Active(st)) \in Active(st)
           /\ \A m \in Active(st) : Lowest(Active(st)) <= m
<1> DEFINE less == OpToRel(<, Nat)
<1>1. Active(st) \subseteq Nat
  BY Ranges DEF Active
<1>2. \E n \in Active(st) : \A m \in Active(st) : <<m, n>> \notin less
  <2> HIDE DEF less
  <2>1. IsWellFoundedOn(less, Nat)
    BY NatLessThanWellFounded DEF less
  <2> QED BY <1>1, <2>1, WFMin
<1>3. \A m, n \in Nat : <<m, n>> \notin less => n <= m
  BY DEF OpToRel
<1>4. \E n \in Active(st) : \A m \in Active(st) : n <= m
  <2> HIDE DEF less
  <2> QED BY <1>1, <1>2, <1>3
<1> QED BY <1>4 DEF Lowest

\* u is st after changes that lose no active row and do not lower the frontier.
Quiet(st, u) ==
    /\ u \in SenderType
    /\ Frontier(st) <= Frontier(u)
    /\ Active(st) \subseteq Active(u)

LEMMA FrontierType ==
    ASSUME NEW st \in SenderType
    PROVE  Frontier(st) \in Frontiers /\ Frontier(st) \in Nat
BY Ranges DEF Frontier, SenderType

\* The frontier follows next_expected_nonce.
LEMMA FrontierRises ==
    ASSUME NEW st \in SenderType, NEW u \in SenderType, st.next <= u.next
    PROVE  Frontier(st) <= Frontier(u)
<1>1. ASSUME NEW v \in SenderType
      PROVE  v.next \in Int /\ (v.next = -1 \/ 0 <= v.next)
  <2>1. v.next \in Frontiers \cup {Unset}
    BY DEF SenderType
  <2> QED BY <2>1, NextIsInt
<1> DEFINE x == st.next
           y == u.next
<1>2. x \in Int /\ (x = -1 \/ 0 <= x) /\ y \in Int /\ (y = -1 \/ 0 <= y) /\ x <= y
  BY <1>1
<1>3. Frontier(st) = (IF x = -1 THEN 0 ELSE x) /\ Frontier(u) = (IF y = -1 THEN 0 ELSE y)
  BY DEF Frontier, Unset
<1> HIDE DEF x, y
<1> QED BY <1>2, <1>3

LEMMA QuietTransitive ==
    ASSUME NEW st \in SenderType, NEW u \in SenderType, NEW v, Quiet(st, u), Quiet(u, v)
    PROVE  Quiet(st, v)
BY FrontierType DEF Quiet

LEMMA QuietSeeded ==
    ASSUME NEW st \in SenderType, NEW n \in Nonces, NEW p \in HiroAnswers \cup {Unset}
    PROVE  Quiet(st, Seeded(st, n, p))
<1> DEFINE u == Seeded(st, n, p)
<1>1. u = st \/ \E f \in Frontiers, by \in {"hiro", "first_tx"} :
                   st.next = Unset /\ u = [st EXCEPT !.next = f, !.seeded = by]
  BY Ranges DEF Seeded
<1>2. u \in SenderType /\ u.hand = st.hand
  BY <1>1 DEF SenderType
<1>3. st.next <= u.next
  <2>1. CASE u = st
    <3>1. st.next \in Frontiers \cup {Unset}
      BY DEF SenderType
    <3> QED BY <2>1, <3>1, NextIsInt
  <2>2. CASE u # st
    <3>1. st.next = -1 /\ u.next \in Frontiers
      BY <1>1, <2>2 DEF SenderType, Unset
    <3>2. u.next \in Int /\ 0 <= u.next
      BY <3>1, Ranges, NextIsInt
    <3> QED BY <3>1, <3>2
  <2> QED BY <2>1, <2>2
<1>4. Frontier(st) <= Frontier(u)
  BY <1>2, <1>3, FrontierRises
<1> QED BY <1>2, <1>4 DEF Quiet, Active

LEMMA QuietAdded ==
    ASSUME NEW st \in SenderType, NEW n \in Nonces
    PROVE  Quiet(st, Added(st, n))
<1>1. Added(st, n) \in SenderType /\ Added(st, n).next = st.next
  BY DEF Added, SenderType, Absent, Fresh, Expired
<1>2. \A m \in Nonces : Added(st, n).hand[m] = IF m = n THEN Fresh ELSE st.hand[m]
  BY DEF Added, SenderType
<1> QED BY <1>1, <1>2, FrontierType DEF Quiet, Active, Frontier

LEMMA QuietRecycled ==
    ASSUME NEW st \in SenderType
    PROVE  Quiet(st, Recycled(st))
<1> DEFINE h == [n \in Nonces |-> IF n \in st.replay /\ st.hand[n] = Absent
                                    THEN Fresh ELSE st.hand[n]]
<1>0. h \in [Nonces -> Absent .. Expired]
  BY DEF SenderType, Absent, Fresh, Expired
<1>1. Recycled(st) \in SenderType /\ Recycled(st).next = st.next /\ Recycled(st).hand = h
  <2>1. Recycled(st) = [st EXCEPT !.hand = h, !.replay = {}]
    BY DEF Recycled
  <2> HIDE DEF h
  <2> QED BY <1>0, <2>1 DEF SenderType
<1>2. \A m \in Nonces : m \in Active(st) => Recycled(st).hand[m] = st.hand[m]
  BY <1>1 DEF Active, Absent, Fresh, Old
<1> QED BY <1>1, <1>2, FrontierType DEF Quiet, Active, Frontier

LEMMA QuietReseeded ==
    ASSUME NEW st \in SenderType, NEW p \in HiroAnswers \cup {Unset}
    PROVE  Quiet(st, Reseeded(st, p))
<1> DEFINE u == Reseeded(st, p)
<1>1. st.next \in Frontiers \cup {Unset} /\ p \in Frontiers \cup {Unset}
  BY Ranges DEF SenderType
<1>2. st.next \in Int /\ p \in Int
  BY <1>1, NextIsInt
<1>3. u = st \/ \E f \in Frontiers \cup {Unset} :
                   st.next <= f /\ u = [st EXCEPT !.next = f, !.seeded = "hiro"]
  <2> DEFINE f == IF p > st.next THEN p ELSE st.next
  <2>1. f \in Frontiers \cup {Unset} /\ st.next <= f
    BY <1>1, <1>2
  <2> QED BY <2>1 DEF Reseeded
<1>4. u \in SenderType /\ u.hand = st.hand
  BY <1>3 DEF SenderType
<1>5. st.next <= u.next
  <2>1. CASE u = st
    BY <1>2, <2>1
  <2>2. CASE u # st
    BY <1>3, <2>2 DEF SenderType
  <2> QED BY <2>1, <2>2
<1> QED BY <1>4, <1>5, FrontierRises DEF Quiet, Active

LEMMA QuietWithoutExpired ==
    ASSUME NEW st \in SenderType
    PROVE  Quiet(st, WithoutExpired(st))
<1>1. WithoutExpired(st) \in SenderType /\ WithoutExpired(st).next = st.next
  BY DEF WithoutExpired, SenderType, Absent, Fresh, Expired
<1>2. \A m \in Nonces : m \in Active(st) => WithoutExpired(st).hand[m] = st.hand[m]
  BY DEF WithoutExpired, SenderType, Active, Old, Fresh, Expired
<1> QED BY <1>1, <1>2, FrontierType DEF Quiet, Active, Frontier

\* A repair moves the frontier up to the lowest active row and prunes below it.
LEMMA QuietRepaired ==
    ASSUME NEW st \in SenderType, NEW p \in HiroAnswers \cup {Unset},
           NEW ignoreAge \in BOOLEAN
    PROVE  Quiet(st, Repaired(st, p, ignoreAge))
<1>1. CASE ~RepairAdvances(st, p, ignoreAge)
  <2>1. \/ Repaired(st, p, ignoreAge) = st
        \/ Repaired(st, p, ignoreAge) = [st EXCEPT !.tried = TRUE]
    BY <1>1 DEF Repaired, RepairAdvances
  <2>2. /\ Repaired(st, p, ignoreAge) \in SenderType
        /\ Repaired(st, p, ignoreAge).next = st.next
        /\ Repaired(st, p, ignoreAge).hand = st.hand
    BY <2>1 DEF SenderType
  <2> QED BY <2>2, FrontierType DEF Quiet, Frontier, Active
<1>2. CASE RepairAdvances(st, p, ignoreAge)
  <2> DEFINE t == RepairTarget(st, p)
             h == [n \in Nonces |-> IF n < t THEN Absent ELSE st.hand[n]]
             u == Repaired(st, p, ignoreAge)
  <2>1. NeedsRepair(st, ignoreAge) /\ p # Unset
    BY <1>2 DEF RepairAdvances
  <2>2. t \in Active(st) /\ \A m \in Active(st) : t <= m
    BY <2>1, LowestRow DEF NeedsRepair, RepairTarget
  <2>3. t \in Frontiers /\ st.next < t /\ st.next # Unset
    BY <2>1, <2>2, Ranges DEF Active, NeedsRepair, RepairTarget
  <2>4. u = [st EXCEPT !.tried = TRUE, !.next = t, !.hand = h]
    BY <1>2, <2>1 DEF Repaired
  <2>8. h \in [Nonces -> Absent .. Expired]
    BY DEF SenderType, Absent, Expired
  <2>9. \A n \in Active(st) : h[n] = st.hand[n]
    <3> SUFFICES ASSUME NEW n \in Active(st) PROVE h[n] = st.hand[n]
      OBVIOUS
    <3>1. n \in Nonces /\ t <= n /\ n \in Nat /\ t \in Nat
      BY <2>2, <2>3, Ranges DEF Active
    <3>2. ~(n < t)
      <4> HIDE DEF t
      <4> QED BY <3>1
    <3> QED BY <3>1, <3>2
  <2> HIDE DEF t, u, h
  <2>5. u \in SenderType /\ u.next = t /\ u.hand = h
    BY <2>3, <2>4, <2>8 DEF SenderType
  <2>6. \A n \in Active(st) : u.hand[n] = st.hand[n]
    BY <2>5, <2>9
  <2>7. Frontier(st) <= Frontier(u)
    <3>1. st.next \in Frontiers
      BY <2>3 DEF SenderType
    <3>2. st.next <= u.next
      <4>1. st.next \in Int /\ t \in Int /\ st.next < t
        BY <2>3, <3>1, NextIsInt
      <4> QED BY <2>5, <4>1
    <3> QED BY <2>5, <3>2, FrontierRises
  <2>10. Active(st) \subseteq Active(u)
    BY <2>6 DEF Active
  <2> QED BY <2>5, <2>7, <2>10 DEF Quiet, u
<1> QED BY <1>1, <1>2

--------------------------------------------------------------------------------
(* Dispatch.                                                                *)

\* What one step may do to a sender: t for st, and b for a.
Orderly(st, t, a, b) ==
    /\ t \in SenderType /\ b \in SUBSET Nonces
    /\ Frontier(st) <= Frontier(t)
    /\ a \subseteq b
    /\ \A n \in b \ a : /\ Frontier(t) <= n
                        /\ \A m \in Nonces : Frontier(t) <= m /\ m <= n => m \in b
    /\ \A n \in Nonces : n \in Active(st) /\ t.hand[n] = Absent
                           => n \in b /\ Frontier(t) <= n

\* What is dispatched is contiguous from the frontier; nothing else leaves.
LEMMA Dispatching ==
    ASSUME NEW u \in SenderType, NEW c \in Nat
    PROVE  /\ AfterDispatch(u, c) \in SenderType
           /\ AfterDispatch(u, c).next = u.next
           /\ Active(u) \subseteq Active(AfterDispatch(u, c)) \cup Dispatched(u, c)
           /\ Dispatched(u, c) \in SUBSET Nonces
           /\ \A n \in Dispatched(u, c) :
                /\ Frontier(u) <= n
                /\ \A m \in Nonces : Frontier(u) <= m /\ m <= n => m \in Dispatched(u, c)
<1> DEFINE d == Dispatched(u, c)
           h == [n \in Nonces |-> IF n \in d THEN Absent ELSE u.hand[n]]
<1>1. h \in [Nonces -> Absent .. Expired]
  <2> HIDE DEF d
  <2> QED BY DEF SenderType, Absent, Expired
<1>2. AfterDispatch(u, c) = [u EXCEPT !.hand = h]
  BY DEF AfterDispatch
<1>3. /\ AfterDispatch(u, c) \in SenderType
      /\ AfterDispatch(u, c).next = u.next
      /\ AfterDispatch(u, c).hand = h
  <2> HIDE DEF h
  <2> QED BY <1>1, <1>2 DEF SenderType
<1>4. Active(u) \subseteq Active(AfterDispatch(u, c)) \cup d
  <2> HIDE DEF d
  <2> QED BY <1>3 DEF Active
<1>5. d \in SUBSET Nonces
  BY DEF Dispatched, Run, Active
<1>6. ASSUME NEW n \in d
      PROVE  /\ Frontier(u) <= n
             /\ \A m \in Nonces : Frontier(u) <= m /\ m <= n => m \in d
  <2>1. n \in Nat /\ Frontier(u) \in Nat /\ Frontier(u) <= n /\ n < Frontier(u) + c
    BY <1>5, Ranges, FrontierType DEF Dispatched, Run
  <2>2. \A m \in Frontier(u) .. n : m \in Active(u)
    BY DEF Dispatched, Run
  <2>3. ASSUME NEW m \in Nonces, Frontier(u) <= m, m <= n
        PROVE  m \in d
    <3>1. m \in Nat /\ m < Frontier(u) + c /\ m \in Active(u)
      BY <2>1, <2>2, <2>3, Ranges
    <3>2. \A k \in Frontier(u) .. m : k \in Active(u)
      BY <2>1, <2>2, <2>3, <3>1
    <3> QED BY <2>3, <3>1, <3>2 DEF Dispatched, Run
  <2> QED BY <2>1, <2>3
<1> QED BY <1>3, <1>4, <1>5, <1>6

\* Quiet changes, then a dispatch, then changes that leave the frontier alone.
LEMMA OrderlyDispatch ==
    ASSUME NEW st \in SenderType, NEW u \in SenderType, NEW w, NEW c \in Nat,
           NEW a \in SUBSET Nonces,
           Quiet(st, u), Quiet(AfterDispatch(u, c), w), w.next = u.next
    PROVE  Orderly(st, w, a, a \cup Dispatched(u, c))
<1> DEFINE d == Dispatched(u, c)
           v == AfterDispatch(u, c)
<1>1. /\ Active(u) \subseteq Active(v) \cup d
      /\ d \in SUBSET Nonces
      /\ \A n \in d : /\ Frontier(u) <= n
                      /\ \A m \in Nonces : Frontier(u) <= m /\ m <= n => m \in d
  BY Dispatching
<1>2. w \in SenderType /\ Frontier(w) = Frontier(u)
  BY DEF Quiet, Frontier
<1>3. Frontier(st) <= Frontier(w)
  BY <1>2 DEF Quiet
<1>4. Active(st) \subseteq Active(w) \cup d
  BY <1>1 DEF Quiet
<1>5. \A n \in Active(w) : w.hand[n] # Absent
  BY DEF Active, Absent, Fresh, Old
<1> HIDE DEF d, v
<1>6. \A n \in Nonces : n \in Active(st) /\ w.hand[n] = Absent
                          => n \in a \cup d /\ Frontier(w) <= n
  BY <1>1, <1>2, <1>4, <1>5
<1>7. \A n \in (a \cup d) \ a :
        /\ Frontier(w) <= n
        /\ \A m \in Nonces : Frontier(w) <= m /\ m <= n => m \in a \cup d
  BY <1>1, <1>2
<1>8. Orderly(st, w, a, a \cup d)
  BY <1>1, <1>2, <1>3, <1>6, <1>7 DEF Orderly
<1> QED BY <1>8 DEF d

\* Quiet changes alone are orderly.
LEMMA OrderlyQuiet ==
    ASSUME NEW st \in SenderType, NEW u, NEW a \in SUBSET Nonces, Quiet(st, u)
    PROVE  Orderly(st, u, a, a)
BY DEF Orderly, Quiet, Active, Absent, Fresh, Old

LEMMA QuietItself ==
    ASSUME NEW st \in SenderType
    PROVE  Quiet(st, st)
BY FrontierType DEF Quiet

--------------------------------------------------------------------------------
(* Steps.                                                                   *)

HandType == sender \in [Senders -> SenderType] /\ sent \in [Senders -> SUBSET Nonces]

HandsOrderly ==
    /\ HandType'
    /\ \A s \in Senders : Orderly(sender[s], sender'[s], sent[s], sent'[s])

\* A step of one sender.
LEMMA OneHand ==
    ASSUME HandType, NEW s \in Senders, NEW t, NEW b,
           Orderly(sender[s], t, sent[s], b),
           sender' = [sender EXCEPT ![s] = t], sent' = [sent EXCEPT ![s] = b]
    PROVE  HandsOrderly
<1>1. t \in SenderType /\ b \in SUBSET Nonces
  BY DEF Orderly
<1>2. HandType'
  BY <1>1 DEF HandType
<1>3. ASSUME NEW x \in Senders
      PROVE  Orderly(sender[x], sender'[x], sent[x], sent'[x])
  <2>1. CASE x = s
    BY <2>1 DEF HandType
  <2>2. CASE x # s
    <3>1. sender'[x] = sender[x] /\ sent'[x] = sent[x]
      BY <2>2 DEF HandType
    <3> QED BY <3>1, QuietItself, OrderlyQuiet DEF HandType
  <2> QED BY <2>1, <2>2
<1> QED BY <1>2, <1>3 DEF HandsOrderly

\* A quiet change of one sender.
LEMMA OneQuietHand ==
    ASSUME HandType, NEW s \in Senders, NEW t, Quiet(sender[s], t),
           sender' = [sender EXCEPT ![s] = t], sent' = sent
    PROVE  HandsOrderly
<1>1. Orderly(sender[s], t, sent[s], sent[s])
  BY OrderlyQuiet DEF HandType
<1>2. sent' = [sent EXCEPT ![s] = sent[s]]
  BY DEF HandType
<1> QED BY <1>1, <1>2, OneHand

\* A dispatch from one hand.
LEMMA OneDispatch ==
    ASSUME HandType, NEW s \in Senders, NEW u, NEW c \in Nat, Quiet(sender[s], u),
           sender' = [sender EXCEPT ![s] = AfterDispatch(u, c)],
           sent' = [sent EXCEPT ![s] = @ \cup Dispatched(u, c)]
    PROVE  HandsOrderly
<1>1. u \in SenderType
  BY DEF Quiet
<1>2. /\ Quiet(AfterDispatch(u, c), AfterDispatch(u, c))
      /\ AfterDispatch(u, c).next = u.next
  BY <1>1, Dispatching, QuietItself
<1>3. Orderly(sender[s], AfterDispatch(u, c), sent[s], sent[s] \cup Dispatched(u, c))
  BY <1>1, <1>2, OrderlyDispatch DEF HandType
<1>4. sent' = [sent EXCEPT ![s] = sent[s] \cup Dispatched(u, c)]
  BY DEF HandType
<1> QED BY <1>3, <1>4, OneHand

\* A submission that the object handled.
LEMMA SubmitOrderly ==
    ASSUME HandType, NEW r \in Requests, Submit(r)
    PROVE  HandsOrderly
<1>0. PICK s \in Senders, n \in Nonces, mode \in {"hold", "immediate"}, c \in 0 .. MaxRun :
             \E p \in Asked(sender[s].next = Unset) :
               HandleSubmit(r, s, n, mode, Seeded(sender[s], n, p), c)
  BY DEF Submit
<1>1. PICK p \in Asked(sender[s].next = Unset) :
             HandleSubmit(r, s, n, mode, Seeded(sender[s], n, p), c)
  BY <1>0
<1> DEFINE st == Seeded(sender[s], n, p)
<1>2. Quiet(sender[s], st) /\ sender[s] \in SenderType /\ st \in SenderType
  <2>1. p \in HiroAnswers \cup {Unset}
    BY DEF Asked
  <2> QED BY <2>1, QuietSeeded DEF HandType, Quiet
<1>3. CASE /\ sender' = [sender EXCEPT ![s] = st]
           /\ sent' = sent
  BY <1>2, <1>3, OneQuietHand
<1>4. CASE /\ sender' = [sender EXCEPT ![s] = AfterDispatch(Added(st, n), c)]
           /\ sent' = [sent EXCEPT ![s] = @ \cup Dispatched(Added(st, n), c)]
  <2>1. Quiet(st, Added(st, n))
    BY <1>2, QuietAdded
  <2>2. Quiet(sender[s], Added(st, n))
    BY <1>2, <2>1, QuietTransitive
  <2>3. c \in Nat
    BY Ranges
  <2> QED BY <1>4, <2>2, <2>3, OneDispatch
<1> QED BY <1>1, <1>3, <1>4 DEF HandleSubmit

\* A submission without an answer.
LEMMA SubmitUnansweredOrderly ==
    ASSUME HandType, NEW r \in Requests, SubmitUnanswered(r)
    PROVE  HandsOrderly
<1>1. PICK s \in Senders, n \in Nonces :
        \/ UNCHANGED <<sender, sent>>
        \/ \E p \in Asked(sender[s].next = Unset), c \in 0 .. MaxRun :
             LET st == Seeded(sender[s], n, p) IN
             \/ /\ sender' = [sender EXCEPT ![s] = st]
                /\ UNCHANGED sent
             \/ /\ ~Stale(st, n)
                /\ sender' = [sender EXCEPT ![s] = AfterDispatch(Added(st, n), c)]
                /\ sent' = [sent EXCEPT ![s] = @ \cup Dispatched(Added(st, n), c)]
  BY DEF SubmitUnanswered
<1>2. CASE UNCHANGED <<sender, sent>>
  BY <1>2, QuietItself, OneQuietHand DEF HandType
<1>3. ASSUME NEW p \in Asked(sender[s].next = Unset), NEW c \in 0 .. MaxRun,
             LET st == Seeded(sender[s], n, p) IN
             \/ /\ sender' = [sender EXCEPT ![s] = st]
                /\ UNCHANGED sent
             \/ /\ ~Stale(st, n)
                /\ sender' = [sender EXCEPT ![s] = AfterDispatch(Added(st, n), c)]
                /\ sent' = [sent EXCEPT ![s] = @ \cup Dispatched(Added(st, n), c)]
      PROVE  HandsOrderly
  <2> DEFINE st == Seeded(sender[s], n, p)
  <2>1. Quiet(sender[s], st) /\ sender[s] \in SenderType /\ st \in SenderType
    <3>1. p \in HiroAnswers \cup {Unset}
      BY DEF Asked
    <3> QED BY <3>1, QuietSeeded DEF HandType, Quiet
  <2>2. Quiet(sender[s], Added(st, n))
    <3>1. Quiet(st, Added(st, n))
      BY <2>1, QuietAdded
    <3> QED BY <2>1, <3>1, QuietTransitive DEF Quiet
  <2>3. c \in Nat
    BY Ranges
  <2> QED BY <1>3, <2>1, <2>2, <2>3, OneQuietHand, OneDispatch
<1> QED BY <1>1, <1>2, <1>3

\* A repair on demand, with the dispatch that follows it.
LEMMA RepairOrderly ==
    ASSUME HandType, RepairWedge
    PROVE  HandsOrderly
<1> DEFINE Does(s, c, p) ==
        LET st == Repaired(sender[s], p, TRUE)
        IN IF RepairAdvances(sender[s], p, TRUE)
             THEN /\ sender' = [sender EXCEPT ![s] = AfterDispatch(st, c)]
                  /\ sent' = [sent EXCEPT ![s] = @ \cup Dispatched(st, c)]
             ELSE /\ sender' = [sender EXCEPT ![s] = st]
                  /\ UNCHANGED sent
<1>0. PICK s \in Senders, c \in 0 .. MaxRun :
             \E p \in Asked(NeedsRepair(sender[s], TRUE)) : Does(s, c, p)
  BY DEF RepairWedge
<1>1. PICK p \in Asked(NeedsRepair(sender[s], TRUE)) : Does(s, c, p)
  BY <1>0
<1>2. p \in HiroAnswers \cup {Unset} /\ c \in Nat
  <2>1. p \in HiroAnswers \cup {Unset}
    BY <1>1 DEF Asked
  <2>2. c \in Nat
    BY <1>0, Ranges
  <2> QED BY <2>1, <2>2
<1>3. Quiet(sender[s], Repaired(sender[s], p, TRUE))
  BY <1>2, QuietRepaired DEF HandType
<1> QED BY <1>1, <1>2, <1>3, OneQuietHand, OneDispatch

\* The sweep of the senders of S, with what happens before it, is orderly; expired
\* rows may go afterwards.
LEMMA SweepOrderly ==
    ASSUME HandType, NEW S \in SUBSET Senders,
           NEW seed \in [FirstTx -> Asked(TRUE)], NEW hiro \in [S -> Asked(TRUE)],
           NEW cap \in [S -> 0 .. MaxRun],
           \/ sender' = Sweep(S, seed, hiro, cap)
           \/ sender' = [s \in Senders |-> WithoutExpired(Sweep(S, seed, hiro, cap)[s])],
           sent' = SentBySweep(S, seed, hiro, cap)
    PROVE  HandsOrderly
<1>1. Asked(TRUE) = HiroAnswers \cup {Unset}
  BY DEF Asked
<1>2. ASSUME NEW s \in Senders
      PROVE  Quiet(sender[s], BeforeSweep(s, seed)) /\ BeforeSweep(s, seed) \in SenderType
  <2>1. sender[s] \in SenderType
    BY DEF HandType
  <2>2. Quiet(sender[s], Recycled(sender[s])) /\ Recycled(sender[s]) \in SenderType
    BY <2>1, QuietRecycled DEF Quiet
  <2>3. CASE s \in FirstTx
    <3>1. seed[s] \in HiroAnswers \cup {Unset} /\ s \in DOMAIN seed
      BY <1>1, <2>3
    <3>2. Quiet(Recycled(sender[s]), Reseeded(Recycled(sender[s]), seed[s]))
      BY <2>2, <3>1, QuietReseeded
    <3>3. Quiet(sender[s], Reseeded(Recycled(sender[s]), seed[s]))
      BY <2>1, <2>2, <3>2, QuietTransitive
    <3> QED BY <3>1, <3>3 DEF BeforeSweep, Quiet
  <2>4. CASE s \notin FirstTx
    <3>1. BeforeSweep(s, seed) = Recycled(sender[s])
      BY <2>4 DEF BeforeSweep
    <3> QED BY <2>2, <3>1
  <2> QED BY <2>3, <2>4
<1>3. ASSUME NEW s \in S
      PROVE  /\ Quiet(sender[s], ToDispatch(s, seed, hiro))
             /\ ToDispatch(s, seed, hiro) \in SenderType
             /\ cap[s] \in Nat
  <2>1. hiro[s] \in HiroAnswers \cup {Unset} /\ sender[s] \in SenderType
    BY <1>1 DEF HandType
  <2>2. Quiet(BeforeSweep(s, seed), ToDispatch(s, seed, hiro))
    BY <1>2, <2>1, QuietRepaired DEF ToDispatch
  <2>3. Quiet(sender[s], ToDispatch(s, seed, hiro))
    BY <1>2, <2>1, <2>2, QuietTransitive
  <2>4. cap[s] \in Nat
    <3>1. cap[s] \in 0 .. MaxRun
      OBVIOUS
    <3> QED BY <3>1, Ranges
  <2> QED BY <2>3, <2>4 DEF Quiet
<1> DEFINE swept == Sweep(S, seed, hiro, cap)
           after(s) == AfterDispatch(ToDispatch(s, seed, hiro), cap[s])
<1>4. ASSUME NEW s \in Senders
      PROVE  /\ s \in S => swept[s] = after(s)
             /\ s \notin S => swept[s] = BeforeSweep(s, seed)
             /\ swept[s] \in SenderType
             /\ sender'[s] = swept[s] \/ sender'[s] = WithoutExpired(swept[s])
  <2>1. /\ s \in S => swept[s] = after(s)
        /\ s \notin S => swept[s] = BeforeSweep(s, seed)
    BY DEF Sweep
  <2>2. s \in S => after(s) \in SenderType
    BY <1>3, Dispatching
  <2> HIDE DEF swept, after
  <2>3. swept[s] \in SenderType
    BY <1>2, <2>1, <2>2
  <2> QED BY <2>1, <2>3 DEF swept
<1>5. ASSUME NEW s \in Senders
      PROVE  Quiet(swept[s], sender'[s]) /\ sender'[s].next = swept[s].next
  <2>1. WithoutExpired(swept[s]).next = swept[s].next
    <3> HIDE DEF swept
    <3> QED BY <1>4 DEF WithoutExpired, SenderType
  <2> HIDE DEF swept
  <2> QED BY <1>4, <2>1, QuietWithoutExpired, QuietItself
<1>6. ASSUME NEW s \in Senders
      PROVE  Orderly(sender[s], sender'[s], sent[s], sent'[s])
  <2>1. sender[s] \in SenderType /\ sent[s] \in SUBSET Nonces
    BY DEF HandType
  <2>2. CASE s \in S
    <3> DEFINE u == ToDispatch(s, seed, hiro)
    <3>1. sent'[s] = sent[s] \cup Dispatched(u, cap[s])
      BY <2>2 DEF SentBySweep
    <3>2. swept[s] = AfterDispatch(u, cap[s]) /\ swept[s].next = u.next
      BY <1>3, <1>4, <2>2, Dispatching
    <3> HIDE DEF swept, u
    <3>3. /\ Quiet(AfterDispatch(u, cap[s]), sender'[s]) /\ sender'[s].next = u.next
          /\ Quiet(sender[s], u) /\ u \in SenderType /\ cap[s] \in Nat
      BY <1>3, <1>5, <2>2, <3>2 DEF u
    <3> QED BY <2>1, <3>1, <3>3, OrderlyDispatch
  <2>3. CASE s \notin S
    <3>1. sent'[s] = sent[s]
      BY <2>3 DEF SentBySweep
    <3>2. Quiet(sender[s], swept[s])
      BY <1>2, <1>4, <2>3
    <3> HIDE DEF swept
    <3>3. Quiet(sender[s], sender'[s])
      BY <1>4, <1>5, <2>1, <3>2, QuietTransitive
    <3> QED BY <2>1, <3>1, <3>3, OrderlyQuiet
  <2> QED BY <2>2, <2>3
<1>7. HandType'
  <2>1. \A s \in Senders : sender'[s] \in SenderType /\ sent'[s] \in SUBSET Nonces
    BY <1>6 DEF Orderly
  <2>2. \E f : sender' = [s \in Senders |-> f[s]]
    <3>1. swept = [s \in Senders |-> swept[s]]
      BY DEF Sweep
    <3>2. CASE sender' = swept
      BY <3>1, <3>2
    <3>3. CASE sender' = [s \in Senders |-> WithoutExpired(swept[s])]
      <4> DEFINE f == [s \in Senders |-> WithoutExpired(swept[s])]
      <4> HIDE DEF swept
      <4>1. f = [s \in Senders |-> f[s]]
        OBVIOUS
      <4> QED BY <3>3, <4>1
    <3> QED BY <3>2, <3>3
  <2>3. sent' = [s \in Senders |-> sent'[s]]
    BY DEF SentBySweep
  <2> QED BY <2>1, <2>2, <2>3 DEF HandType
<1> QED BY <1>6, <1>7 DEF HandsOrderly

LEMMA AlarmOrderly ==
    ASSUME HandType, Alarm \/ AlarmCut
    PROVE  HandsOrderly
<1>1. Swept \in SUBSET Senders
  BY DEF Swept, Turns!Slice, Waiting
<1>2. CASE Alarm
  BY <1>1, <1>2, SweepOrderly DEF Alarm
<1>3. CASE AlarmCut
  <2>1. PICK seed \in [FirstTx -> Asked(TRUE)], k \in Senders :
          LET S == {s \in Swept : s < k}
          IN \E hiro \in [S -> Asked(TRUE)], cap \in [S -> 0 .. MaxRun] :
               /\ sender' = Sweep(S, seed, hiro, cap)
               /\ sent' = SentBySweep(S, seed, hiro, cap)
    BY <1>3 DEF AlarmCut
  <2> DEFINE S == {s \in Swept : s < k}
  <2>2. S \in SUBSET Senders
    BY <1>1
  <2> HIDE DEF S
  <2> QED BY <2>1, <2>2, SweepOrderly DEF S
<1> QED BY <1>2, <1>3

\* Time, and the replay buffer.  Only a row that grows old is not quiet.
LEMMA OtherOrderly ==
    ASSUME HandType, NEW s \in Senders,
           \/ RefreshReady(s) \/ FlushToReplay(s) \/ ReplayDone(s)
           \/ \E n \in Nonces : Age(s, n)
    PROVE  HandsOrderly
<1>1. sender[s] \in SenderType /\ sent[s] \in SUBSET Nonces
  BY DEF HandType
<1>2. CASE RefreshReady(s)
  <2> DEFINE u == [sender[s] EXCEPT !.tried = FALSE]
  <2>0. u \in SenderType /\ u.next = sender[s].next /\ u.hand = sender[s].hand
    BY <1>1 DEF SenderType
  <2>1. Quiet(sender[s], u)
    <3> HIDE DEF u
    <3> QED BY <1>1, <2>0, FrontierType DEF Quiet, Frontier, Active
  <2>2. sender' = [sender EXCEPT ![s] = [sender[s] EXCEPT !.tried = FALSE]] /\ sent' = sent
    BY <1>2 DEF RefreshReady, HandType
  <2> QED BY <2>1, <2>2, OneQuietHand
<1>3. CASE FlushToReplay(s) \/ ReplayDone(s)
  <2>1. PICK R \in SUBSET Nonces :
          sender' = [sender EXCEPT ![s] = [sender[s] EXCEPT !.replay = R]] /\ sent' = sent
    <3>1. Replayed \subseteq Nonces
      BY HandAssumption DEF HandAssumption
    <3>2. sender[s].replay \in SUBSET Nonces
      BY <1>1 DEF SenderType
    <3>3. CASE FlushToReplay(s)
      <4>1. PICK n \in Replayed \ sender[s].replay :
              sender' = [sender EXCEPT ![s].replay = @ \cup {n}] /\ sent' = sent
        BY <3>3 DEF FlushToReplay
      <4>2. sender' = [sender EXCEPT ![s] =
                         [sender[s] EXCEPT !.replay = sender[s].replay \cup {n}]]
        BY <4>1 DEF HandType
      <4> DEFINE R == sender[s].replay \cup {n}
      <4>3. R \in SUBSET Nonces
        BY <3>1, <3>2
      <4> HIDE DEF R
      <4> QED BY <4>1, <4>2, <4>3 DEF R
    <3>4. CASE ReplayDone(s)
      <4>1. PICK n \in sender[s].replay :
              sender' = [sender EXCEPT ![s].replay = @ \ {n}] /\ sent' = sent
        BY <3>4 DEF ReplayDone
      <4>2. sender' = [sender EXCEPT ![s] =
                         [sender[s] EXCEPT !.replay = sender[s].replay \ {n}]]
        BY <4>1 DEF HandType
      <4> DEFINE R == sender[s].replay \ {n}
      <4>3. R \in SUBSET Nonces
        BY <3>1, <3>2
      <4> HIDE DEF R
      <4> QED BY <4>1, <4>2, <4>3 DEF R
    <3> QED BY <1>3, <3>3, <3>4
  <2>2. Quiet(sender[s], [sender[s] EXCEPT !.replay = R])
    BY <1>1, FrontierType DEF Quiet, SenderType, Frontier, Active
  <2> QED BY <2>1, <2>2, OneQuietHand
<1>4. ASSUME NEW n \in Nonces, Age(s, n)
      PROVE  HandsOrderly
  <2> DEFINE h == [sender[s].hand EXCEPT ![n] = @ + 1]
             t == [sender[s] EXCEPT !.hand = h]
  <2>1. sender' = [sender EXCEPT ![s] = t] /\ sent' = [sent EXCEPT ![s] = sent[s]]
    BY <1>4 DEF Age, HandType
  <2>2. sender[s].hand[n] \in Fresh .. Old
    BY <1>4, HandAssumption DEF Age, HandAssumption, Fresh, Old, Expired
  <2>3. h \in [Nonces -> Absent .. Expired] /\ \A m \in Nonces : h[m] = Absent => sender[s].hand[m] = Absent
    BY <1>1, <2>2 DEF SenderType, Absent, Fresh, Old, Expired
  <2>4. t \in SenderType /\ t.next = sender[s].next /\ t.hand = h
    <3> HIDE DEF h
    <3> QED BY <1>1, <2>3 DEF SenderType
  <2>5. Frontier(sender[s]) <= Frontier(t)
    BY <1>1, <2>4, FrontierType DEF Frontier
  <2> HIDE DEF t, h
  <2>6. \A m \in Nonces : m \in Active(sender[s]) => sender[s].hand[m] # Absent
    BY DEF Active, Absent, Fresh, Old
  <2>7. Orderly(sender[s], t, sent[s], sent[s])
    BY <1>1, <2>3, <2>4, <2>5, <2>6 DEF Orderly
  <2> QED BY <2>1, <2>7, OneHand
<1> QED BY <1>2, <1>3, <1>4

\* A step of the module is orderly for every sender.
LEMMA NextOrderly ==
    ASSUME HandType, [Next]_vars
    PROVE  HandsOrderly
<1>1. ASSUME NEW r \in Requests, Submit(r) \/ SubmitUnanswered(r)
      PROVE  HandsOrderly
  BY <1>1, SubmitOrderly, SubmitUnansweredOrderly
<1>2. CASE RepairWedge
  BY <1>2, RepairOrderly
<1>3. CASE Alarm \/ AlarmCut
  BY <1>3, AlarmOrderly
<1>4. ASSUME NEW s \in Senders,
             \/ RefreshReady(s) \/ FlushToReplay(s) \/ ReplayDone(s)
             \/ \E n \in Nonces : Age(s, n)
      PROVE  HandsOrderly
  BY <1>4, OtherOrderly
<1>5. CASE UNCHANGED <<sender, sent>>
  <2>1. HandType'
    BY <1>5 DEF HandType
  <2>2. \A s \in Senders : Orderly(sender[s], sender'[s], sent[s], sent'[s])
    BY <1>5, QuietItself, OrderlyQuiet DEF HandType
  <2> QED BY <2>1, <2>2 DEF HandsOrderly
<1> QED BY <1>1, <1>2, <1>3, <1>4, <1>5 DEF Next, vars, Finish

\* What an invocation remembers keeps its type.
ReqType ==
    req \in [Requests -> [pc : {"idle", "held", "rejected", "legacy", "sign"},
                          s : Senders, n : Nonces, first : Frontiers]]

LEMMA ReqTypeKept ==
    ASSUME TypeOK, [Next]_vars
    PROVE  ReqType'
<1> USE DEF ReqType, TypeOK
<1>1. ASSUME NEW r \in Requests, NEW s \in Senders, NEW n \in Nonces, NEW first \in Frontiers,
             NEW pc \in {"held", "rejected", "legacy", "sign"}, Answer(r, s, n, pc, first)
      PROVE  ReqType'
  BY <1>1 DEF Answer
<1>2. ASSUME NEW r \in Requests, Submit(r)
      PROVE  ReqType'
  <2>1. PICK s \in Senders, n \in Nonces, mode \in {"hold", "immediate"}, c \in 0 .. MaxRun :
             \E p \in Asked(sender[s].next = Unset) :
               HandleSubmit(r, s, n, mode, Seeded(sender[s], n, p), c)
    BY <1>2 DEF Submit
  <2>2. PICK p \in Asked(sender[s].next = Unset) :
             HandleSubmit(r, s, n, mode, Seeded(sender[s], n, p), c)
    BY <2>1
  <2>3. Seeded(sender[s], n, p) \in SenderType
    BY QuietSeeded DEF Asked, Quiet
  <2>4. Frontier(Seeded(sender[s], n, p)) \in Frontiers /\ 0 \in Frontiers
    BY <2>3, FrontierType, Ranges
  <2>5. \E pc \in {"held", "rejected", "legacy", "sign"}, first \in Frontiers :
           Answer(r, s, n, pc, first)
    BY <2>2, <2>4 DEF HandleSubmit
  <2> QED BY <1>1, <2>5
<1>3. ASSUME NEW r \in Requests, SubmitUnanswered(r)
      PROVE  ReqType'
  <2>1. \E s \in Senders, n \in Nonces : Answer(r, s, n, "legacy", 0)
    BY <1>3 DEF SubmitUnanswered
  <2> QED BY <1>1, <2>1, Ranges
<1>4. ASSUME NEW r \in Requests, Finish(r)
      PROVE  ReqType'
  <2>1. Idle.s \in Senders /\ Idle.n \in Nonces
    BY HandAssumption DEF HandAssumption, Idle, Senders, Nonces
  <2> QED BY <1>4, <2>1, Ranges DEF Finish, Idle
<1>5. CASE UNCHANGED req
  BY <1>5
<1> QED BY <1>2, <1>3, <1>4, <1>5
        DEF Next, vars, RepairWedge, Alarm, AlarmCut, RefreshReady, FlushToReplay, ReplayDone, Age

\* The sweep's offset stays below the number of senders.
LEMMA CursorKept ==
    ASSUME TypeOK, [Next]_vars
    PROVE  cursor' \in 0 .. SenderCount - 1
<1>1. CASE UNCHANGED cursor
  BY <1>1 DEF TypeOK
<1>2. CASE Alarm
  <2>1. cursor' = IF Cardinality(Waiting) = 0 THEN cursor
                  ELSE (cursor + MaxSweep) % Cardinality(Waiting)
    BY <1>2 DEF Alarm, Turns!NextCursor
  <2>2. CASE Waiting = {}
    BY <2>1, <2>2, FS_EmptySet DEF TypeOK
  <2>3. CASE Waiting # {}
    <3>1. IsFiniteSet(Senders) /\ Cardinality(Senders) = SenderCount
      BY FS_Interval, Ranges DEF Senders
    <3>2. Waiting \in SUBSET Senders
      BY DEF Waiting
    <3>3. /\ IsFiniteSet(Waiting) /\ Cardinality(Waiting) \in Nat
          /\ Cardinality(Waiting) <= SenderCount /\ Cardinality(Waiting) # 0
      BY <2>3, <3>1, <3>2, FS_Subset, FS_CardinalityType, FS_EmptySet
    <3> DEFINE k == Cardinality(Waiting)
    <3>4. cursor' = (cursor + MaxSweep) % k /\ k \in Nat /\ k # 0 /\ k <= SenderCount
      BY <2>1, <3>3
    <3>5. cursor + MaxSweep \in Nat /\ SenderCount \in Nat
      BY Ranges DEF TypeOK
    <3> HIDE DEF k
    <3>6. (cursor + MaxSweep) % k \in 0 .. k - 1
      BY <3>4, <3>5
    <3> QED BY <3>4, <3>5, <3>6
  <2> QED BY <2>2, <2>3
<1> QED BY <1>1, <1>2
        DEF Next, vars, Submit, SubmitUnanswered, Finish, RepairWedge, AlarmCut,
            RefreshReady, FlushToReplay, ReplayDone, Age

--------------------------------------------------------------------------------
(* Theorems.                                                                *)

\* Every variable keeps its type.  In particular a frontier never passes the
\* highest nonce by more than one, and the sweep's offset is that of a sender.
THEOREM TypeCorrect == Spec => []TypeOK
<1>1. Init => TypeOK
  BY Ranges, HandAssumption
     DEF Init, TypeOK, Unknown, Idle, SenderType, Senders, Nonces, HandAssumption,
         Absent, Expired
<1>2. TypeOK /\ [Next]_vars => TypeOK'
  <2> SUFFICES ASSUME TypeOK, [Next]_vars PROVE TypeOK'
    OBVIOUS
  <2>1. HandType'
    BY NextOrderly DEF TypeOK, HandType, HandsOrderly
  <2> QED BY <2>1, ReqTypeKept, CursorKept DEF TypeOK, HandType, ReqType
<1> QED BY <1>1, <1>2, PTL DEF Spec

\* A sender's transactions leave the hand in nonce order: the object implements the
\* abstract outlet, whatever Hiro answers and however calls, sweeps, repairs,
\* replays and restarts interleave.
THEOREM OrderOfLeaving == Spec => LeavesInOrder
<1>1. Init => Outlet!Init
  BY DEF Init, Outlet!Init, Unknown, Frontier
<1>2. TypeOK /\ [Next]_vars => [Outlet!Advance]_(Outlet!vars)
  <2> SUFFICES ASSUME TypeOK, [Next]_vars PROVE Outlet!Advance
    OBVIOUS
  <2>1. HandsOrderly
    BY NextOrderly DEF TypeOK, HandType
  <2>2. HandType'
    BY <2>1 DEF HandsOrderly
  <2>3. \A s \in Senders : Frontier(sender'[s]) \in Nat
    BY <2>2, FrontierType DEF HandType
  <2> QED BY <2>1, <2>2, <2>3
          DEF Outlet!Advance, Outlet!Reached, HandsOrderly, HandType, Orderly
<1> QED BY <1>1, <1>2, TypeCorrect, PTL DEF Spec, LeavesInOrder, Outlet!Spec

\* At any time what was sent from the frontier on has no hole in it.
THEOREM NoHoleInWhatWasSent == Spec => []Outlet!NoHole
<1>1. Init => Outlet!NoHole
  BY DEF Init, Outlet!NoHole
<1>2. TypeOK /\ Outlet!NoHole /\ [Next]_vars => Outlet!NoHole'
  <2> SUFFICES ASSUME TypeOK, Outlet!NoHole, [Next]_vars,
                      NEW s \in Senders, NEW n \in sent'[s], Frontier(sender'[s]) <= n,
                      NEW m \in Nonces, Frontier(sender'[s]) <= m, m <= n
               PROVE  m \in sent'[s]
    BY DEF Outlet!NoHole, Outlet!Reached
  <2>1. Orderly(sender[s], sender'[s], sent[s], sent'[s]) /\ HandType'
    BY NextOrderly DEF TypeOK, HandType, HandsOrderly
  <2>2. CASE n \notin sent[s]
    BY <2>1, <2>2 DEF Orderly
  <2>3. CASE n \in sent[s]
    <3>1. /\ Frontier(sender[s]) \in Nat /\ Frontier(sender'[s]) \in Nat
          /\ Frontier(sender[s]) <= Frontier(sender'[s])
          /\ m \in Nat /\ n \in Nat
      BY <2>1, FrontierType, Ranges DEF Orderly, TypeOK, HandType
    <3>2. Frontier(sender[s]) <= m /\ Frontier(sender[s]) <= n
      BY <3>1
    <3>3. m \in sent[s]
      BY <2>3, <3>2 DEF Outlet!NoHole, Outlet!Reached
    <3> QED BY <2>1, <3>3 DEF Orderly
  <2> QED BY <2>2, <2>3
<1> QED BY <1>1, <1>2, TypeCorrect, PTL DEF Spec

\* No step drops a transaction that is held and has not expired, the repair of a
\* frontier included, unless it gives it a sponsor nonce.
THEOREM ActiveRowsKept == Spec => KeepsActive
<1>1. TypeOK /\ [Next]_vars =>
        [\A s \in Senders, n \in Nonces :
           n \in Active(sender[s]) /\ sender'[s].hand[n] = Absent
             => n \in sent'[s] /\ Frontier(sender'[s]) <= n]_vars
  BY NextOrderly DEF TypeOK, HandType, HandsOrderly, Orderly
<1> QED BY <1>1, TypeCorrect, PTL DEF Spec, KeepsActive
================================================================================
