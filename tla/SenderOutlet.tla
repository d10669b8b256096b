----------------------------- MODULE SenderOutlet -----------------------------
(***************************************************************************)
(* What the sender hand of NonceDO promises (nonce-do.ts, sender_state and  *)
(* sender_hand): a sender's transactions leave in nonce order.  Nothing is  *)
(* sent while a lower nonce, from the sender's base on, was never sent, and  *)
(* the base only rises.                                                     *)
(***************************************************************************)
EXTENDS Integers

CONSTANTS
    Senders,    \* sender addresses
    Nonces      \* their nonces, natural numbers

VARIABLES
    base,   \* the lowest nonce of a sender that may still be sent
    sent    \* the nonces of a sender that were given a sponsor nonce

vars == <<base, sent>>

\* Everything between the base and n is sent.
Reached(b, S, n) == b <= n /\ \A m \in Nonces : b <= m /\ m <= n => m \in S

Init ==
    /\ base = [s \in Senders |-> 0]
    /\ sent = [s \in Senders |-> {}]

Advance ==
    /\ base' \in [Senders -> Nat]
    /\ sent' \in [Senders -> SUBSET Nonces]
    /\ \A s \in Senders :
         /\ base[s] <= base'[s]
         /\ sent[s] \subseteq sent'[s]
         /\ \A n \in sent'[s] \ sent[s] : Reached(base'[s], sent'[s], n)

Spec == Init /\ [][Advance]_vars

\* No nonce was sent above one that was not: whatever is sent at or above the base
\* is reached from it.
NoHole ==
    \A s \in Senders : \A n \in sent[s] : base[s] <= n => Reached(base[s], sent[s], n)
================================================================================
