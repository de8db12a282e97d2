------------------------------- MODULE Escrow -------------------------------
(***************************************************************************)
(* What the facilitator promises about money, whatever fails, restarts or  *)
(* runs at once (src/docs/deployment.md, "Crash safety"): it passes on     *)
(* what it pulled, once, and a refund gives back a pull, once.  The two    *)
(* ways the code leaves to break that promise are explicit: a payment on   *)
(* which two workers act at once is contested, one refunded again before   *)
(* the previous refund is known to have failed is rushed.                  *)
(***************************************************************************)
EXTENDS Integers, FiniteSets

CONSTANTS Payments, Payee, Amount   \* each payment, to whom, and how much

VARIABLES
  pulled,    \* payments whose funds the facilitator took
  paid,      \* how often each payee was paid
  refunded,  \* how often each payment was refunded
  contested, rushed

vars == <<pulled, paid, refunded, contested, rushed>>

Payees == {Payee[p] : p \in Payments}
Owed(c) == {p \in pulled : Payee[p] = c}

Init ==
  /\ pulled = {} /\ contested = {} /\ rushed = {}
  /\ paid = [c \in Payees |-> 0]
  /\ refunded = [p \in Payments |-> 0]

\* EIP-3009: an authorization is used once.
Pull(p) ==
  /\ p \notin pulled /\ pulled' = pulled \cup {p}
  /\ UNCHANGED <<paid, refunded, contested, rushed>>

\* A payee gets what was pulled for it and not passed on yet.
Pay(c) ==
  /\ \/ paid[c] < Cardinality(Owed(c))
     \/ \E p \in contested : Payee[p] = c
  /\ paid' = [paid EXCEPT ![c] = @ + 1]
  /\ UNCHANGED <<pulled, refunded, contested, rushed>>

\* Money goes to one side only: what is owed to a payee is never given back.
Refund(p) ==
  /\ p \in pulled /\ Amount[p] = 0
  /\ refunded[p] = 0 \/ p \in contested \cup rushed
  /\ refunded' = [refunded EXCEPT ![p] = @ + 1]
  /\ UNCHANGED <<pulled, paid, contested, rushed>>

Disturb ==
  /\ contested \subseteq contested' /\ contested' \subseteq Payments
  /\ rushed \subseteq rushed' /\ rushed' \subseteq Payments
  /\ UNCHANGED <<pulled, paid, refunded>>

Next ==
  \/ \E p \in Payments : Pull(p) \/ Refund(p)
  \/ \E c \in Payees : Pay(c)
  \/ Disturb

Spec == Init /\ [][Next]_vars
=============================================================================
