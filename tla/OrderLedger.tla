----------------------------- MODULE OrderLedger -----------------------------
(***************************************************************************)
(* What the purchase-order ledger of a brand promises: orders numbered     *)
(* 1, 2, 3 .. without a gap, one for a negotiation at most and one for an  *)
(* idempotency key at most, and no answer that names anything but an order *)
(* of the ledger.  Requests, locks, previews and time are left out.        *)
(***************************************************************************)
EXTENDS Naturals

CONSTANTS
    Negotiations,
    Actors,
    Keys           \* idempotency keys

VARIABLES
    orders,        \* the ledger
    next,          \* the number the next order takes
    answers        \* what clients were told: orders, as [command, number]

vars == <<orders, next, answers>>

Init == orders = {} /\ next = 1 /\ answers = {}

\* An order for a negotiation and a key that have none.
Issue(n, a, k) ==
    /\ \A o \in orders : o.negotiation # n /\ o.key # k
    /\ orders' = orders \cup
           {[negotiation |-> n, actor |-> a, key |-> k, number |-> next]}
    /\ next' = next + 1
    /\ UNCHANGED answers

\* A client is told the order its command issued, then or on a retry.
Tell(o) ==
    /\ answers' = answers \cup {o}
    /\ UNCHANGED <<orders, next>>

Next ==
    \/ \E n \in Negotiations, a \in Actors, k \in Keys : Issue(n, a, k)
    \/ \E o \in orders : Tell(o)

Spec == Init /\ [][Next]_vars
==============================================================================
