------------------------- MODULE NegotiationContract -------------------------
(***************************************************************************)
(* What a negotiation promises, whoever runs it: two rounds, one answer of *)
(* each supplier in each, the capacity of S2 dropping once between them,   *)
(* one recommendation among the offers that can fulfil the order, and at   *)
(* most one purchase order, for that recommendation.  The order of phases  *)
(* is the table negotiationTransitions of domain/src/states.ts; the two    *)
(* phases between the rounds are internal to one step.                     *)
(***************************************************************************)
EXTENDS Naturals

CONSTANTS
    Suppliers,  \* who answers
    S2,         \* whose capacity drops
    NoOffer     \* the recommendation that names no winner

Answers(r) == {<<s, r>> : s \in Suppliers}

VARIABLES
    phase,      \* where the negotiation stands
    answers,    \* <<supplier, round>> pairs answered
    offers,     \* the answers that were offers
    limited,    \* offers known not to cover the whole order
    curveball,  \* S2 has lost capacity
    winner      \* {} or the recommendation

vars == <<phase, answers, offers, limited, curveball, winner>>

Init ==
    /\ phase = "ABSENT"
    /\ answers = {} /\ offers = {} /\ limited = {} /\ winner = {}
    /\ curveball = FALSE

Open ==
    /\ phase = "ABSENT"
    /\ phase' = "ROUND_1_RUNNING"
    /\ UNCHANGED <<answers, offers, limited, curveball, winner>>

OfS2(o) == {k \in o : k[1] = S2}

\* Supplier s answers in round r, once, with an offer or without.  The answer
\* that completes a round may close it in the same step.
Answer(s, r) ==
    /\ phase = IF r = 1 THEN "ROUND_1_RUNNING" ELSE "ROUND_2_RUNNING"
    /\ <<s, r>> \notin answers
    /\ answers' = answers \cup {<<s, r>>}
    /\ offers' \in {offers, offers \cup {<<s, r>>}}
    /\ \/ phase' = phase
       \/ /\ Answers(r) \subseteq answers'
          /\ phase' = IF r = 1 THEN "ROUND_2_RUNNING" ELSE "EVALUATED"
    /\ curveball' = (phase' # "ROUND_1_RUNNING")
    /\ limited' = IF curveball' THEN OfS2(offers') ELSE {}
    /\ UNCHANGED winner

\* An offer can win if its supplier made no later one and it is not limited.
CanWin == {k \in offers : /\ k \notin limited
                          /\ k[2] = 1 => <<k[1], 2>> \notin offers}

Recommend ==
    /\ phase = "EVALUATED"
    /\ phase' = "RECOMMENDED"
    /\ \E w \in CanWin \cup {NoOffer} : winner' = {w}
    /\ UNCHANGED <<answers, offers, limited, curveball>>

Order ==
    /\ phase = "RECOMMENDED"
    /\ NoOffer \notin winner
    /\ phase' = "PO_COMMITTED"
    /\ UNCHANGED <<answers, offers, limited, curveball, winner>>

Next ==
    \/ Open \/ Recommend \/ Order
    \/ \E s \in Suppliers, r \in {1, 2} : Answer(s, r)

Spec == Init /\ [][Next]_vars
==============================================================================
