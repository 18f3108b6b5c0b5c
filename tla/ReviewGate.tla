------------------------------ MODULE ReviewGate ------------------------------
(***************************************************************************)
(* What the review of a quotation promises: every command takes effect at  *)
(* one instant, on the latest decision of each line, and opens the gate    *)
(* when it completes the review of the scenario it is about.               *)
(***************************************************************************)
EXTENDS QuoteSheet

VARIABLES
    state,      \* quotation.state
    selection,  \* the selected scenario
    decisions,  \* each line's decision in force
    quantity    \* the buyer's quantity of each line, 0 for none

CONSTANT NoScenario

gateVars == <<state, selection, decisions, quantity>>

Init ==
    /\ state \in {"INTERPRETATION_REQUIRED", "REVIEW_REQUIRED"}
    /\ selection = NoScenario
    /\ decisions = [l \in Lines |-> Undecided]
    /\ quantity = [l \in Lines |-> 0]

\* The state after a command about scenario s.
Judged(s) ==
    state' = IF selection' = s /\ Reviewed(s, decisions', quantity')
             THEN "READY" ELSE state

\* Matching decides every line at once, and leaves the gate alone.
Match ==
    /\ \A l \in Lines : decisions[l] = Undecided /\ decisions'[l] \in Decisions
    /\ \A l \in Lines : decisions'[l] # Excluded
    /\ DOMAIN decisions' = Lines
    /\ UNCHANGED <<state, selection, quantity>>

Select(s) ==
    /\ selection' = s
    /\ Judged(s)
    /\ UNCHANGED <<decisions, quantity>>

Resolve(l, d) ==
    /\ decisions[l] # Undecided
    /\ decisions' = [decisions EXCEPT ![l] = d]
    /\ Judged(ScenarioOf[l])
    /\ UNCHANGED <<selection, quantity>>

SetQuantities ==
    /\ selection \in Scenarios
    /\ DOMAIN quantity' = Lines
    /\ \A l \in Lines : \/ quantity'[l] = quantity[l]
                        \/ ScenarioOf[l] = selection /\ quantity'[l] # 0
    /\ Judged(selection)
    /\ UNCHANGED <<selection, decisions>>

Next ==
    \/ Match
    \/ \E s \in Scenarios : Select(s)
    \/ \E l \in Lines : \E d \in Products \cup {Excluded} : Resolve(l, d)
    \/ SetQuantities

Spec == Init /\ [][Next]_gateVars
==============================================================================
