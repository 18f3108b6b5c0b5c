-------------------------- MODULE MCQuotationReview --------------------------
(* QuotationReview for TLC: a workbook of two layouts.  Of the first, one   *)
(* line needs a decision, the other is matched at once but its fields are   *)
(* ambiguous.  The one line of the second is matched at once and priced by  *)
(* tiers; the sheet's own quantity of it is a parameter.                    *)
EXTENDS QuotationReview, TLC

CONSTANTS s1, s2, l1, l2, l3, p1, p2, TierLineQuantity

MCScenarioOf == l1 :> s1 @@ l2 :> s1 @@ l3 :> s2

MCSheet ==
    l1 :> [quantity |-> 1, unitPrice |-> TRUE, tiers |-> {}, ambiguous |-> FALSE]
 @@ l2 :> [quantity |-> 1, unitPrice |-> TRUE, tiers |-> {}, ambiguous |-> TRUE]
 @@ l3 :> [quantity |-> TierLineQuantity, unitPrice |-> FALSE, tiers |-> {2, 9},
           ambiguous |-> FALSE]

MCCertain == l1 :> NoProduct @@ l2 :> p2 @@ l3 :> p1
MCTop  == l1 :> p1 @@ l2 :> p2 @@ l3 :> p1

Symmetry == Permutations(Requests)
==============================================================================
