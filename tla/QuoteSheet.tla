------------------------------ MODULE QuoteSheet ------------------------------
(***************************************************************************)
(* What the parser read off a quotation, and the rules that decide from    *)
(* it, from the catalog decisions and from the buyer's quantities whether  *)
(* a scenario is reviewed and whether a negotiation can start on it.       *)
(*                                                                         *)
(* Two pieces of code answer those two questions, each with queries of its *)
(* own: the review gate (matching-unresolved.ts and commercial-review.ts)  *)
(* and the facts a negotiation starts from (negotiation-start-facts.ts).   *)
(***************************************************************************)
EXTENDS Naturals

CONSTANTS
    Scenarios,   \* the layouts the parser found in the workbook
    Lines,       \* the lines of all of them
    ScenarioOf,  \* [Lines -> Scenarios]
    Sheet,       \* [Lines -> what the parser read of the line]
    Products,    \* the products of the quotation's catalog version
    NoProduct,   \* a decision that leaves the product open
    Excluded,    \* a decision that leaves the line out
    Undecided    \* a line without a decision

\* quantity is 0 unless exactly one quantity was read, unitPrice is FALSE unless
\* exactly one price was, tiers holds the minimum quantities of the price tiers.
SheetLine == [quantity : Nat, unitPrice : BOOLEAN, tiers : SUBSET (Nat \ {0}),
              ambiguous : BOOLEAN]

Decisions == Products \cup {NoProduct, Excluded}

ASSUME SheetAssumption ==
    /\ ScenarioOf \in [Lines -> Scenarios]
    /\ Sheet \in [Lines -> SheetLine]
    /\ NoProduct \notin Products /\ Excluded \notin Products
    /\ Undecided \notin Decisions /\ NoProduct # Excluded

LinesOf(s) == {l \in Lines : ScenarioOf[l] = s}

\* The quantity of a line: the buyer's, 0 if there is none, before the sheet's.
CommercialQuantity(l, buyers) == IF buyers # 0 THEN buyers ELSE Sheet[l].quantity

\* Tiers, where the line has any, decide alone what a known quantity costs.
Priced(l, n) ==
    IF n # 0 /\ Sheet[l].tiers # {} THEN \E m \in Sheet[l].tiers : m <= n
                                    ELSE Sheet[l].unitPrice

\* commercialReviewReasons(..).length = 0
Clear(l, buyers) ==
    LET n == CommercialQuantity(l, buyers) IN
    /\ n # 0
    /\ Priced(l, n)
    /\ Sheet[l].unitPrice \/ Sheet[l].tiers # {}
    /\ ~Sheet[l].ambiguous

------------------------------------------------------------------------------
(* The review gate: d gives each line its latest decision, q the buyer's   *)
(* quantities.                                                             *)

Unresolved(s, d) == {l \in LinesOf(s) : d[l] \in {Undecided, NoProduct}}
Included(s, d)   == {l \in LinesOf(s) : d[l] \in Products}
Blockers(s, d, q) == {l \in LinesOf(s) : d[l] # Excluded /\ ~Clear(l, q[l])}

Reviewed(s, d, q) ==
    Unresolved(s, d) = {} /\ Included(s, d) # {} /\ Blockers(s, d, q) = {}

------------------------------------------------------------------------------
(* The facts a negotiation starts from *)

\* Mutant: the buyer's quantity is read only where the sheet has none.
SheetQuantityFirst(l, buyers) ==
    IF Sheet[l].quantity # 0 THEN Sheet[l].quantity ELSE buyers

StartQuantity(l, buyers) == CommercialQuantity(l, buyers)

Negotiable(s, d, q) ==
    {l \in Included(s, d) : /\ StartQuantity(l, q[l]) # 0
                            /\ Priced(l, StartQuantity(l, q[l]))}

\* unresolvedMatchCount: the lines neither excluded nor negotiable.
Unclear(s, d, q) ==
    {l \in LinesOf(s) : d[l] # Excluded} \ Negotiable(s, d, q)

==============================================================================
