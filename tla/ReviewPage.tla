------------------------------ MODULE ReviewPage ------------------------------
(***************************************************************************)
(* The review of the selected layout as a buyer sees it, once matching is  *)
(* done: what the read model tells of each line, the cards the page shows  *)
(* for it, the quantities typed into their form, and the commands they     *)
(* send.  Other tabs and applied suggestions change the same lines; the    *)
(* page learns of it when it is refreshed.  How a command takes effect is  *)
(* in module QuotationReview, here it is one step.                         *)
(***************************************************************************)
EXTENDS QuoteSheet, FiniteSets

CONSTANTS
    Certain,      \* [Lines -> the product the matcher is sure of, or NoProduct]
    Candidates,   \* [Lines -> the products it proposes]
    Typed,        \* bound: the quantities a buyer types
    MaxCommands   \* bound: commands sent, from any tab

VARIABLES
    review,    \* what is stored: each line's decision, their number, the buyer's quantity
    page,      \* the copy of it on the page
    form,      \* the quantities in the form, 0 for an empty field; or no form
    commands

vars == <<review, page, form, commands>>

------------------------------------------------------------------------------
(* What the read model tells of a line *)

Reasons(l, buyers) ==
    LET n == CommercialQuantity(l, buyers)
    IN (IF n = 0 THEN {"missing_requested_quantity"} ELSE {})
       \cup (IF n # 0 /\ ~Priced(l, n) THEN {"no_price_for_requested_quantity"} ELSE {})
       \cup (IF ~Sheet[l].unitPrice /\ Sheet[l].tiers = {} THEN {"missing_unit_price"} ELSE {})
       \cup (IF Sheet[l].ambiguous THEN {"ambiguous_commercial_fields"} ELSE {})

\* 0 for a line without tiers.
MinimumOrderQuantity(l) ==
    IF Sheet[l].tiers = {} THEN 0
    ELSE CHOOSE m \in Sheet[l].tiers : \A k \in Sheet[l].tiers : m <= k

Status(v, l) ==
    CASE v.decision[l] = Excluded  -> "EXCLUDED"
      [] v.decision[l] = NoProduct -> "PENDING"
      [] OTHER                     -> "RESOLVED"

ReasonsOf(v, l) == Reasons(l, v.quantity[l])

------------------------------------------------------------------------------
(* What the page makes of it *)

ReviewableMatches(v) == {l \in Lines : Status(v, l) = "PENDING"}
IncludedMatches(v)   == {l \in Lines : Status(v, l) = "RESOLVED"}

RecoverableExcludedMatches(v) ==
    {l \in Lines : /\ Status(v, l) = "EXCLUDED"
                   /\ Candidates[l] # {}
                   /\ ReasonsOf(v, l) \cap {"missing_unit_price",
                                            "ambiguous_commercial_fields"} = {}}

CommercialReviewLines(v) ==
    {l \in Lines : Status(v, l) # "EXCLUDED" /\ ReasonsOf(v, l) # {}}

\* CurrentWorkspaceStep, from the selected layout to the negotiation.
Step(v) ==
    IF ReviewableMatches(v) # {} \/ IncludedMatches(v) = {} THEN "match"
    ELSE IF CommercialReviewLines(v) # {} THEN "commercial-review"
    ELSE "reviewed"

\* The lines the match card lists: those to decide, or those to take back.
NeedsIncludedProduct(v) == ReviewableMatches(v) = {} /\ IncludedMatches(v) = {}
DisplayedMatches(v) ==
    IF NeedsIncludedProduct(v) THEN RecoverableExcludedMatches(v) ELSE ReviewableMatches(v)

NeedsQuantity(v, l) ==
    ReasonsOf(v, l) \cap {"missing_requested_quantity", "no_price_for_requested_quantity"} # {}

EditableLines(v) == {l \in CommercialReviewLines(v) : NeedsQuantity(v, l)}

\* Mutant: any positive number.
ValidQuantityAny(l, n) == n > 0

ValidQuantity(l, n) == n > 0 /\ n >= MinimumOrderQuantity(l)

\* The form begins with what is known of the lines it asks for.
NoForm == [l \in Lines |-> 0]
FreshForm(v) == [l \in Lines |-> IF l \in EditableLines(v)
                                 THEN CommercialQuantity(l, v.quantity[l]) ELSE 0]

\* The form of a card that stays is kept, whatever lines it now asks for.
FormAfter(before, after) ==
    IF Step(after) # "commercial-review" THEN NoForm
    ELSE IF Step(before) = "commercial-review" THEN form ELSE FreshForm(after)

\* What the match card and the review card offer to exclude, and to include.
MayExclude(v) ==
    CASE Step(v) = "match"             -> ReviewableMatches(v)
      [] Step(v) = "commercial-review" -> CommercialReviewLines(v) \ EditableLines(v)
      [] OTHER                         -> {}

MayInclude(v) == IF Step(v) = "match" THEN DisplayedMatches(v) ELSE {}

------------------------------------------------------------------------------
(* What the copilot's tool tells the model it may safely suggest.  A line that *)
(* matches exactly is resolved by the matcher, so that none is left to include. *)

Advised(v) ==
    {l \in IncludedMatches(v) :
        CommercialQuantity(l, v.quantity[l]) = 0 /\ MinimumOrderQuantity(l) # 0}

------------------------------------------------------------------------------
(* Commands *)

Decide(r, l, d) == [r EXCEPT !.decision[l] = d, !.decided[l] = @ + 1]

\* A resolution names the decision it was shown, which must be the latest.
Current(l) == page.decided[l] = review.decided[l]

\* A command of this page is answered with the quotation it leaves.
Answered(r) ==
    /\ commands < MaxCommands
    /\ commands' = commands + 1
    /\ review' = r
    /\ page' = r
    /\ form' = FormAfter(page, r)

Include(l, p) ==
    /\ l \in MayInclude(page) /\ p \in Candidates[l] /\ Current(l)
    /\ Answered(Decide(review, l, p))

Exclude(l) ==
    /\ l \in MayExclude(page) /\ Current(l)
    /\ Answered(Decide(review, l, Excluded))

Submit ==
    /\ Step(page) = "commercial-review" /\ EditableLines(page) # {}
    /\ \A l \in EditableLines(page) : ValidQuantity(l, form[l])
    /\ Answered([review EXCEPT !.quantity =
                    [l \in Lines |-> IF l \in EditableLines(page) THEN form[l] ELSE @[l]]])

\* Another tab, or a suggestion: it names any amount above zero.
Elsewhere ==
    /\ commands < MaxCommands
    /\ commands' = commands + 1
    /\ \E l \in Lines :
          \/ \E p \in Candidates[l] : review' = Decide(review, l, p)
          \/ /\ review.decision[l] # Excluded
             /\ \/ review' = Decide(review, l, Excluded)
                \/ \E n \in Typed \ {0} : review' = [review EXCEPT !.quantity[l] = n]
    /\ UNCHANGED <<page, form>>

------------------------------------------------------------------------------
(* The page *)

Type(l, n) ==
    /\ Step(page) = "commercial-review" /\ l \in EditableLines(page)
    /\ form' = [form EXCEPT ![l] = n]
    /\ UNCHANGED <<review, page, commands>>

\* The other lines' fields are forgotten.
UseForAll(n) ==
    /\ Step(page) = "commercial-review" /\ Cardinality(EditableLines(page)) > 1
    /\ n > 0
    /\ form' = [l \in Lines |-> IF l \in EditableLines(page) THEN n ELSE 0]
    /\ UNCHANGED <<review, page, commands>>

\* A refresh that takes long hides the card, and its form is lost.
Refresh ==
    /\ page' = review
    /\ \/ form' = FormAfter(page, review)
       \/ form' = IF Step(review) = "commercial-review" THEN FreshForm(review) ELSE NoForm
    /\ UNCHANGED <<review, commands>>

Init ==
    /\ review = [decision |-> Certain, decided |-> [l \in Lines |-> 1],
                 quantity |-> [l \in Lines |-> 0]]
    /\ page = review
    /\ form = IF Step(page) = "commercial-review" THEN FreshForm(page) ELSE NoForm
    /\ commands = 0

Next ==
    \/ \E l \in Lines : \/ \E p \in Products : Include(l, p)
                        \/ Exclude(l)
                        \/ \E n \in Typed : Type(l, n)
    \/ \E n \in Typed : UseForAll(n)
    \/ Submit
    \/ Elsewhere
    \/ Refresh

Spec == Init /\ [][Next]_vars

------------------------------------------------------------------------------
(* The page and the review gate judge a layout alike: the page has nothing    *)
(* left to ask for exactly where the gate would open, and a quantity the form *)
(* takes, or the copilot's tool calls safe, is one the gate finds a price for *)
(* wherever the workbook has any.                                            *)
PageAndGateAgree ==
    /\ \A s \in Scenarios :
          (Step(page) = "reviewed") <=> Reviewed(s, page.decision, page.quantity)
    /\ \A l \in EditableLines(page), n \in Typed :
          ValidQuantity(l, n) /\ "missing_unit_price" \notin ReasonsOf(page, l)
              => Priced(l, n)
    /\ \A l \in Advised(page) : Priced(l, MinimumOrderQuantity(l))

(* What the card says: "Exclude any line that cannot be priced safely."       *)
(* A line the commercial review holds the buyer up for can be excluded there, *)
(* or given a quantity after which it can be, or no longer has to be.         *)
NoLineTrapped ==
    Step(page) = "commercial-review" =>
        \A l \in EditableLines(page) :
            \E n \in Typed : /\ ValidQuantity(l, n)
                             /\ ~NeedsQuantity([page EXCEPT !.quantity[l] = n], l)
==============================================================================
