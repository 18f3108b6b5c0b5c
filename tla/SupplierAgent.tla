---------------------------- MODULE SupplierAgent ----------------------------
(***************************************************************************)
(* What a supplier's model may answer and what the system accepts of it:   *)
(* the policy the prompt states, the checks of domain and agents on the    *)
(* answer, and the outcome of one attempt.  A share of basis points is a   *)
(* percentage: every figure of the tables is a multiple of 100.            *)
(***************************************************************************)
EXTENDS Integers, Sequences, FiniteSets

CONSTANTS
    Products,    \* the lines of the order intent
    Quantity,    \* the requested quantity of each
    Baseline     \* the unit price the quotation asks for each, in minor units

\* validateOrderIntent: a function has no product twice.
IsIntent ==
    /\ Products # {}
    /\ Quantity \in [Products -> Nat \ {0}]
    /\ Baseline \in [Products -> Nat \ {0}]

SupplierIds == {"S1", "S2", "S3"}
Rounds      == {1, 2}

Bounds(price, lead, order, pre) ==
    [price |-> price, lead |-> lead, order |-> order, pre |-> pre]

\* SUPPLIER_ROUND_POLICY_V1: the opening facts, then the room for concessions.
RoundPolicy ==
    [S1 |-> <<Bounds(<<100, 100>>, <<50, 50>>, <<33, 33>>, <<66, 66>>),
              Bounds(<<92, 99>>, <<42, 49>>, <<20, 32>>, <<60, 65>>)>>,
     S2 |-> <<Bounds(<<115, 115>>, <<25, 25>>, <<40, 40>>, <<40, 40>>),
              Bounds(<<105, 114>>, <<20, 24>>, <<30, 39>>, <<30, 39>>)>>,
     S3 |-> <<Bounds(<<105, 105>>, <<15, 15>>, <<100, 100>>, <<100, 100>>),
              Bounds(<<97, 104>>, <<12, 14>>, <<70, 99>>, <<70, 99>>)>>]

\* SUPPLIER_POLICY_V1: the bounds of a supplier whatever the round.
SupplierPolicy ==
    [S1 |-> Bounds(<<92, 100>>, <<42, 55>>, <<20, 33>>, <<60, 66>>),
     S2 |-> Bounds(<<105, 115>>, <<20, 30>>, <<30, 40>>, <<30, 40>>),
     S3 |-> Bounds(<<97, 108>>, <<12, 20>>, <<70, 100>>, <<70, 100>>)]

Quality(s) == IF s = "S2" THEN 47 ELSE 40

\* The capacity event between the rounds.
ExpectedCapacity(s, round) == IF s = "S2" /\ round = 2 THEN 60 ELSE 100

\* roundMinorByBasisPoints: halves go up.
RoundedShare(minor, percent) == (minor * percent + 50) \div 100

Within(x, bounds) == bounds[1] <= x /\ x <= bounds[2]

PriceBounds(p, multipliers) ==
    <<RoundedShare(Baseline[p], multipliers[1]),
      RoundedShare(Baseline[p], multipliers[2])>>

------------------------------------------------------------------------------
(* A proposal, as the output schema has it *)

\* A schedule is what each milestone takes in all: nothing reads more of it.
PreShipment(x) == x.order + x.dispatch
ScheduleTotal(x) == x.order + x.dispatch + x.delivery

\* The types of offerProposalSchema; a line may name any product.
WellTyped(x) ==
    /\ x.lead \in Int /\ x.capacity \in Int
    /\ x.order \in Int /\ x.dispatch \in Int /\ x.delivery \in Int
    /\ x.sameCurrency \in BOOLEAN /\ x.expired \in BOOLEAN
    /\ x.lines \in Seq([product  : {x.lines[i].product : i \in DOMAIN x.lines},
                       quantity : Int, price : Int])

\* offerProposalSchema, but for the length of the message and the bounds of each
\* installment; the model answers under the same schema.
SchemaValid(x) ==
    /\ ScheduleTotal(x) = 100
    /\ x.lead > 0
    /\ x.capacity \in 0 .. 100
    /\ x.lines # <<>>

Listed(x)     == {x.lines[i].product : i \in DOMAIN x.lines}
Duplicated(x) == Cardinality(Listed(x)) # Len(x.lines)

\* The first check that fails, "" when none does.
FirstFailing(checks) ==
    LET failing == {i \in DOMAIN checks : checks[i].fails}
    IN IF failing = {} THEN ""
       ELSE checks[CHOOSE i \in failing : \A j \in failing : i <= j].reason

Check(reason, fails) == [reason |-> reason, fails |-> fails]

\* What is wrong with line i, in the order of the loop over the lines.
LineReason(s, x, i) ==
    LET l == x.lines[i] IN
    IF \E j \in 1 .. i - 1 : x.lines[j].product = l.product THEN "price-coverage"
    ELSE IF ~x.sameCurrency \/ l.product \notin Products THEN "price-currency"
    ELSE IF ~Within(l.price, PriceBounds(l.product, SupplierPolicy[s].price))
         THEN "price-policy"
    ELSE ""

\* validateOfferAgainstSupplierPolicy.
SupplierPolicyReason(s, x) ==
    LET policy == SupplierPolicy[s] IN
    FirstFailing(<<
        Check("lead-policy", ~Within(x.lead, policy.lead)),
        Check("payment-policy", ~Within(x.order, policy.order)
                                \/ ~Within(PreShipment(x), policy.pre)),
        Check("price-coverage", Len(x.lines) # Cardinality(Products))>>
      \o [i \in DOMAIN x.lines |->
             Check(LineReason(s, x, i), LineReason(s, x, i) # "")])

\* validateOfferCommercialFacts: what can still fail after the policy held.
CommercialReason(x) ==
    FirstFailing(<<
        Check("offer-expired", x.expired),
        Check("offer-complete",
              \E i \in DOMAIN x.lines : LET l == x.lines[i] IN
                  l.quantity # Quantity[l.product] \/ l.price <= 0)>>)

\* Mutant: a concession must stay inside its bounds, not on them.
RoundPolicyReasonInside(s, round, x) ==
    LET policy == RoundPolicy[s][round] IN
    IF round = 2 /\ ~(policy.lead[1] < x.lead /\ x.lead < policy.lead[2])
    THEN "round-lead-policy" ELSE ""

\* Mutant: no round has bounds of its own.
RoundPolicyReasonUnset(s, round, x) == ""

\* validateRoundPolicy.
RoundPolicyReason(s, round, x) ==
    LET policy == RoundPolicy[s][round] IN
    FirstFailing(<<
        Check("round-lead-policy", ~Within(x.lead, policy.lead)),
        Check("round-payment-policy", ~Within(x.order, policy.order)
                                      \/ ~Within(PreShipment(x), policy.pre)),
        Check("round-price-policy",
              \E i \in DOMAIN x.lines : LET l == x.lines[i] IN
                  ~Within(l.price, PriceBounds(l.product, policy.price)))>>)

\* validateProposal: why the answer is refused, "" when it is accepted.
Refusal(s, round, x) ==
    IF ~SchemaValid(x) THEN "schema"
    ELSE IF x.supplier # s THEN "supplier-identity"
    ELSE IF x.round # round THEN "round-mismatch"
    ELSE IF SupplierPolicyReason(s, x) # "" THEN SupplierPolicyReason(s, x)
    ELSE IF CommercialReason(x) # "" THEN CommercialReason(x)
    ELSE IF RoundPolicyReason(s, round, x) # "" THEN RoundPolicyReason(s, round, x)
    ELSE IF x.capacity # ExpectedCapacity(s, round) THEN "capacity-event-mismatch"
    ELSE ""

------------------------------------------------------------------------------
(* TRUSTED_POLICY: what the prompt requires of the answer *)

Obeys(s, round, x) ==
    LET policy == RoundPolicy[s][round] IN
    /\ x.supplier = s /\ x.round = round /\ x.sameCurrency /\ ~x.expired
    /\ x.capacity = IF s = "S2" /\ round = 2 THEN 60 ELSE 100
    /\ Within(x.lead, policy.lead)
    /\ ScheduleTotal(x) = 100
    /\ Within(x.order, policy.order)
    /\ Within(PreShipment(x), policy.pre)
    /\ Listed(x) = Products /\ ~Duplicated(x)
    /\ \A i \in DOMAIN x.lines : LET l == x.lines[i] IN
           /\ l.quantity = Quantity[l.product]
           /\ Within(l.price, PriceBounds(l.product, policy.price))

\* proposal-repair.ts: what the second attempt is told about each reason.
Advice(reason) ==
    CASE reason = "price-coverage" -> "lines"
      [] reason = "price-currency" -> "currency"
      [] reason = "round-price-policy" -> "price"
      [] reason \in {"round-payment-policy", "payment-policy"} -> "payment"
      [] reason \in {"round-lead-policy", "lead-policy"} -> "lead"
      [] reason = "capacity-event-mismatch" -> "capacity"
      [] reason = "supplier-identity" -> "supplier"
      [] reason = "round-mismatch" -> "round"
      [] reason = "schema" -> "schema"
      [] reason = "incomplete_response" -> "complete"
      [] reason = "model_refusal_or_empty_output" -> "propose"
      [] OTHER -> "correct"

\* proposalTotal: what the offer costs in all.
TotalOf(x) ==
    LET sum[i \in 0 .. Len(x.lines)] ==
            IF i = 0 THEN 0
            ELSE sum[i - 1] + x.lines[i].quantity * x.lines[i].price
    IN sum[Len(x.lines)]
==============================================================================
