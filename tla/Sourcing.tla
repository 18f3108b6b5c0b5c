------------------------------ MODULE Sourcing -------------------------------
(***************************************************************************)
(* What one negotiation says and computes, from the buyer's note to the    *)
(* recommendation: the preview of the buying policy, two rounds of turns   *)
(* in which the brand's model and a supplier's model exchange messages,    *)
(* and the decision over the offers that were accepted.  When the turns    *)
(* run, and what happens when they overlap or fail, is module Negotiation; *)
(* here they come one after another.                                       *)
(***************************************************************************)
EXTENDS SupplierAgent

CONSTANTS
    Leads,       \* bound: the lead times a note may set as a maximum, in days
    Answers(_, _)   \* bound: proposals the model of a supplier may make in a round

P == INSTANCE CommercialPolicy

VARIABLES
    preview,    \* the last answer of the policy preview
    policy,     \* {} or the policy of the confirmation token
    left,       \* the turns still to be run, in order
    talk,       \* the turn that runs: its step, attempt and repair advice
    turns,      \* the proposal of each turn that ran, {} if none
    decision    \* {} or the decision record

vars == <<preview, policy, left, talk, turns, decision>>

Silent == [step |-> "plan", attempt |-> 0, sent |-> {}, advice |-> ""]

TurnsInOrder ==
    <<<<"S1", 1>>, <<"S2", 1>>, <<"S3", 1>>, <<"S1", 2>>, <<"S2", 2>>, <<"S3", 2>>>>

Init ==
    /\ preview = "none"
    /\ policy = {}
    /\ left = TurnsInOrder
    /\ talk = Silent
    /\ turns = <<>>
    /\ decision = {}

------------------------------------------------------------------------------
(* PreviewNegotiationPolicyCommandHandler *)

\* Without a note the model is not asked; an interpreter that fails answers 503
\* and the buyer may ask again.
PreviewPolicy ==
    /\ policy = {}
    /\ \/ \E i \in P!Interpretations(Leads) \cup {P!DefaultInterpretation} :
            IF P!Throws(i)
            THEN preview' = "failed" /\ UNCHANGED policy
            ELSE preview' = "issued" /\ policy' = {P!NegotiationPolicy(i)}
       \/ preview' = "unavailable" /\ UNCHANGED policy
    /\ UNCHANGED <<left, talk, turns, decision>>

ThePolicy == CHOOSE p \in policy : TRUE

------------------------------------------------------------------------------
(* A turn: OpenAIBrandNegotiator.plan, then OpenAINegotiationModel.propose *)

Supplier == Head(left)[1]
Round    == Head(left)[2]

Running(step) == policy # {} /\ left # <<>> /\ talk.step = step

\* The brand's model fails or answers out of form: a fixed move replaces it, so
\* there always is one, and nothing reads more of it than that.
PlanMove ==
    /\ Running("plan")
    /\ talk' = [Silent EXCEPT !.step = "propose", !.attempt = 1]
    /\ UNCHANGED <<preview, policy, left, turns, decision>>

MaxValidationAttempts == 2

\* appendTurn: the turn is recorded whatever came of it; what follows only asks
\* whether that is a proposal.
EndTurn(proposal) ==
    /\ turns' = [k \in DOMAIN turns \cup {Head(left)} |->
                    IF k = Head(left) THEN proposal ELSE turns[k]]
    /\ left' = Tail(left)
    /\ talk' = Silent
    /\ UNCHANGED <<preview, policy, decision>>

\* The loop goes round once more with what to repair, or ends with nothing.
FailAttempt(sent, reason) ==
    IF talk.attempt < MaxValidationAttempts
    THEN /\ talk' = [talk EXCEPT !.attempt = @ + 1, !.sent = sent,
                                 !.advice = Advice(reason)]
         /\ UNCHANGED <<preview, policy, left, turns, decision>>
    ELSE EndTurn({})

\* outcomeOf: an answer in the form of the schema is validated.
Propose(x) ==
    LET reason == Refusal(Supplier, Round, x) IN
    /\ Running("propose")
    /\ IF reason = "" THEN EndTurn({x})
                      ELSE FailAttempt({x}, reason)

Truncate == Running("propose") /\ FailAttempt({}, "incomplete_response")
Refuse   ==
    Running("propose") /\ FailAttempt({}, "model_refusal_or_empty_output")

\* One timer covers both attempts, and an error of the provider ends the turn.
GiveUp == Running("propose") /\ EndTurn({})

------------------------------------------------------------------------------
(* loadDecisionInputs and makeDecision *)

Offered(k) == k \in DOMAIN turns /\ turns[k] # {}
Offer(k)   == CHOOSE x \in turns[k] : TRUE

Latest == {k \in SupplierIds \X Rounds :
              Offered(k) /\ (k[2] = 1 => ~Offered(<<k[1], 2>>))}

BaselineTotal ==
    TotalOf([lines |-> LET in == CHOOSE s \in [1 .. Cardinality(Products) -> Products] :
                                     {s[i] : i \in DOMAIN s} = Products
                       IN [i \in DOMAIN in |-> [quantity |-> Quantity[in[i]],
                                                price |-> Baseline[in[i]]]]])

\* Once the capacity event is recorded every offer of S2 is partial.
FullOrderEligible(k) == k[1] # "S2"

CandidateFrom(k) ==
    LET x == Offer(k) IN
    P!CandidateOf(k, TotalOf(x), Quality(k[1]), x.lead, PreShipment(x), x.capacity,
                  FullOrderEligible(k) /\ x.capacity = 100)

Decide ==
    /\ policy # {} /\ left = <<>> /\ decision = {}
    /\ P!PolicyReadable(ThePolicy)
    /\ P!InputValid(BaselineTotal, ThePolicy.hardMaxLead)
    /\ decision' = {P!Decide({CandidateFrom(k) : k \in Latest}, BaselineTotal,
                             ThePolicy.weights, ThePolicy.hardMaxLead)}
    /\ UNCHANGED <<preview, policy, left, talk, turns>>

Next == \/ PreviewPolicy
        \/ PlanMove
        \/ Running("propose") /\ \E x \in Answers(Supplier, Round) : Propose(x)
        \/ Truncate
        \/ Refuse
        \/ GiveUp
        \/ Decide

Spec == Init /\ [][Next]_vars

------------------------------------------------------------------------------
(* An answer that keeps to everything the prompt requires of it is never    *)
(* refused: the tables the prompt quotes, the supplier's bounds, the round's *)
(* bounds and the checks on the offer agree, rounding included.             *)
ObedientProposalAccepted ==
    \A x \in talk.sent : ~Obeys(Supplier, Round, x)

(* "Every accepted response is a real improvement over its opening position" *)
(* (supplier-policy.ts): the second offer of a supplier costs no more, is    *)
(* sooner and asks for less before shipment.                                 *)
ConcessionsImprove ==
    \A s \in SupplierIds : Offered(<<s, 1>>) /\ Offered(<<s, 2>>) =>
        LET opening == Offer(<<s, 1>>) concession == Offer(<<s, 2>>) IN
        /\ TotalOf(concession) <= TotalOf(opening)
        /\ concession.lead < opening.lead
        /\ PreShipment(concession) < PreShipment(opening)

(* A priority the buyer confirmed never costs the buyer on that very         *)
(* criterion: of the same offers, the policy with the priority recommends    *)
(* none that is worse on it than the one the standard policy recommends.     *)
(* This rests on the suppliers' tables as much as on the weights: of other   *)
(* offers the weight taken from cost could favour a third criterion instead. *)
PriorityServed ==
    \A d \in decision :
        \A standard \in P!Winner(d.eligible, P!BaseWeights, BaselineTotal),
           served \in d.winner :
            CASE ThePolicy.priority = "cost"      -> served.total <= standard.total
              [] ThePolicy.priority = "lead_time" -> served.lead <= standard.lead
              [] ThePolicy.priority = "quality"   -> served.quality >= standard.quality
              [] ThePolicy.priority = "payment_terms" -> served.pre <= standard.pre
              [] OTHER                            -> served = standard
==============================================================================
