-------------------------- MODULE CommercialPolicy ---------------------------
(***************************************************************************)
(* The buying policy a negotiation runs under: what the model reads in the *)
(* buyer's note, the weights that follow from it, and the checks the       *)
(* derived policy passes before the buyer confirms it.  Weights are in     *)
(* twentieths (module DecisionEngine).                                     *)
(***************************************************************************)
EXTENDS DecisionEngine

Priorities == {"cost", "quality", "lead_time", "payment_terms"}
NoPriority == "none"

BaseWeights == [cost |-> 9, quality |-> 5, lead |-> 4, payment |-> 2]

\* Mutant: the rows of cost and lead time are exchanged.
WeightsForSwapped(priority) ==
    CASE priority = "cost"      -> [BaseWeights EXCEPT !.cost = 6, !.lead = 7]
      [] priority = "lead_time" -> [BaseWeights EXCEPT !.cost = 11, !.lead = 2]
      [] OTHER                  -> BaseWeights

WeightsFor(priority) ==
    CASE priority = "lead_time" -> [BaseWeights EXCEPT !.cost = 6, !.lead = 7]
      [] priority = "cost"      -> [BaseWeights EXCEPT !.cost = 11, !.lead = 2]
      [] priority = "quality"   -> [BaseWeights EXCEPT !.cost = 7, !.quality = 8,
                                                       !.lead = 3]
      [] priority = "payment_terms" ->
                                   [BaseWeights EXCEPT !.cost = 7, !.lead = 3,
                                                       !.payment = 5]
      [] OTHER                  -> BaseWeights

\* What the interpreter can answer: its schema bounds the lead time.
Interpretation(priority, hardMaxLead) ==
    [priority |-> priority, hardMaxLead |-> hardMaxLead]
Interpretations(leads) ==
    {Interpretation(p, l) : p \in Priorities \cup {NoPriority},
                            l \in (leads \cap 1 .. 55) \cup {NoLimit}}

\* No note was left: the standard policy, and no call of the model.
DefaultInterpretation == Interpretation(NoPriority, NoLimit)

\* deriveDecisionPolicy: at most 15 percentage points from the standard weight,
\* and the weights sum to one.
Derivable(w, hardMaxLead) ==
    /\ hardMaxLead \in 0 .. 55
    /\ \A c \in Criteria : w[c] - BaseWeights[c] \in -3 .. 3
    /\ w.cost + w.quality + w.lead + w.payment = 20

\* deriveNegotiationPolicy: without a constraint the standard policy is not
\* derived from anything.
NegotiationPolicy(i) ==
    [version     |-> IF i = DefaultInterpretation THEN "decision-policy-v1"
                                                  ELSE "decision-policy-v1:note-v1",
     weights     |-> WeightsFor(i.priority),
     hardMaxLead |-> i.hardMaxLead,
     priority    |-> i.priority]
Throws(i) ==
    i # DefaultInterpretation /\ ~Derivable(WeightsFor(i.priority), i.hardMaxLead)

\* decision-mapper.ts: the stored snapshot is read back.
PolicyReadable(policy) == policy.hardMaxLead >= 0
==============================================================================
