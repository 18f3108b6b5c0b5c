--------------------------- MODULE DecisionEngine ----------------------------
(***************************************************************************)
(* packages/decision: which offer is recommended.  Pure operators, in      *)
(* exact arithmetic (the code's decimals keep twenty digits):              *)
(*   - a weight is a number of twentieths, every weight of the code being  *)
(*     a multiple of 0.05;                                                 *)
(*   - a payment share is a percentage (100 basis points);                 *)
(*   - quality is in tenths;                                               *)
(*   - a normalized value is a numerator over the span of its criterion.   *)
(***************************************************************************)
EXTENDS Integers, FiniteSets

Criteria   == {"cost", "quality", "lead", "payment"}
Directions == {"increase", "decrease"}

\* An offer as the engine sees it.  Its id names it; the engine refuses two
\* candidates with one id, so a candidate stands for its offer.
CandidateOf(id, total, quality, lead, pre, capacity, valid) ==
    [id |-> id, total |-> total, quality |-> quality, lead |-> lead,
     pre |-> pre, capacity |-> capacity, policyValid |-> valid]

NoLimit == 0

\* eligibility.ts.  Every candidate has the currency of its negotiation.
ExclusionReasons(c, hardMaxLead) ==
    (IF c.policyValid THEN {} ELSE {"policy_invalid"})
    \cup (IF c.capacity = 100 THEN {} ELSE {"capacity_not_full"})
    \cup (IF hardMaxLead # NoLimit /\ c.lead > hardMaxLead
          THEN {"hard_lead_exceeded"} ELSE {})

Clamp(n, span) == IF n < 0 THEN 0 ELSE IF n > span THEN span ELSE n

\* value-functions.ts: 115% of the baseline is worth nothing and 92% of it
\* everything; likewise 4.0 and 4.7, 55 and 12 days, 100% and 30% up front.
NormalizedValues(c, baseline) ==
    [cost    |-> Clamp(115 * baseline - 100 * c.total, 23 * baseline),
     quality |-> Clamp(c.quality - 40, 7),
     lead    |-> Clamp(55 - c.lead, 43),
     payment |-> Clamp(100 - c.pre, 70)]

\* scoring.ts, over the common denominator 23 * baseline * 43 * 70.
Score(v, w, baseline) ==
      w.cost    * (v.cost    * 3010)
    + w.quality * (v.quality * (9890 * baseline))
    + w.lead    * (v.lead    * (1610 * baseline))
    + w.payment * (v.payment * (989 * baseline))

ScoreOf(c, w, baseline) == Score(NormalizedValues(c, baseline), w, baseline)

\* pareto.ts.
Dominates(l, r) ==
    /\ l.total <= r.total
    /\ l.quality >= r.quality
    /\ l.lead <= r.lead
    /\ l.pre <= r.pre
    /\ \/ l.total < r.total
       \/ l.quality > r.quality
       \/ l.lead < r.lead
       \/ l.pre < r.pre

Pareto(E) == {c \in E : \A d \in E : ~Dominates(d, c)}

\* tie-break.ts: the highest scores, of those the lowest cost, of those the
\* fastest, of those the best quality.
TopScored(E, w, b) ==
    {c \in E : \A d \in E : ScoreOf(d, w, b) <= ScoreOf(c, w, b)}
Cheapest(T) == {c \in T : \A d \in T : c.total <= d.total}
Fastest(T)  == {c \in T : \A d \in T : c.lead <= d.lead}
Finest(T)   == {c \in T : \A d \in T : c.quality >= d.quality}

Tied(E, w, b) == Finest(Fastest(Cheapest(TopScored(E, w, b))))

\* The winner of an eligible set: the one candidate no rule separates from
\* another, {} when there is none.
Winner(E, w, b) ==
    {c \in Tied(E, w, b) : \A d \in Tied(E, w, b) : d = c}

StatusOf(E, winner) ==
    IF E = {} THEN "no_eligible_offer"
    ELSE IF winner = {} THEN "manual_selection_required" ELSE "recommended"

\* sensitivity.ts: one weight moves by 0.10 and the others share the rest in
\* proportion.  All four are scaled by what the others had, which no comparison
\* of scores can tell.
Others(w, c)     == CASE c = "cost"    -> w.quality + w.lead + w.payment
                      [] c = "quality" -> w.cost + w.lead + w.payment
                      [] c = "lead"    -> w.cost + w.quality + w.payment
                      [] c = "payment" -> w.cost + w.quality + w.lead
Changed(w, c, d) == IF d = "increase" THEN w[c] + 2 ELSE w[c] - 2

PerturbedWeights(w, c, d) ==
    [i \in Criteria |-> IF i = c THEN Changed(w, c, d) * Others(w, c)
                                 ELSE w[i] * (20 - Changed(w, c, d))]

\* decide.ts: what it throws for.
InputValid(baseline, hardMaxLead) ==
    hardMaxLead \in 0 .. 55 /\ baseline > 0

\* decide.ts: the record it returns, without the text that explains it.
Decide(candidates, baseline, w, hardMaxLead) ==
    LET eligible == {c \in candidates : ExclusionReasons(c, hardMaxLead) = {}}
        winner   == Winner(eligible, w, baseline)
        variants == [c \in Criteria, d \in Directions |->
                        Winner(eligible, PerturbedWeights(w, c, d), baseline)]
    IN [status    |-> StatusOf(eligible, winner),
        winner    |-> winner,
        pareto    |-> Pareto(eligible),
        eligible  |-> eligible,
        preferenceSensitive |-> \E v \in DOMAIN variants : variants[v] # winner]
==============================================================================
