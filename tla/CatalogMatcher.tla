---------------------------- MODULE CatalogMatcher ----------------------------
(***************************************************************************)
(* How a line's product text finds the products of the catalog: each       *)
(* product is scored by how its SKU reads in the text, and by whether the  *)
(* line's description names it; the five best are proposed to the buyer,   *)
(* and one of them is selected for the buyer when the matcher is sure.     *)
(***************************************************************************)
EXTENDS Integers, FiniteSets

CONSTANTS
    Catalog,     \* the products of the quotation's catalog version
    Texts,       \* the product texts of the lines
    Reading,     \* [Texts -> [Catalog -> Readings]]
    Described,   \* [Texts -> the products the line's description names]
    Rank,        \* [Catalog -> Nat], the products in the order of their SKUs
    NoProduct

\* The SKU is the text; or it is the text with one letter read for the digit
\* that looks like it, or the other way round; or one or two edits turn the
\* text, so corrected or not, into it.
Readings == {"same", "misread", "near", "far", "other"}

\* In thousandths.  What a correction makes the SKU is no edit away, and yet is
\* not the SKU: it scores nothing.
SkuScore(reading) ==
    CASE reading = "same" -> 1000
      [] reading = "near" -> 940
      [] reading = "far"  -> 840
      [] OTHER            -> 0

SemanticScore(t, p) == IF p \in Described[t] THEN 1000 ELSE 0

Score(t, p) ==
    IF Reading[t][p] = "same" THEN 1000
    ELSE (9 * SkuScore(Reading[t][p]) + SemanticScore(t, p)) \div 10

Scored(t) == {p \in Catalog : SkuScore(Reading[t][p]) # 0}

Precedes(t, p, q) ==
    Score(t, p) > Score(t, q) \/ (Score(t, p) = Score(t, q) /\ Rank[p] < Rank[q])

Candidates(t) ==
    {p \in Scored(t) : Cardinality({q \in Scored(t) : Precedes(t, q, p)}) < 5}

\* The first candidate, if it is the text or far enough ahead of the second.
Sure(t, p) ==
    /\ p \in Scored(t)
    /\ \A q \in Scored(t) \ {p} : Precedes(t, p, q)
    /\ \/ Score(t, p) = 1000
       \/ /\ Score(t, p) >= 920
          /\ \A q \in Scored(t) \ {p} : Score(t, p) - Score(t, q) >= 80

Selected(t) ==
    IF \E p \in Catalog : Sure(t, p) THEN CHOOSE p \in Catalog : Sure(t, p)
    ELSE NoProduct
==============================================================================
