---------------------------- MODULE MCNegotiation ----------------------------
(* Negotiation for TLC: the turn slots are interchangeable, and so are the *)
(* suppliers but S2.                                                       *)
EXTENDS Negotiation, TLC

Symmetry == Permutations(TurnSlots) \cup Permutations(Suppliers \ {S2})
==============================================================================
