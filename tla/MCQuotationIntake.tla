--------------------------- MODULE MCQuotationIntake ---------------------------
(* QuotationIntake for TLC: one workbook put twice, the second time after a *)
(* change that its declared hash does not know of, and another workbook.    *)
EXTENDS QuotationIntake, TLC

CONSTANTS h1, h2, o1, o2, o3, k1, k2, n1, n2, f1, p1

MCDeclared == (o1 :> h1) @@ (o2 :> h1) @@ (o3 :> h2)
MCStored   == (o1 :> h1) @@ (o2 :> h2) @@ (o3 :> h2)
MCQueue    == (f1 :> "preflight") @@ (p1 :> "parse")

Body(k, o, h, n) == [key |-> k, object |-> o, hash |-> h, note |-> n]

\* An upload, the workbook put again under another key, and the first upload's
\* key again with another note.
OneWorkbook == {Body(k1, o1, h1, n1), Body(k2, o2, h1, n1), Body(k1, o1, h1, n2)}
=============================================================================
