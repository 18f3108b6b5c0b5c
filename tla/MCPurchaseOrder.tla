--------------------------- MODULE MCPurchaseOrder ---------------------------
(* PurchaseOrder for TLC.  Requests, keys and negotiations are each           *)
(* interchangeable, but a liveness property is checked without symmetry.      *)
EXTENDS PurchaseOrder
==============================================================================
