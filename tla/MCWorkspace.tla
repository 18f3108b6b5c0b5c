----------------------------- MODULE MCWorkspace -----------------------------
(* Workspace for TLC. *)
EXTENDS Workspace

\* The page opens on nothing, in the middle of the review, when the quotation
\* is ready, or while the suppliers are asked.
Ready == {"uploaded", "parsed", "matched", "selected", "resolved", "ready"}

Openings == {Ready \ {"resolved", "ready"}, Ready, Ready \cup {"started"}}
==============================================================================
