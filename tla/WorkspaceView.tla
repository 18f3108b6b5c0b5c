---------------------------- MODULE WorkspaceView ----------------------------
(* What the workspace page makes of what it was told: the step it shows and  *)
(* the commands that step's card, or a suggestion of the copilot, offers.    *)
(* A quotation is the set of facts that are true of it.                      *)
EXTENDS FiniteSets

CONSTANT Needs   \* of {"resolved", "quantified"}: what the workbook's lines leave to the buyer

Facts == {"uploaded", "parsed", "matched", "selected", "resolved", "quantified",
          "ready", "started", "offered", "decided", "ordered"}

\* The facts api.quotation tells, those of its lines among them; the facts
\* api.negotiation and api.decision tell.
OfLines       == {"matched", "resolved", "quantified"}
OfQuotation   == {"uploaded", "parsed", "selected", "ready", "started"} \cup OfLines
OfDecision    == {"decided"}
OfNegotiation == {"started", "offered"} \cup OfDecision

Commands == {"reset", "upload", "scenario", "match", "commercial-review", "policy",
             "negotiation", "preview-order", "issue-order"}

\* The client's copy: what it knows of the quotation ({} for none), of its
\* negotiation, and whether an order is known.
Nothing == [quotation |-> {}, negotiation |-> {}, order |-> FALSE]

MatchingPending(p) == "selected" \in p.quotation /\ "matched" \notin p.quotation

\* reviewableMatches and commercialReviewLines, or neither.
Left(p, need) == need \in Needs /\ need \notin p.quotation

ReadyToNegotiate(p) ==
  /\ "selected" \in p.quotation
  /\ ~MatchingPending(p)
  /\ "ready" \in p.quotation
  /\ ~Left(p, "resolved") /\ ~Left(p, "quantified")

------------------------------------------------------------------------------
(* The cards: the commands whose button each one enables, while the command   *)
(* pending, if any, has not answered.                                         *)

UploadCard(pending) == {"upload"} \ {pending}

ScenarioCard(p, pending) ==
  IF "parsed" \in p.quotation THEN {"scenario"} \ {pending} ELSE {}

\* Once nothing is left to match it says that the review is complete.
MatchCard(p, pending) ==
  IF ~MatchingPending(p) /\ Left(p, "resolved") THEN {"match"} \ {pending} ELSE {}

\* Quantities, or the exclusion of lines that cannot be priced.
CommercialReviewCard(pending) ==
  IF pending \in {"match", "commercial-review"} THEN {} ELSE {"commercial-review"}

PolicyControls(policy, pending) ==
  IF policy = "confirmed" THEN {} ELSE {"policy"} \ {pending}

StartNegotiationButton(policy, pending) ==
  IF policy = "confirmed" THEN {"negotiation"} \ {pending} ELSE {}

NegotiationCard(p, policy, pending) ==
  IF "started" \in p.negotiation THEN {}
  ELSE PolicyControls(policy, pending) \cup StartNegotiationButton(policy, pending)

PreviewButton(p, pending) ==
  IF "decided" \in p.negotiation THEN {"preview-order"} \ {pending} ELSE {}

ApprovalControls(p, preview, pending) ==
  IF preview THEN {"issue-order"} \ {pending} ELSE PreviewButton(p, pending)

PurchaseOrderCard(p, preview, pending) ==
  IF p.order THEN {} ELSE ApprovalControls(p, preview, pending)

ChallengeResetControl(pending) == {"reset"} \ {pending}

\* One card at a time: the first whose time has come.
CurrentWorkspaceStep(p, policy, preview, pending) ==
  IF p.order THEN PurchaseOrderCard(p, preview, pending)
  ELSE IF "decided" \in p.negotiation THEN {}
  ELSE IF "started" \in p.negotiation \/ ReadyToNegotiate(p) THEN NegotiationCard(p, policy, pending)
  ELSE IF "selected" \in p.quotation
       THEN IF MatchingPending(p) \/ Left(p, "resolved") \/ ~Left(p, "quantified")
            THEN MatchCard(p, pending) ELSE CommercialReviewCard(pending)
  ELSE IF p.quotation # {} THEN ScenarioCard(p, pending)
  ELSE UploadCard(pending)

\* The page: the step is hidden while newer evidence is being loaded, the
\* approval beside a recommendation is not.
Enabled(p, policy, preview, pending, stale) ==
  ChallengeResetControl(pending)
  \cup (IF stale THEN {} ELSE CurrentWorkspaceStep(p, policy, preview, pending))
  \cup (IF "decided" \in p.negotiation /\ ~p.order
        THEN PurchaseOrderCard(p, preview, pending) ELSE {})

\* canApply: what a suggestion may still do, as long as no negotiation exists.
Suggestible(p) ==
  IF "started" \in p.quotation THEN {}
  ELSE (IF "parsed" \in p.quotation THEN {"scenario"} ELSE {})
       \cup (IF {"selected", "matched"} \subseteq p.quotation
             THEN {"match", "commercial-review"} ELSE {})
==============================================================================
