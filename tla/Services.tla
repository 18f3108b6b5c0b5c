------------------------------- MODULE Services -------------------------------
(***************************************************************************)
(* The parts that serve the workflow and share no state with each other,   *)
(* side by side: a behaviour is one of the service it starts with.  Their  *)
(* invariants are stated here, over the parameters of all of them.         *)
(***************************************************************************)
EXTENDS Integers, FiniteSets, Sequences

CONSTANTS
    RunningServices, \* bound: the services that may run
    \* Sourcing
    Products, Quantity, Baseline, Leads, Answers(_, _),
    \* QuoteCopilot
    Turns, Streamed, Lines, Openings, Drafts, MaxTime, MaxMoves,
    \* WorkbookParser
    HeaderWindow, Uploads, MaxBytes, MaxExpandedBytes, MaxEntries, MaxRatio,
    MaxSheets, MaxRows, MaxColumns, MaxCells, MaxOutput,
    \* WorkerRuntime
    Jobs, QueueOf, Connections, MaxAttempts, MaxAgain,
    \* ReviewPage, over what CatalogMatcher selects and proposes
    Layout, ReviewLines, ReviewSheet, Reading, Described, Rank,
    NoProduct, Excluded, Undecided, Typed, MaxCommands

VARIABLES
    service,
    preview, policy, left, talk, turns, decision,
    quotation, clock, moves, rows, turn, page, sent,
    upload, inventory, child, pipe, received, outcome, answer,
    process, jobs, handlers, waiting, claimed,
    review, shown, form, commands

sourcing == <<preview, policy, left, talk, turns, decision>>
copilot  == <<quotation, clock, moves, rows, turn, page, sent>>
parser   == <<upload, inventory, child, pipe, received, outcome, answer>>
worker   == <<process, jobs, handlers, waiting, claimed>>
buyer    == <<review, shown, form, commands>>

vars == <<service, sourcing, copilot, parser, worker, buyer>>

Sourcing == INSTANCE Sourcing
Copilot  == INSTANCE QuoteCopilot
Parser   == INSTANCE WorkbookParser
Worker   == INSTANCE WorkerRuntime

Matcher == INSTANCE CatalogMatcher WITH
    Catalog <- Products,
    Texts   <- ReviewLines

Buyer == INSTANCE ReviewPage WITH
    Scenarios  <- {Layout},
    Lines      <- ReviewLines,
    ScenarioOf <- [l \in ReviewLines |-> Layout],
    Sheet      <- ReviewSheet,
    Certain    <- [l \in ReviewLines |-> Matcher!Selected(l)],
    Candidates <- [l \in ReviewLines |-> Matcher!Candidates(l)],
    page       <- shown

------------------------------------------------------------------------------
(* What the parameters may be *)

ASSUME SourcingAssumption ==
    /\ IsFiniteSet(Products) /\ Sourcing!IsIntent
    /\ \A s \in Sourcing!SupplierIds, round \in Sourcing!Rounds :
          \A x \in Answers(s, round) : Sourcing!WellTyped(x)

ASSUME ParserAssumption == \A up \in Uploads : up.workbook \in Seq(Parser!Sheets)

ASSUME WorkerAssumption ==
    IsFiniteSet(Jobs) /\ MaxAttempts \in Nat /\ Connections \in Nat

\* The chat may begin with a quotation the workflow can be at; what the model
\* suggests has the fields of its kind.
ASSUME CopilotAssumption ==
    /\ \A S \in Drafts : \A s \in S : Copilot!IsSuggestion(s)
    /\ \A q \in Openings : q \in Copilot!Views /\ Copilot!Consistent(q)

ASSUME ReviewAssumption ==
    /\ Reading \in [ReviewLines -> [Products -> Matcher!Readings]]
    /\ Rank \in [Products -> Nat]
    /\ ReviewSheet \in [ReviewLines -> Buyer!SheetLine]
    /\ NoProduct \notin Products /\ Excluded \notin Products
    /\ Undecided \notin Buyer!Decisions /\ NoProduct # Excluded
    /\ Typed \subseteq Nat

------------------------------------------------------------------------------
\* A service that is not checked in this behaviour.
SourcingOff ==
    /\ preview = "off" /\ policy = "off" /\ left = "off"
    /\ talk = "off" /\ turns = "off" /\ decision = "off"
CopilotOff ==
    /\ quotation = "off" /\ clock = "off" /\ moves = "off"
    /\ rows = "off" /\ turn = "off" /\ page = "off" /\ sent = "off"
ParserOff ==
    /\ upload = "off" /\ inventory = "off" /\ child = "off" /\ pipe = "off"
    /\ received = "off" /\ outcome = "off" /\ answer = "off"
WorkerOff ==
    /\ process = "off" /\ jobs = "off" /\ handlers = "off"
    /\ waiting = "off" /\ claimed = "off"
BuyerOff ==
    /\ review = "off" /\ shown = "off" /\ form = "off" /\ commands = "off"

------------------------------------------------------------------------------
Init ==
    /\ service \in RunningServices
    /\ IF service = "sourcing" THEN Sourcing!Init ELSE SourcingOff
    /\ IF service = "copilot" THEN Copilot!Init ELSE CopilotOff
    /\ IF service = "parser" THEN Parser!Init ELSE ParserOff
    /\ IF service = "worker" THEN Worker!Init ELSE WorkerOff
    /\ IF service = "review" THEN Buyer!Init ELSE BuyerOff

Next ==
    \/ /\ service = "sourcing" /\ Sourcing!Next
       /\ UNCHANGED <<service, copilot, parser, worker, buyer>>
    \/ /\ service = "copilot" /\ Copilot!Next
       /\ UNCHANGED <<service, sourcing, parser, worker, buyer>>
    \/ /\ service = "parser" /\ Parser!Next
       /\ UNCHANGED <<service, sourcing, copilot, worker, buyer>>
    \/ /\ service = "worker" /\ Worker!Next
       /\ UNCHANGED <<service, sourcing, copilot, parser, buyer>>
    \/ /\ service = "review" /\ Buyer!Next
       /\ UNCHANGED <<service, sourcing, copilot, parser, worker>>

Spec == Init /\ [][Next]_vars

------------------------------------------------------------------------------
(* No answer that keeps to the prompt is refused (Sourcing). *)
ObedientProposalAccepted == service = "sourcing" => Sourcing!ObedientProposalAccepted

(* A supplier's second offer improves on its first (Sourcing). *)
ConcessionsImprove == service = "sourcing" => Sourcing!ConcessionsImprove

(* A confirmed priority never costs the buyer on it (Sourcing). *)
PriorityServed == service = "sourcing" => Sourcing!PriorityServed

(* An answer is kept, and listed, after its question (QuoteCopilot). *)
AnswerFollowsQuestion == service = "copilot" => Copilot!AnswerFollowsQuestion

(* The model is told a stage at which the workflow was (QuoteCopilot). *)
ToldAStageThatWas == service = "copilot" => Copilot!ToldAStageThatWas

(* A suggestion replaces the decision the model was shown (QuoteCopilot). *)
AppliedAsShown == [][service = "copilot" => Copilot!AppliesToWhatWasShown]_vars

(* Each product row is a line of exactly one scenario (WorkbookParser). *)
EveryRowInOneScenario == service = "parser" => Parser!EveryRowInOneScenario

(* A child that ended well is answered with all it wrote (WorkbookParser). *)
AnswerIsWhole == service = "parser" => Parser!AnswerIsWhole

(* The pool is never all held by handlers that wait (WorkerRuntime). *)
SomeHolderGoesOn == service = "worker" => Worker!SomeHolderGoesOn

(* The page asks for what the review gate asks for (ReviewPage). *)
PageAndGateAgree == service = "review" => Buyer!PageAndGateAgree

(* No line of the review card is without a way out (ReviewPage). *)
NoLineTrapped == service = "review" => Buyer!NoLineTrapped
==============================================================================
