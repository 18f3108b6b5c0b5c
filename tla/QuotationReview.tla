---------------------------- MODULE QuotationReview ----------------------------
(***************************************************************************)
(* The review of one parsed quotation, up to the negotiations started on   *)
(* it: the job that proposes catalog matches, the buyer's three commands   *)
(* (select a scenario, resolve a match, set quantities) and the request    *)
(* that starts a negotiation.                                              *)
(*                                                                         *)
(* Every command is one transaction at READ COMMITTED.  The three review   *)
(* commands lock the quotation's row first; the job and the start lock     *)
(* nothing.  Decisions are never updated: a line's decision in force is    *)
(* the row of match_decision with the latest created_at, and created_at is *)
(* the time its TRANSACTION BEGAN, not the time the row was written.       *)
(***************************************************************************)
EXTENDS QuoteSheet, Sequences

CONSTANTS
    Certain,     \* [Lines -> the product the matcher is sure of, or NoProduct]
    Top,         \* [Lines -> the first of the matcher's candidates]
    Quantities,  \* the quantities a buyer may ask for
    Requests,    \* transactions the API can have open at once
    MaxBegun,    \* bound on the transactions that begin
    NoScenario,  \* no scenario selected
    NoCall       \* a request slot that is free

ASSUME ReviewAssumption ==
    /\ Certain \in [Lines -> Products \cup {NoProduct}]
    /\ Top \in [Lines -> Products \cup {NoProduct}]
    /\ Quantities \subseteq Nat \ {0}
    /\ MaxBegun \in Nat
    /\ NoScenario \notin Scenarios

\* The bodies of the commands.  A match is named by the position its row has
\* among the decisions of its line; "accept" asks for the top candidate.
Answers == Products \cup {"accept", Excluded}
Calls ==
    [kind : {"select", "start"}, scenario : Scenarios]
    \cup [kind : {"match"}, line : Lines, id : Nat \ {0}, answer : Answers]
    \cup [kind : {"quantities"}, scenario : Scenarios,
          lines : (SUBSET Lines) \ {{}}, quantity : Quantities]

ASSUME NoCallAssumption == NoCall \notin Calls

VARIABLES
    quotation,   \* the row: its state and version
    selection,   \* quotation_scenario_selection
    facts,       \* match_decision: each line's rows, as they were committed
    quantity,    \* quotation_line_quantity, 0 for no row
    matched,     \* the match-candidates job is done
    intents,     \* order intents, one for each negotiation started
    clock,       \* transactions begun
    tx           \* the open transactions

\* What the review's transactions read and write.
tables == <<quotation, selection, facts, quantity, matched>>

vars == <<tables, intents, clock, tx>>

Reviewable == {"INTERPRETATION_REQUIRED", "REVIEW_REQUIRED"}
States     == Reviewable \cup {"READY"}

\* supersedes: history, the position of the decision its actor was shown.
Fact == [at : Nat, decision : Decisions, supersedes : Nat]

Steps == {"idle", "begun", "write", "judge", "header", "lines", "create"}
Unset == [l \in Lines |-> 0]
NoRow == [state |-> "REVIEW_REQUIRED", version |-> 0]
Idle  == [pc |-> "idle", call |-> NoCall, at |-> 0, row |-> NoRow,
          seen |-> Unset]

Init ==
    /\ \E s \in Reviewable : quotation = [state |-> s, version |-> 1]
    /\ selection = NoScenario
    /\ facts = [l \in Lines |-> <<>>]
    /\ quantity = Unset
    /\ matched = FALSE
    /\ intents = {}
    /\ clock = 0
    /\ tx = [r \in Requests |-> Idle]

------------------------------------------------------------------------------
(* Decisions in force *)

\* ORDER BY created_at DESC LIMIT 1
Latest(rows) == CHOOSE i \in DOMAIN rows :
                    \A j \in DOMAIN rows : rows[j].at <= rows[i].at

InForce(fs) ==
    [l \in Lines |-> IF fs[l] = <<>> THEN Undecided
                                     ELSE fs[l][Latest(fs[l])].decision]

------------------------------------------------------------------------------
(* The match-candidates job *)

\* One transaction: it decides every line that has no row.  No row of those
\* lines can appear meanwhile, a resolution names one that exists, so that
\* nothing it reads can change before it commits.
MatchCandidates ==
    /\ ~matched /\ clock < MaxBegun
    /\ facts' = [l \in Lines |->
                   IF facts[l] = <<>>
                   THEN <<[at |-> clock + 1, decision |-> Certain[l],
                           supersedes |-> 0]>>
                   ELSE facts[l]]
    /\ matched' = TRUE
    /\ clock' = clock + 1
    /\ UNCHANGED <<quotation, selection, quantity, intents, tx>>

------------------------------------------------------------------------------
(* Opening and losing a transaction *)

\* What a client can ask: it names a match by an id it has read, and so one
\* that was committed, if no longer the latest, before it sent the request.
Asked ==
    [kind : {"select", "start"}, scenario : Scenarios]
    \cup (UNION {[kind : {"match"}, line : {l}, id : DOMAIN facts[l],
                  answer : Answers] : l \in Lines})
    \cup (UNION {[kind : {"quantities"}, scenario : {s},
                  lines : (SUBSET LinesOf(s)) \ {{}}, quantity : Quantities]
                 : s \in Scenarios})

Begin(r, c) ==
    /\ tx[r].pc = "idle" /\ clock < MaxBegun
    /\ clock' = clock + 1
    /\ tx' = [tx EXCEPT ![r] = [Idle EXCEPT !.pc = "begun", !.call = c,
                                           !.at = clock + 1]]
    /\ UNCHANGED <<tables, intents>>

\* A refusal throws, as a lost connection does: nothing is kept.
RollBack(r) ==
    /\ tx[r].pc # "idle"
    /\ tx' = [tx EXCEPT ![r] = Idle]
    /\ UNCHANGED <<tables, intents, clock>>

Goto(r, pc) == tx' = [tx EXCEPT ![r].pc = pc]

------------------------------------------------------------------------------
(* Select a scenario, resolve a match, set quantities *)

Locked(r) == tx[r].pc \in {"write", "judge"}

\* Mutant: the row is read without FOR UPDATE.
LockNothing(r) ==
    /\ tx[r].pc = "begun" /\ tx[r].call.kind # "start"
    /\ tx' = [tx EXCEPT ![r].pc = "write", ![r].row = quotation]
    /\ UNCHANGED <<tables, intents, clock>>

\* SELECT .. FOR UPDATE of the quotation.  It is parsed, so its state passes.
Lock(r) ==
    /\ tx[r].pc = "begun" /\ tx[r].call.kind # "start"
    /\ \A other \in Requests : ~Locked(other)
    /\ tx' = [tx EXCEPT ![r].pc = "write", ![r].row = quotation]
    /\ UNCHANGED <<tables, intents, clock>>

Choice(c) == IF c.answer = "accept" THEN Top[c.line] ELSE c.answer

\* Mutant: any decision of the line can be resolved, not only the latest.
AcceptedStale(c) ==
    CASE c.kind = "select"     -> TRUE
      [] c.kind = "match"      -> Choice(c) # NoProduct
      [] c.kind = "quantities" -> selection = c.scenario

Accepted(c) ==
    CASE c.kind = "select"     -> TRUE
      [] c.kind = "match"      -> /\ Latest(facts[c.line]) = c.id
                                  /\ Choice(c) # NoProduct
      [] c.kind = "quantities" -> selection = c.scenario

\* The command's own rows, which only its transaction sees until it commits.
Write(r) ==
    /\ tx[r].pc = "write"
    /\ Accepted(tx[r].call)
    /\ Goto(r, "judge")
    /\ UNCHANGED <<tables, intents, clock>>

\* The tables as the command's transaction sees them after its writes.
Selection(r) == LET c == tx[r].call IN
    IF c.kind = "select" THEN c.scenario ELSE selection

Facts(r) == LET c == tx[r].call IN
    IF c.kind = "match"
    THEN [facts EXCEPT ![c.line] = Append(facts[c.line],
              [at |-> tx[r].at, decision |-> Choice(c), supersedes |-> c.id])]
    ELSE facts

BuyersQuantity(r) == LET c == tx[r].call IN
    IF c.kind = "quantities"
    THEN [l \in Lines |-> IF l \in c.lines THEN c.quantity ELSE quantity[l]]
    ELSE quantity

\* The scenario a command is about.
About(c) == IF c.kind = "match" THEN ScenarioOf[c.line] ELSE c.scenario

\* Mutant: the gate is judged whatever scenario is selected.
OpensUnselected(r) ==
    /\ tx[r].row.state # "READY"
    /\ Reviewed(About(tx[r].call), InForce(Facts(r)), BuyersQuantity(r))

Opens(r) ==
    /\ tx[r].row.state # "READY"
    /\ Selection(r) = About(tx[r].call)
    /\ Reviewed(About(tx[r].call), InForce(Facts(r)), BuyersQuantity(r))

\* The gate is judged, the row updated if its version is still the one read,
\* and the transaction commits.
Judge(r) ==
    /\ tx[r].pc = "judge"
    /\ Opens(r) => tx[r].row.version = quotation.version
    /\ quotation' = IF Opens(r)
                    THEN [state |-> "READY", version |-> quotation.version + 1]
                    ELSE quotation
    /\ selection' = Selection(r)
    /\ facts' = Facts(r)
    /\ quantity' = BuyersQuantity(r)
    /\ tx' = [tx EXCEPT ![r] = Idle]
    /\ UNCHANGED <<matched, intents, clock>>

------------------------------------------------------------------------------
(* Start a negotiation: four reads, each of what is committed by then *)

StartSelected(r) ==
    /\ tx[r].pc = "begun" /\ tx[r].call.kind = "start"
    /\ selection = tx[r].call.scenario
    /\ Goto(r, "header")
    /\ UNCHANGED <<tables, intents, clock>>

StartHeader(r) ==
    /\ tx[r].pc = "header"
    /\ quotation.state = "READY"
    /\ Goto(r, "lines")
    /\ UNCHANGED <<tables, intents, clock>>

StartLines(r) ==
    /\ tx[r].pc = "lines"
    /\ tx' = [tx EXCEPT ![r].pc = "create", ![r].seen = quantity]
    /\ UNCHANGED <<tables, intents, clock>>

\* The decisions are read last.  Two lines of one product break the unique
\* index of order_intent_line.  The confirmation of the policy is checked here
\* too, and has no effect but to refuse, which is RollBack.
StartCreate(r) == LET s == tx[r].call.scenario
                      d == InForce(facts)
                      q == tx[r].seen IN
    /\ tx[r].pc = "create"
    /\ Unclear(s, d, q) = {}
    /\ Negotiable(s, d, q) # {}
    /\ \A l, m \in Negotiable(s, d, q) : d[l] = d[m] => l = m
    /\ intents' = intents \cup
           {[at |-> tx[r].at, scenario |-> s,
             lines |-> {[line |-> l, product |-> d[l],
                         quantity |-> StartQuantity(l, q[l])]
                        : l \in Negotiable(s, d, q)}]}
    /\ tx' = [tx EXCEPT ![r] = Idle]
    /\ UNCHANGED <<tables, clock>>

------------------------------------------------------------------------------

Next ==
    \/ MatchCandidates
    \/ \E r \in Requests :
          \/ \E c \in Asked : Begin(r, c)
          \/ RollBack(r)
          \/ Lock(r) \/ Write(r) \/ Judge(r)
          \/ StartSelected(r) \/ StartHeader(r) \/ StartLines(r)
          \/ StartCreate(r)

Spec == Init /\ [][Next]_vars

------------------------------------------------------------------------------
(* Properties *)

Row    == [state : States, version : Nat]
Slot   == [pc : Steps, call : Calls \cup {NoCall}, at : Nat, row : Row,
           seen : [Lines -> Nat]]
Intent == [at : Nat, scenario : Scenarios,
           lines : SUBSET [line : Lines, product : Products,
                           quantity : Nat \ {0}]]

\* Every variable keeps the shape its table or its transaction gives it.
TypeOK ==
    /\ quotation \in Row
    /\ selection \in Scenarios \cup {NoScenario}
    /\ facts \in [Lines -> Seq(Fact)]
    /\ quantity \in [Lines -> Nat]
    /\ matched \in BOOLEAN
    /\ \A i \in intents : i \in Intent
    /\ clock \in Nat
    /\ tx \in [Requests -> Slot]

\* The decision that is read as a line's latest, by the time its transaction
\* began, is the one committed last: a transaction that began before another
\* and committed after it never has its decision hidden, or hides that one.
LatestIsLast ==
    \A l \in Lines : facts[l] # <<>> => Latest(facts[l]) = Len(facts[l])

\* No decision replaces one that its actor had not been shown: of two
\* resolutions of one match, the second is refused.
NoBlindOverwrite ==
    \A l \in Lines : \A i \in DOMAIN facts[l] : facts[l][i].supersedes = i - 1

\* The update that opens the gate always finds the version its transaction
\* read: the optimistic check of transition() never refuses a reviewer.
NoVersionConflict ==
    \A r \in Requests :
        tx[r].pc = "judge" /\ Opens(r) => tx[r].row.version = quotation.version

\* The two pieces of code that judge a scenario agree one way: what the review
\* gate lets through, the start of a negotiation can use, every line of it.
GateAgrees ==
    \A s \in Scenarios :
        Reviewed(s, InForce(facts), quantity) =>
            /\ Unclear(s, InForce(facts), quantity) = {}
            /\ Negotiable(s, InForce(facts), quantity) # {}

\* The locked, buffered, append-only review acts as if each command changed
\* the decisions in force at once and opened the gate exactly when it completed
\* the review of the selected scenario.
Gate == INSTANCE ReviewGate WITH state     <- quotation.state,
                                 decisions <- InForce(facts)
ImplementsReviewGate == Gate!Spec

\* What the tests say: "keeps parser ambiguity behind the review gate".  No
\* negotiation is started on a line whose commercial fields are ambiguous.
AmbiguityBehindGate ==
    \A i \in intents : \A x \in i.lines : ~Sheet[x.line].ambiguous

\* What the tests say: "moves an all-resolved quotation to READY".  With no
\* command under way, a selected scenario whose review is complete is READY.
AllResolvedIsReady ==
    /\ selection # NoScenario
    /\ Reviewed(selection, InForce(facts), quantity)
    /\ \A r \in Requests : tx[r].pc = "idle"
    => quotation.state = "READY"
==============================================================================
