---------------------------- MODULE QuoteCopilot -----------------------------
(***************************************************************************)
(* The chat beside the workspace: turns of a buyer and the model about one *)
(* quotation, what is kept of them, what the model is told and may         *)
(* suggest, the page that shows conversation and quotation as its reads    *)
(* found them, and the commands it sends when a suggestion is applied.     *)
(* Whatever is read of the quotation is read one statement at a time.  The *)
(* workflow itself (modules QuotationReview, Negotiation, PurchaseOrder)   *)
(* is here a quotation that moves on.                                      *)
(***************************************************************************)
EXTENDS Integers, FiniteSets, Sequences

CONSTANTS
    Turns,       \* the messages the buyer sends, from any tab
    Streamed,    \* those sent by the page of this module
    Lines,       \* the lines of the quotation's first layout
    Openings,    \* bound: the quotations the chat may begin with
    Drafts,      \* bound: the suggestions the model may answer with
    MaxTime,     \* bound: readings of the server's clock
    MaxMoves     \* bound: messages, refreshes, suggestions applied, steps of the
                 \* workflow and of the clock

VARIABLES
    quotation,   \* the quotation as committed, and what exists downstream
    clock,       \* the server's clock, which may be set back
    moves,
    rows,        \* the durable messages
    turn,        \* per turn: how far the server is, and what it holds
    page,        \* the conversation and the quotation on the page
    sent         \* the commands of the page that are under way

vars == <<quotation, clock, moves, rows, turn, page, sent>>

Layouts == {"first", "second"}
None    == "none"

\* The latest decision of a line is the id-th; a line without one is not ready
\* and reads PENDING.  A match id of the code is a line and such a number.
NoDecision == [id |-> 0, status |-> "PENDING"]
Match     == [id : Nat, status : {"PENDING", "RESOLVED", "EXCLUDED"}]

\* What a reader of the workspace can be told.  Only the first layout has lines;
\* a line is blocked while it has reasons for a commercial review.
Views == [selected : Layouts \cup {None},
          lines : [Lines -> [match : Match, blocked : BOOLEAN]],
          negotiation : BOOLEAN, decision : BOOLEAN, order : BOOLEAN]

Unread == [selected |-> None,
           lines |-> [l \in Lines |-> [match |-> NoDecision, blocked |-> FALSE]],
           negotiation |-> FALSE, decision |-> FALSE, order |-> FALSE]

\* The statements that read a quotation, and those that read what follows it.
QuotationParts == {"selected", "lines", "negotiation"}

\* Mutant: the orders of the brand are not listed.
DownstreamDecision(v) == IF v.negotiation THEN {"decision"} ELSE {}

\* downstreamContext: nothing without a negotiation.
Downstream(v) == IF v.negotiation THEN {"decision", "order"} ELSE {}

\* How far the workflow is.
Stage(v) == IF v.order THEN 3 ELSE IF v.decision THEN 2 ELSE IF v.negotiation THEN 1 ELSE 0

\* Each stage follows from the one before; no status without a decision.
Consistent(v) ==
    /\ v.order => v.decision
    /\ v.decision => v.negotiation
    /\ \A l \in Lines : v.lines[l].match.id = 0 => v.lines[l].match = NoDecision

Selected(v)      == IF v.selected = "first" THEN Lines ELSE {}
WithStatus(v, s) == {l \in Selected(v) : v.lines[l].match.status = s}
Blocked(v)       == {l \in Selected(v) : v.lines[l].blocked}

------------------------------------------------------------------------------
(* The step, as the model is told it and as the page shows it *)

\* agents: procurementWorkspaceStep.
AgentStep(v) ==
    IF v.order THEN "purchase_order_issued"
    ELSE IF v.decision THEN "decision"
    ELSE IF v.negotiation THEN "negotiation"
    ELSE IF v.selected = None THEN "scenario_selection"
    ELSE IF WithStatus(v, "PENDING") # {} \/ WithStatus(v, "RESOLVED") = {}
         THEN "product_matching"
    ELSE IF WithStatus(v, "RESOLVED") \cap Blocked(v) # {} THEN "commercial_review"
    ELSE "prepare_negotiation"

\* web: workspaceCopilotContext.
Ready(v)            == {l \in Selected(v) : v.lines[l].match.id > 0}
MatchingPending(v)  == Selected(v) # Ready(v)
CommercialReview(v) == (Ready(v) \ WithStatus(v, "EXCLUDED")) \cap Blocked(v)

PageStep(v) ==
    IF v.order THEN "Purchase order issued"
    ELSE IF v.decision THEN "Decision"
    ELSE IF v.negotiation THEN "Negotiation"
    ELSE IF v.selected = None THEN "Spreadsheet layout"
    ELSE IF MatchingPending(v) THEN "Catalog matching"
    ELSE IF \/ Ready(v) \cap WithStatus(v, "PENDING") # {}
            \/ Ready(v) \cap WithStatus(v, "RESOLVED") = {}
         THEN "Product matching"
    ELSE IF CommercialReview(v) # {} THEN "Commercial review"
    ELSE "Negotiation setup"

Named(step) ==
    CASE step = "Purchase order issued" -> "purchase_order_issued"
      [] step = "Decision"              -> "decision"
      [] step = "Negotiation"           -> "negotiation"
      [] step = "Spreadsheet layout"    -> "scenario_selection"
      [] step \in {"Catalog matching", "Product matching"} -> "product_matching"
      [] step = "Commercial review"     -> "commercial_review"
      [] step = "Negotiation setup"     -> "prepare_negotiation"

------------------------------------------------------------------------------
(* Suggestions *)

Unknown == "unknown"
OfMatch == {"include_line", "exclude_line"}

\* suggestionFor: whatever the model fills in, the fields its kind names are
\* there or the suggestion is dropped.  A product is a candidate of the line or not.
IsSuggestion(s) ==
    /\ DOMAIN s = {"kind", "of", "amount"}
    /\ s.kind \in {"select_scenario", "set_quantity"} \cup OfMatch
    /\ s.kind \in OfMatch => s.of \in (Lines \cup {Unknown}) \X Nat

\* The line of the selected layout whose latest decision has this id.
Matched(v, id) == {l \in Ready(v) : id = <<l, v.lines[l].match.id>>}
Editable(v)    == Ready(v) \ WithStatus(v, "EXCLUDED")

Names(v, s) ==
    CASE s.kind = "select_scenario" -> s.of \in Layouts
      [] s.kind = "set_quantity"    -> s.of \in Editable(v)
      [] s.kind = "exclude_line"    -> Matched(v, s.of) \cap Editable(v) # {}
      [] s.kind = "include_line"    -> Matched(v, s.of) # {} /\ s.amount = "candidate"

\* CopilotSuggestionCard: what the page lets the buyer apply, by its own copy.
CanApply(v, s) == ~v.negotiation /\ Names(v, s)

\* validCopilotSuggestions, by the quotation the turn has read.
Valid(v, s) ==
    /\ ~v.negotiation /\ Names(v, s)
    /\ s.kind = "set_quantity" => s.amount = "positive"

\* A suggestion that is kept, with the decision of its line as the model was
\* shown it, which the code does not keep.
Offer(v, s) ==
    [what |-> s, shown |-> IF s.kind \in OfMatch THEN v.lines[s.of[1]].match ELSE NoDecision]

Offers(v, suggestions) == {Offer(v, s) : s \in {x \in suggestions : Valid(v, x)}}

------------------------------------------------------------------------------
(* Durable messages *)

Message(t, role, at, offers) == [turn |-> t, role |-> role, at |-> at, offers |-> offers]

\* The listing: by time, the question first, by id.  Ids are random: two rows
\* of one instant and one role may come either way.
Precedes(a, b) ==
    \/ a.at < b.at
    \/ a.at = b.at /\ a.role = "user" /\ b.role = "assistant"

\* Mutant: the answer takes the time at which it came.
AnsweredWhenItCame(now, askedAt) == now

AnsweredAt(now, askedAt) == IF now > askedAt THEN now ELSE askedAt + 1

------------------------------------------------------------------------------
(* The workflow and the clock *)

Exchange(q) == quotation' = q /\ moves' = moves + 1

Decided(l, status) ==
    [quotation EXCEPT !.lines[l].match = [id |-> @.id + 1, status |-> status]]

\* The matching job decides every line at once.
Matching(status) ==
    [quotation EXCEPT !.lines =
        [l \in Lines |-> IF quotation.lines[l].match = NoDecision
                         THEN [match |-> [id |-> 1, status |-> status[l]],
                               blocked |-> quotation.lines[l].blocked]
                         ELSE quotation.lines[l]]]

\* The job, other tabs, the workers.  No review command looks for a negotiation.
MoveOn ==
    /\ moves < MaxMoves
    /\ \/ \E s \in Layouts : Exchange([quotation EXCEPT !.selected = s])
       \/ \E status \in [Lines -> {"PENDING", "RESOLVED"}] :
              /\ \E l \in Lines : quotation.lines[l].match = NoDecision
              /\ Exchange(Matching(status))
       \/ \E l \in Lines, status \in {"RESOLVED", "EXCLUDED"} :
              /\ quotation.lines[l].match.id > 0
              /\ Exchange(Decided(l, status))
       \/ \E l \in Selected(quotation), b \in BOOLEAN :
              Exchange([quotation EXCEPT !.lines[l].blocked = b])
       \/ /\ AgentStep(quotation) = "prepare_negotiation"
          /\ Exchange([quotation EXCEPT !.negotiation = TRUE])
       \/ /\ quotation.negotiation
          /\ Exchange([quotation EXCEPT !.decision = TRUE])
       \/ /\ quotation.decision
          /\ Exchange([quotation EXCEPT !.order = TRUE])
    /\ UNCHANGED <<clock, rows, turn, page, sent>>

\* The wall clock of the server, as Date reads it.
SetClock ==
    /\ moves < MaxMoves
    /\ clock' \in {clock - 1, clock + 1} \cap 0 .. MaxTime
    /\ moves' = moves + 1
    /\ UNCHANGED <<quotation, rows, turn, page, sent>>

------------------------------------------------------------------------------
(* ChatWithQuoteCopilotCommandHandler *)

\* since is the stage at which the turn was sent; no code has it.
Unsent == [step |-> "unsent", since |-> 0, left |-> {}, view |-> Unread, askedAt |-> 0,
           told |-> None, offers |-> {}, conversation |-> {}]

At(t, step) == turn[t].step = step

\* The page's own state is left as it is.
ServerStep == UNCHANGED <<quotation, clock, moves, page, sent>>

\* One statement of those that read the quotation, or what is downstream of it:
\* they are sent at once and answered in any order.  The details of a negotiation
\* that was named and of an order that was listed are read as well and change no
\* part: neither is ever removed.
With(v, part) == [v EXCEPT ![part] = quotation[part]]

Read(t, part) ==
    /\ part \in turn[t].left
    /\ turn' = [turn EXCEPT ![t].left = turn[t].left \ {part},
                            ![t].view = With(turn[t].view, part)]
    /\ UNCHANGED rows /\ ServerStep

Question(t, at) == Message(t, "user", at, {})

\* The streaming route keeps the question first, in a transaction of its own;
\* the other route keeps both messages at the end.
Ask(t) ==
    /\ At(t, "sent") /\ turn[t].left = {}
    /\ turn' = [turn EXCEPT ![t].step = "asked", ![t].askedAt = clock,
                            ![t].left = Downstream(turn[t].view)]
    /\ rows' = IF t \in Streamed THEN rows \cup {Question(t, clock)} ELSE rows
    /\ ServerStep

Inform(t) ==
    /\ At(t, "asked") /\ turn[t].left = {}
    /\ turn' = [turn EXCEPT ![t].step = "informed", ![t].told = AgentStep(turn[t].view)]
    /\ UNCHANGED rows /\ ServerStep

\* A partial answer reaches the page; the last one may be the whole answer.
Stream(t) ==
    /\ At(t, "informed") /\ page.pending = t
    /\ page' = [page EXCEPT !.streaming = TRUE]
    /\ UNCHANGED <<quotation, clock, moves, rows, turn, sent>>

Respond(t, suggestions) ==
    /\ At(t, "informed")
    /\ turn' = [turn EXCEPT ![t] =
           [Unsent EXCEPT !.step = "answered", !.askedAt = turn[t].askedAt,
                          !.offers = Offers(turn[t].view, suggestions)]]
    /\ UNCHANGED rows /\ ServerStep

\* The model fails, or its answer is empty: the question stays where it was
\* kept.
Fail(t) ==
    /\ At(t, "informed")
    /\ turn' = [turn EXCEPT ![t] = [Unsent EXCEPT !.step = "problem"]]
    /\ UNCHANGED rows /\ ServerStep

Answer(t) ==
    LET answer == Message(t, "assistant", AnsweredAt(clock, turn[t].askedAt), turn[t].offers)
    IN /\ At(t, "answered")
       /\ rows' = rows \cup {answer, Question(t, turn[t].askedAt)}
       /\ turn' = [turn EXCEPT ![t] = [Unsent EXCEPT !.step = "stored"]]
       /\ ServerStep

\* The conversation the route answers with is read afterwards; it counts only
\* where this page still waits for it.
Tell(t) ==
    /\ At(t, "stored")
    /\ turn' = [turn EXCEPT ![t].step = "told",
                            ![t].conversation = IF page.pending = t THEN rows ELSE {}]
    /\ UNCHANGED rows /\ ServerStep

------------------------------------------------------------------------------
(* The conversation on the page *)

Optimistic(t) == Message(t, "optimistic", 0, {})
NoTurn == "none"

\* sendCopilotMessage: the composer and the prompts wait for the pending turn;
\* a turn of another tab waits for nothing of this page.
Send(t) ==
    /\ moves < MaxMoves
    /\ At(t, "unsent")
    /\ turn' = [turn EXCEPT ![t].step = "sent", ![t].since = Stage(quotation),
                            ![t].left = QuotationParts]
    /\ IF t \in Streamed
       THEN /\ page.pending = NoTurn
            /\ page' = [page EXCEPT !.shown = @ \cup {Optimistic(t)},
                                    !.pending = t, !.streaming = FALSE]
       ELSE UNCHANGED page
    /\ moves' = moves + 1
    /\ UNCHANGED <<quotation, clock, rows, sent>>

\* The durable conversation replaces what is shown.
Receive(t) ==
    /\ page.pending = t /\ At(t, "told")
    /\ page' = [page EXCEPT !.shown = turn[t].conversation, !.pending = NoTurn,
                            !.streaming = FALSE]
    /\ turn' = [turn EXCEPT ![t] = [Unsent EXCEPT !.step = "done"]]
    /\ UNCHANGED <<quotation, clock, moves, rows, sent>>

\* A problem, or a stream that breaks at whatever point: the message stays as
\* it was sent, and the server goes on by itself.
Break(t) ==
    /\ page.pending = t
    /\ page' = [page EXCEPT !.pending = NoTurn, !.streaming = FALSE]
    /\ UNCHANGED <<quotation, clock, moves, rows, turn, sent>>

------------------------------------------------------------------------------
(* The page's copy of the quotation *)

Idle == [step |-> "idle", left |-> {}, view |-> Unread, conversation |-> {}]

\* loadWorkspace asks for the quotation and for the conversation at once; a
\* refresh that is overtaken by another is not shown.
Load ==
    /\ moves < MaxMoves
    /\ moves' = moves + 1
    /\ page' = [page EXCEPT !.load =
                   [Idle EXCEPT !.step = "loading",
                                !.left = QuotationParts \cup {"conversation"}]]
    /\ UNCHANGED <<quotation, clock, rows, turn, sent>>

LoadPart(part) ==
    /\ part \in page.load.left
    /\ page' = [page EXCEPT !.load =
           IF part = "conversation"
           THEN [page.load EXCEPT !.left = @ \ {part}, !.conversation = rows]
           ELSE [page.load EXCEPT !.left = @ \ {part}, !.view = With(page.load.view, part)]]
    /\ UNCHANGED <<quotation, clock, moves, rows, turn, sent>>

\* All of it replaces what the page had; a command under way is forgotten.
Show ==
    /\ page.load.step = "loading" /\ page.load.left = {}
    /\ page' = [page EXCEPT !.shown = page.load.conversation, !.copy = page.load.view,
                            !.acting = FALSE, !.load = Idle]
    /\ UNCHANGED <<quotation, clock, moves, rows, turn, sent>>

------------------------------------------------------------------------------
(* A suggestion is applied *)

\* A suggestion is shown with its message.
Offered == UNION {m.offers : m \in page.shown}

Command(offer) ==
    [nr |-> moves, offer |-> offer, layout |-> page.copy.selected,
     step |-> "sent", left |-> {}, view |-> Unread]

Apply(offer) ==
    /\ moves < MaxMoves
    /\ ~page.acting /\ CanApply(page.copy, offer.what)
    /\ page' = [page EXCEPT !.acting = TRUE]
    /\ sent' = sent \cup {Command(offer)}
    /\ moves' = moves + 1
    /\ UNCHANGED <<quotation, clock, rows, turn>>

\* Mutant: any decision of the line will do.
IsAnyDecision(id) == id[2] \in 1 .. quotation.lines[id[1]].match.id

\* assertLatestMatch.
IsLatest(id) == id[2] = quotation.lines[id[1]].match.id

\* What a command does to the quotation, by its own checks: a scenario there is;
\* the latest decision of a line in the layout that the page named, and any
\* product of the catalog; the layout still selected, and a quantity above zero.
Effect(c) ==
    LET s == c.offer.what
    IN \/ /\ s.kind = "select_scenario" /\ s.of \in Layouts
          /\ quotation' = [quotation EXCEPT !.selected = s.of]
       \/ /\ s.kind \in OfMatch
          /\ c.layout = "first" /\ IsLatest(s.of)
          /\ quotation' = Decided(s.of[1], IF s.kind = "include_line" THEN "RESOLVED"
                                                                     ELSE "EXCLUDED")
       \/ /\ s.kind = "set_quantity" /\ s.amount = "positive"
          /\ c.layout = quotation.selected /\ s.of \in Selected(quotation)
          /\ \E b \in BOOLEAN : quotation' = [quotation EXCEPT !.lines[s.of].blocked = b]

\* When the command is done the client reads the quotation anew.
Done(c) == [c EXCEPT !.step = "done", !.left = {"lines", "negotiation"}]

Perform(c) ==
    /\ c.step = "sent"
    /\ Effect(c)
    /\ sent' = (sent \ {c}) \cup {Done(c)}
    /\ UNCHANGED <<clock, moves, rows, turn, page>>

ReadAnew(c, part) ==
    /\ part \in c.left
    /\ sent' = (sent \ {c}) \cup
               {[c EXCEPT !.left = c.left \ {part}, !.view = With(c.view, part)]}
    /\ UNCHANGED <<quotation, clock, moves, rows, turn, page>>

\* The answer replaces the page's quotation, and its layout if it chose one.
Finish(c) ==
    LET s == c.offer.what
    IN /\ c.step = "done" /\ c.left = {}
       /\ page' = [page EXCEPT
              !.copy.lines = c.view.lines, !.copy.negotiation = c.view.negotiation,
              !.copy.selected = IF s.kind = "select_scenario" THEN s.of ELSE @,
              !.acting = FALSE]
       /\ sent' = sent \ {c}
       /\ UNCHANGED <<quotation, clock, moves, rows, turn>>

\* The command is refused, or it or its answer is lost.
Drop(c) ==
    /\ page' = [page EXCEPT !.acting = FALSE]
    /\ sent' = sent \ {c}
    /\ UNCHANGED <<quotation, clock, moves, rows, turn>>

------------------------------------------------------------------------------
Init ==
    /\ quotation \in Openings
    /\ clock = 0
    /\ moves = 0
    /\ rows = {}
    /\ turn = [t \in Turns |-> Unsent]
    /\ page = [shown |-> {}, pending |-> NoTurn, streaming |-> FALSE,
               copy |-> quotation, acting |-> FALSE, load |-> Idle]
    /\ sent = {}

Next ==
    \/ MoveOn
    \/ SetClock
    \/ \E t \in Turns :
          \/ Send(t) \/ Ask(t) \/ Inform(t) \/ Stream(t)
          \/ \E part \in turn[t].left : Read(t, part)
          \/ \E S \in Drafts : Respond(t, S)
          \/ Fail(t) \/ Answer(t) \/ Tell(t) \/ Receive(t) \/ Break(t)
    \/ Load
    \/ \E part \in page.load.left : LoadPart(part)
    \/ Show
    \/ \E offer \in Offered : Apply(offer)
    \/ \E c \in sent :
          \/ Perform(c)
          \/ \E part \in c.left : ReadAnew(c, part)
          \/ Finish(c) \/ Drop(c)

Spec == Init /\ [][Next]_vars

------------------------------------------------------------------------------
(* Whatever the clock does between the two, and whichever route the turn     *)
(* takes, an answer is kept with its question and listed after it: the       *)
(* conversation a later turn is given, and the page shows, reads in order.   *)
AnswerFollowsQuestion ==
    \A answer \in rows : answer.role = "assistant" =>
        \E question \in rows :
            /\ question.turn = answer.turn /\ question.role = "user"
            /\ Precedes(question, answer)

StageTold(step) ==
    CASE step = "purchase_order_issued" -> 3
      [] step = "decision"              -> 2
      [] step = "negotiation"           -> 1
      [] OTHER                          -> 0

(* The stage the model is told is one at which the workflow was since the     *)
(* turn was sent: quotation, decision and orders are read in separate         *)
(* statements while others move them, and still add up to no stage that was   *)
(* over before nor to one that is to come.  And it is the step a page that    *)
(* read the same would show: two packages each work it out.                   *)
ToldAStageThatWas ==
    \A t \in Turns : At(t, "informed") =>
        /\ turn[t].since <= StageTold(turn[t].told)
        /\ StageTold(turn[t].told) <= Stage(quotation)
        /\ turn[t].told = Named(PageStep(turn[t].view))

Performed(c) == c.step = "sent" /\ Done(c) \in sent'

(* A suggestion to include or to exclude that takes effect replaces the very  *)
(* decision the model was shown, with a product proposed for the line, or     *)
(* where the line was not excluded: whatever was decided elsewhere, loaded or *)
(* forgotten on the page since, and however often it is applied.              *)
AppliesToWhatWasShown ==
    \A c \in sent : Performed(c) /\ c.offer.what.kind \in OfMatch =>
        LET s == c.offer.what
        IN /\ quotation.lines[s.of[1]].match = c.offer.shown
           /\ s.kind = "include_line" => s.amount = "candidate"
           /\ s.kind = "exclude_line" => c.offer.shown.status # "EXCLUDED"

AppliedAsShown == [][AppliesToWhatWasShown]_vars
==============================================================================
