----------------------------- MODULE BuyerProofs -----------------------------
(***************************************************************************)
(* Theorems about what helps the buyer: the conversation with the copilot, *)
(* for any number of turns, any suggestions and any clock, and the matcher *)
(* that decides lines for the buyer, for every catalog.                    *)
(***************************************************************************)
EXTENDS Services, TLAPS, WellFoundedInduction

------------------------------------------------------------------------------
(* QuoteCopilot: the conversation *)

\* The time of a turn's question is a number, whatever else the turn holds.
Dated(of) ==
    /\ DOMAIN of = Turns
    /\ \A t \in Turns : DOMAIN of[t] = DOMAIN Copilot!Unsent /\ of[t].askedAt \in Int

Inv == clock \in Int /\ Dated(turn) /\ Copilot!AnswerFollowsQuestion

(* A question that is kept earlier, or at the same time and first, precedes. *)
LEMMA AnswerLater ==
    ASSUME NEW now \in Int, NEW asked \in Int
    PROVE  Copilot!AnsweredAt(now, asked) \in Int /\ asked < Copilot!AnsweredAt(now, asked)
  BY DEF Copilot!AnsweredAt

LEMMA InitInv ==
    ASSUME Copilot!Init
    PROVE  Inv
  BY DEF Copilot!Init, Inv, Dated, Copilot!Unsent, Copilot!AnswerFollowsQuestion

\* Steps that leave the messages and the turns as they are.
OutsideTurns ==
    \/ Copilot!MoveOn \/ Copilot!SetClock \/ Copilot!Load \/ Copilot!Show
    \/ \E part \in page.load.left : Copilot!LoadPart(part)
    \/ \E t \in Turns : Copilot!Stream(t) \/ Copilot!Break(t)
    \/ \E offer \in Copilot!Offered : Copilot!Apply(offer)
    \/ \E c \in sent : \/ Copilot!Perform(c) \/ Copilot!Finish(c) \/ Copilot!Drop(c)
                       \/ \E part \in c.left : Copilot!ReadAnew(c, part)

LEMMA OutsideKeeps ==
    ASSUME OutsideTurns
    PROVE  UNCHANGED <<rows, turn>> /\ (Copilot!SetClock \/ clock' = clock)
  <1>1. CASE \/ Copilot!MoveOn \/ Copilot!SetClock \/ Copilot!Load \/ Copilot!Show
             \/ \E part \in page.load.left : Copilot!LoadPart(part)
    BY <1>1, Zenon DEF Copilot!MoveOn, Copilot!SetClock, Copilot!Load, Copilot!Show,
                       Copilot!LoadPart
  <1>2. CASE \/ \E t \in Turns : Copilot!Stream(t) \/ Copilot!Break(t)
             \/ \E offer \in Copilot!Offered : Copilot!Apply(offer)
    BY <1>2, Zenon DEF Copilot!Stream, Copilot!Break, Copilot!Apply
  <1>3. CASE \E c \in sent : \/ Copilot!Perform(c) \/ Copilot!Finish(c) \/ Copilot!Drop(c)
                             \/ \E part \in c.left : Copilot!ReadAnew(c, part)
    BY <1>3, Zenon DEF Copilot!Perform, Copilot!Finish, Copilot!Drop, Copilot!ReadAnew
  <1> QED
    BY <1>1, <1>2, <1>3, Zenon DEF OutsideTurns

LEMMA Elsewhere ==
    ASSUME Inv, OutsideTurns \/ UNCHANGED Copilot!vars
    PROVE  Inv'
  <1>1. UNCHANGED <<rows, turn>> /\ (Copilot!SetClock \/ clock' = clock)
    BY OutsideKeeps DEF Copilot!vars
  <1>2. clock' \in Int
    BY <1>1 DEF Inv, Copilot!SetClock
  <1> QED
    BY <1>1, <1>2 DEF Inv, Dated, Copilot!AnswerFollowsQuestion

(* Messages are only added, and while none of them is an answer every answer *)
(* keeps its question.                                                     *)
LEMMA QuestionsOnly ==
    ASSUME Copilot!AnswerFollowsQuestion, rows \subseteq rows',
           \A m \in rows' \ rows : m.role # "assistant"
    PROVE  Copilot!AnswerFollowsQuestion'
  <1>1. SUFFICES ASSUME NEW m \in rows', m.role = "assistant"
                 PROVE  \E q \in rows' : /\ q.turn = m.turn /\ q.role = "user"
                                         /\ Copilot!Precedes(q, m)
    BY DEF Copilot!AnswerFollowsQuestion
  <1>2. m \in rows
    BY <1>1
  <1> QED
    BY <1>1, <1>2 DEF Copilot!AnswerFollowsQuestion

LEMMA TurnStep ==
    ASSUME Inv, NEW t \in Turns,
           \/ Copilot!Send(t) \/ Copilot!Inform(t) \/ Copilot!Fail(t)
           \/ Copilot!Tell(t) \/ Copilot!Receive(t)
           \/ \E part \in turn[t].left : Copilot!Read(t, part)
           \/ \E S \in Drafts : Copilot!Respond(t, S)
    PROVE  Inv'
  <1>1. UNCHANGED <<rows, clock>>
    BY Zenon DEF Copilot!Send, Copilot!Read, Copilot!Inform, Copilot!Fail, Copilot!Tell,
                 Copilot!Receive, Copilot!Respond, Copilot!ServerStep
  <1>2. Dated(turn')
    <2> USE DEF Inv, Dated, Copilot!Unsent
    <2>1. CASE Copilot!Send(t)
      BY <2>1 DEF Copilot!Send
    <2>2. ASSUME NEW part \in turn[t].left, Copilot!Read(t, part)
          PROVE  Dated(turn')
      <3> DEFINE view == Copilot!With(turn[t].view, part)
      <3>1. turn' = [turn EXCEPT ![t].left = turn[t].left \ {part}, ![t].view = view]
        BY <2>2, Zenon DEF Copilot!Read
      <3> HIDE DEF view
      <3> QED
        BY <3>1
    <2>3. CASE Copilot!Inform(t)
      BY <2>3 DEF Copilot!Inform
    <2>4. CASE Copilot!Fail(t)
      BY <2>4 DEF Copilot!Fail
    <2>5. CASE Copilot!Tell(t)
      BY <2>5 DEF Copilot!Tell
    <2>6. CASE Copilot!Receive(t)
      BY <2>6 DEF Copilot!Receive
    <2>7. ASSUME NEW S \in Drafts, Copilot!Respond(t, S)
          PROVE  Dated(turn')
      <3> DEFINE offers_ == Copilot!Offers(turn[t].view, S)
      <3>1. turn' = [turn EXCEPT ![t] =
                [Copilot!Unsent EXCEPT !.step = "answered", !.askedAt = turn[t].askedAt,
                                       !.offers = offers_]]
        BY <2>7, Zenon DEF Copilot!Respond
      <3> HIDE DEF offers_
      <3> QED
        BY <3>1
    <2> QED
      BY <2>1, <2>2, <2>3, <2>4, <2>5, <2>6, <2>7
  <1> QED
    BY <1>1, <1>2 DEF Inv, Dated, Copilot!AnswerFollowsQuestion

LEMMA AskStep ==
    ASSUME Inv, NEW t \in Turns, Copilot!Ask(t)
    PROVE  Inv'
  <1>1. clock' \in Int /\ Dated(turn')
    BY DEF Copilot!Ask, Copilot!ServerStep, Inv, Dated, Copilot!Unsent
  <1>2. rows' \in {rows, rows \cup {Copilot!Question(t, clock)}}
    BY DEF Copilot!Ask
  <1>3. Copilot!Question(t, clock).role = "user"
    BY DEF Copilot!Question, Copilot!Message
  <1>4. Copilot!AnswerFollowsQuestion'
    BY <1>2, <1>3, QuestionsOnly DEF Inv
  <1> QED
    BY <1>1, <1>4 DEF Inv, Dated

LEMMA AnswerStep ==
    ASSUME Inv, NEW t \in Turns, Copilot!Answer(t)
    PROVE  Inv'
  <1> DEFINE asked    == turn[t].askedAt
             question == Copilot!Question(t, asked)
             reply    == Copilot!Message(t, "assistant", Copilot!AnsweredAt(clock, asked),
                                 turn[t].offers)
  <1>1. clock' \in Int /\ Dated(turn')
    BY DEF Copilot!Answer, Copilot!ServerStep, Inv, Dated, Copilot!Unsent
  <1>2. rows' = rows \cup {reply, question}
    BY DEF Copilot!Answer
  <1>3. /\ question.turn = t /\ question.role = "user" /\ question.at = asked
        /\ reply.turn = t /\ reply.role = "assistant"
        /\ reply.at = Copilot!AnsweredAt(clock, asked)
    BY DEF Copilot!Question, Copilot!Message
  <1>4. Copilot!Precedes(question, reply)
    BY <1>3, AnswerLater DEF Copilot!Precedes, Inv, Dated
  <1>5. Copilot!AnswerFollowsQuestion'
    <2>1. SUFFICES ASSUME NEW m \in rows', m.role = "assistant"
                   PROVE  \E q \in rows' : /\ q.turn = m.turn /\ q.role = "user"
                                           /\ Copilot!Precedes(q, m)
      BY DEF Copilot!AnswerFollowsQuestion
    <2>2. CASE m = reply
      BY <1>2, <1>3, <1>4, <2>2
    <2>3. CASE m \in rows
      BY <1>2, <2>1, <2>3 DEF Inv, Copilot!AnswerFollowsQuestion
    <2> QED
      BY <1>2, <1>3, <2>1, <2>2, <2>3
  <1> QED
    BY <1>1, <1>5 DEF Inv, Dated

LEMMA NextInv ==
    ASSUME Inv, [Copilot!Next]_(Copilot!vars)
    PROVE  Inv'
  <1>1. \/ OutsideTurns \/ UNCHANGED Copilot!vars
        \/ \E t \in Turns :
               \/ Copilot!Send(t) \/ Copilot!Inform(t) \/ Copilot!Fail(t)
               \/ Copilot!Tell(t) \/ Copilot!Receive(t)
               \/ \E part \in turn[t].left : Copilot!Read(t, part)
               \/ \E S \in Drafts : Copilot!Respond(t, S)
               \/ Copilot!Ask(t) \/ Copilot!Answer(t)
    BY DEF Copilot!Next, OutsideTurns
  <1> QED
    BY <1>1, Elsewhere, TurnStep, AskStep, AnswerStep

------------------------------------------------------------------------------
(* QuoteCopilot: the quotation, which only moves forward *)

\* A decision that was once the latest of its line is so still, or there are later.
Past(l, m) ==
    /\ m \in Copilot!Match
    /\ m.id <= quotation.lines[l].match.id
    /\ m.id = quotation.lines[l].match.id => m = quotation.lines[l].match

Committed == quotation \in Copilot!Views /\ Copilot!Consistent(quotation)

Forward ==
    /\ quotation.negotiation => quotation'.negotiation
    /\ quotation.decision => quotation'.decision
    /\ quotation.order => quotation'.order
    /\ \A l \in Lines :
          \/ quotation'.lines[l].match = quotation.lines[l].match
          \/ quotation'.lines[l].match.id > quotation.lines[l].match.id

LEMMA PastStays ==
    ASSUME Committed, Committed', Forward, NEW l \in Lines, NEW m, Past(l, m)
    PROVE  Past(l, m)'
  <1>1. quotation.lines[l].match.id \in Nat /\ quotation'.lines[l].match.id \in Nat /\ m.id \in Nat
    BY DEF Committed, Copilot!Views, Copilot!Match, Past
  <1> QED
    BY <1>1 DEF Past, Forward

LEMMA DecidedForward ==
    ASSUME Committed, NEW l \in Lines, NEW status \in {"PENDING", "RESOLVED", "EXCLUDED"},
           quotation' = Copilot!Decided(l, status)
    PROVE  Committed' /\ Forward
  <1> DEFINE Line == [match : Copilot!Match, blocked : BOOLEAN]
             old  == quotation.lines[l]
             new  == [old EXCEPT !.match = [id |-> old.match.id + 1, status |-> status]]
  <1>0. quotation.lines \in [Lines -> Line] /\ old.match.id \in Nat
    BY DEF Committed, Copilot!Views, Copilot!Match
  <1>1. quotation' \in Copilot!Views
    <2>1. [id |-> old.match.id + 1, status |-> status] \in Copilot!Match
      BY <1>0 DEF Copilot!Match
    <2>2. new \in Line
      BY <1>0, <2>1
    <2>3. quotation' = [quotation EXCEPT !.lines = [quotation.lines EXCEPT ![l] = new]]
      BY DEF Copilot!Decided
    <2>4. [quotation.lines EXCEPT ![l] = new] \in [Lines -> Line]
      BY <1>0, <2>2
    <2> HIDE DEF Line, new
    <2> QED
      BY <2>3, <2>4 DEF Committed, Copilot!Views, Line
  <1>2. Copilot!Consistent(quotation') /\ Forward
    BY DEF Committed, Copilot!Consistent, Copilot!Views, Copilot!Match, Copilot!Decided,
           Copilot!NoDecision, Forward
  <1> QED
    BY <1>1, <1>2 DEF Committed

LEMMA MatchingForward ==
    ASSUME Committed, NEW status \in [Lines -> {"PENDING", "RESOLVED"}],
           quotation' = Copilot!Matching(status)
    PROVE  Committed' /\ Forward
  <1>1. quotation' \in Copilot!Views
    BY DEF Committed, Copilot!Views, Copilot!Match, Copilot!Matching
  <1>2. Copilot!Consistent(quotation') /\ Forward
    BY DEF Committed, Copilot!Consistent, Copilot!Views, Copilot!Match, Copilot!Matching,
           Copilot!NoDecision, Forward
  <1> QED
    BY <1>1, <1>2 DEF Committed

LEMMA BlockedForward ==
    ASSUME Committed, NEW l \in Lines, NEW b \in BOOLEAN,
           quotation' = [quotation EXCEPT !.lines[l].blocked = b]
    PROVE  Committed' /\ Forward
  <1>1. quotation' \in Copilot!Views
    BY DEF Committed, Copilot!Views, Copilot!Match
  <1>2. Copilot!Consistent(quotation') /\ Forward
    BY DEF Committed, Copilot!Consistent, Copilot!Views, Copilot!NoDecision, Forward
  <1> QED
    BY <1>1, <1>2 DEF Committed

LEMMA StageForward ==
    ASSUME Committed,
           \/ \E s \in Copilot!Layouts : quotation' = [quotation EXCEPT !.selected = s]
           \/ quotation' = [quotation EXCEPT !.negotiation = TRUE]
           \/ quotation.negotiation /\ quotation' = [quotation EXCEPT !.decision = TRUE]
           \/ quotation.decision /\ quotation' = [quotation EXCEPT !.order = TRUE]
           \/ UNCHANGED quotation
    PROVE  Committed' /\ Forward
  BY DEF Committed, Copilot!Consistent, Copilot!Views, Forward

LEMMA MoveOnForward ==
    ASSUME Committed, Copilot!MoveOn
    PROVE  Committed' /\ Forward
  <1>1. \/ \E s \in Copilot!Layouts : quotation' = [quotation EXCEPT !.selected = s]
        \/ quotation' = [quotation EXCEPT !.negotiation = TRUE]
        \/ quotation.negotiation /\ quotation' = [quotation EXCEPT !.decision = TRUE]
        \/ quotation.decision /\ quotation' = [quotation EXCEPT !.order = TRUE]
        \/ \E status \in [Lines -> {"PENDING", "RESOLVED"}] :
               quotation' = Copilot!Matching(status)
        \/ \E l \in Lines, status \in {"RESOLVED", "EXCLUDED"} :
               quotation' = Copilot!Decided(l, status)
        \/ \E l \in Copilot!Selected(quotation), b \in BOOLEAN :
               quotation' = [quotation EXCEPT !.lines[l].blocked = b]
    BY Zenon DEF Copilot!MoveOn, Copilot!Exchange
  <1>2. Copilot!Selected(quotation) \subseteq Lines
    BY DEF Copilot!Selected
  <1> QED
    BY <1>1, <1>2, DecidedForward, MatchingForward, BlockedForward, StageForward

------------------------------------------------------------------------------
(* QuoteCopilot: what a turn has read of the quotation *)

Parts == {"selected", "lines", "negotiation", "decision", "order"}

\* All a turn has read was so at some time since the turn began, or is so.
Seen(t) ==
    /\ turn[t].view \in Copilot!Views
    /\ turn[t].view.negotiation => quotation.negotiation
    /\ turn[t].view.decision => quotation.decision
    /\ turn[t].view.order => quotation.order
    /\ \A l \in Lines :
          /\ Past(l, turn[t].view.lines[l].match)
          /\ turn[t].view.lines[l].match.id = 0 =>
                 turn[t].view.lines[l].match = Copilot!NoDecision

\* What a turn waits for, and what the stage it was sent at says of the rest.
Staged(t) ==
    /\ DOMAIN turn[t] = DOMAIN Copilot!Unsent
    /\ turn[t].since \in 0 .. 3 /\ turn[t].since <= Copilot!Stage(quotation)
    /\ turn[t].step = "sent" =>
          /\ turn[t].left \subseteq Copilot!QuotationParts
          /\ "negotiation" \in turn[t].left \/ (turn[t].since >= 1 => turn[t].view.negotiation)
    /\ turn[t].step = "asked" =>
          /\ turn[t].left \subseteq {"decision", "order"}
          /\ turn[t].since >= 1 => turn[t].view.negotiation
          /\ "decision" \in turn[t].left \/ (turn[t].since >= 2 => turn[t].view.decision)
          /\ "order" \in turn[t].left \/ (turn[t].since = 3 => turn[t].view.order)
    /\ turn[t].step \notin {"sent", "asked"} => turn[t].left = {}
    /\ turn[t].step = "informed" =>
          /\ turn[t].told = Copilot!AgentStep(turn[t].view)
          /\ turn[t].since <= Copilot!Stage(turn[t].view)

TurnsInv ==
    /\ Committed
    /\ DOMAIN turn = Turns
    /\ \A t \in Turns : Seen(t) /\ Staged(t)

LEMMA WithPart ==
    ASSUME Committed, NEW v \in Copilot!Views, NEW part \in Parts
    PROVE  /\ Copilot!With(v, part) \in Copilot!Views
           /\ Copilot!With(v, part).selected =
                  IF part = "selected" THEN quotation.selected ELSE v.selected
           /\ Copilot!With(v, part).lines =
                  IF part = "lines" THEN quotation.lines ELSE v.lines
           /\ Copilot!With(v, part).negotiation =
                  IF part = "negotiation" THEN quotation.negotiation ELSE v.negotiation
           /\ Copilot!With(v, part).decision =
                  IF part = "decision" THEN quotation.decision ELSE v.decision
           /\ Copilot!With(v, part).order =
                  IF part = "order" THEN quotation.order ELSE v.order
  <1>1. CASE part = "selected"
    BY <1>1 DEF Committed, Copilot!With, Copilot!Views
  <1>2. CASE part = "lines"
    BY <1>2 DEF Committed, Copilot!With, Copilot!Views
  <1>3. CASE part = "negotiation"
    BY <1>3 DEF Committed, Copilot!With, Copilot!Views
  <1>4. CASE part = "decision"
    BY <1>4 DEF Committed, Copilot!With, Copilot!Views
  <1>5. CASE part = "order"
    BY <1>5 DEF Committed, Copilot!With, Copilot!Views
  <1> QED
    BY <1>1, <1>2, <1>3, <1>4, <1>5 DEF Parts

LEMMA SeenUnread ==
    ASSUME Committed', NEW t, turn'[t].view = Copilot!Unread
    PROVE  Seen(t)'
  <1>1. Copilot!Unread \in Copilot!Views
    BY DEF Copilot!Unread, Copilot!Views, Copilot!Match, Copilot!NoDecision
  <1>2. \A l \in Lines : Past(l, Copilot!NoDecision)'
    BY DEF Committed, Copilot!Consistent, Copilot!Views, Copilot!Match, Past, Copilot!NoDecision
  <1> QED
    BY <1>1, <1>2 DEF Seen, Copilot!Unread

LEMMA SeenStays ==
    ASSUME Committed, Committed', Forward, NEW t, Seen(t), turn'[t].view = turn[t].view
    PROVE  Seen(t)'
  <1> PICK v : v = turn[t].view
    OBVIOUS
  <1>1. \A l \in Lines : Past(l, v.lines[l].match)'
    BY PastStays DEF Seen
  <1> QED
    BY <1>1 DEF Seen, Forward

LEMMA SeenRead ==
    ASSUME Committed, NEW t, Seen(t), NEW part \in Parts, UNCHANGED quotation,
           turn'[t].view = Copilot!With(turn[t].view, part)
    PROVE  Seen(t)'
  <1> DEFINE v == turn[t].view
             w == Copilot!With(v, part)
  <1>1. /\ w \in Copilot!Views
        /\ w.lines = IF part = "lines" THEN quotation.lines ELSE v.lines
        /\ w.negotiation = IF part = "negotiation" THEN quotation.negotiation ELSE v.negotiation
        /\ w.decision = IF part = "decision" THEN quotation.decision ELSE v.decision
        /\ w.order = IF part = "order" THEN quotation.order ELSE v.order
    BY WithPart DEF Seen
  <1>2. \A l \in Lines : /\ Past(l, quotation.lines[l].match)
                         /\ quotation.lines[l].match.id = 0 =>
                                quotation.lines[l].match = Copilot!NoDecision
    BY DEF Committed, Copilot!Consistent, Copilot!Views, Copilot!Match, Past
  <1> HIDE DEF w
  <1> QED
    BY <1>1, <1>2 DEF Seen, Past, w

LEMMA SeenUnchanged ==
    ASSUME Committed, NEW t, Seen(t), UNCHANGED quotation, turn'[t].view = turn[t].view
    PROVE  Seen(t)'
  BY SeenStays DEF Committed, Forward

LEMMA StageStays ==
    ASSUME Committed, Committed', Forward
    PROVE  /\ Copilot!Stage(quotation) \in 0 .. 3 /\ Copilot!Stage(quotation') \in 0 .. 3
           /\ Copilot!Stage(quotation) <= Copilot!Stage(quotation')
  BY DEF Committed, Copilot!Views, Copilot!Consistent, Forward, Copilot!Stage

LEMMA WorkflowTurns ==
    ASSUME TurnsInv, Committed', Forward, UNCHANGED turn
    PROVE  TurnsInv'
  <1>1. SUFFICES ASSUME NEW t \in Turns
                 PROVE  Seen(t)' /\ Staged(t)'
    BY DEF TurnsInv
  <1>2. Seen(t)'
    BY SeenStays DEF TurnsInv
  <1>3. Staged(t)'
    BY StageStays DEF TurnsInv, Staged
  <1> QED
    BY <1>2, <1>3

\* A step of one turn.
LEMMA OneTurn ==
    ASSUME TurnsInv, NEW t \in Turns, NEW r, turn' = [turn EXCEPT ![t] = r],
           UNCHANGED quotation, Seen(t)', Staged(t)'
    PROVE  TurnsInv'
  <1>1. SUFFICES ASSUME NEW u \in Turns, u # t
                 PROVE  Seen(u)' /\ Staged(u)'
    BY DEF TurnsInv, Committed
  <1>2. turn'[u] = turn[u]
    BY <1>1 DEF TurnsInv
  <1> QED
    BY <1>2 DEF TurnsInv, Seen, Staged, Past

\* A turn that gives up what it has read.
LEMMA TurnEmptied ==
    ASSUME TurnsInv, NEW t \in Turns, NEW r, turn' = [turn EXCEPT ![t] = r], UNCHANGED quotation,
           DOMAIN r = DOMAIN Copilot!Unsent, r.since = 0, r.left = {}, r.view = Copilot!Unread,
           r.step \notin {"sent", "asked", "informed"}
    PROVE  TurnsInv'
  <1>1. turn'[t] = r
    BY DEF TurnsInv
  <1>2. Seen(t)'
    BY <1>1, SeenUnread DEF TurnsInv, Committed
  <1>3. Staged(t)'
    BY <1>1 DEF TurnsInv, Committed, Staged, Copilot!Stage, Copilot!Views
  <1> QED
    BY <1>2, <1>3, OneTurn

LEMMA SendTurns ==
    ASSUME TurnsInv, NEW t \in Turns, Copilot!Send(t)
    PROVE  TurnsInv'
  <1>1. PICK r : r = [turn[t] EXCEPT !.step = "sent", !.since = Copilot!Stage(quotation),
                                     !.left = Copilot!QuotationParts]
    OBVIOUS
  <1>2. turn' = [turn EXCEPT ![t] = r] /\ UNCHANGED quotation /\ turn'[t] = r
    BY <1>1 DEF Copilot!Send, TurnsInv
  <1>3. Seen(t)'
    BY <1>1, <1>2, SeenUnchanged DEF TurnsInv, Staged, Copilot!Unsent
  <1>4. Staged(t)'
    <2>1. Copilot!Stage(quotation) \in 0 .. 3
      BY DEF Copilot!Stage, TurnsInv, Committed, Copilot!Views
    <2>2. /\ DOMAIN r = DOMAIN Copilot!Unsent /\ r.step = "sent"
          /\ r.since = Copilot!Stage(quotation) /\ r.left = Copilot!QuotationParts
      BY <1>1 DEF TurnsInv, Staged, Copilot!Unsent
    <2> QED
      BY <1>2, <2>1, <2>2 DEF Staged, Copilot!QuotationParts
  <1> QED
    BY <1>2, <1>3, <1>4, OneTurn

LEMMA ReadTurns ==
    ASSUME TurnsInv, NEW t \in Turns, NEW part \in turn[t].left, Copilot!Read(t, part)
    PROVE  TurnsInv'
  <1>1. PICK w : w = Copilot!With(turn[t].view, part)
    OBVIOUS
  <1>2. PICK r : r = [turn[t] EXCEPT !.left = turn[t].left \ {part}, !.view = w]
    OBVIOUS
  <1>3. turn' = [turn EXCEPT ![t] = r] /\ UNCHANGED quotation /\ turn'[t] = r
    <2>1. turn' = [turn EXCEPT ![t].left = turn[t].left \ {part}, ![t].view = w]
      BY <1>1, Zenon DEF Copilot!Read
    <2>2. UNCHANGED quotation
      BY Zenon DEF Copilot!Read, Copilot!ServerStep
    <2> QED
      BY <1>2, <2>1, <2>2 DEF TurnsInv
  <1>4. /\ DOMAIN r = DOMAIN Copilot!Unsent /\ r.step = turn[t].step /\ r.since = turn[t].since
        /\ r.told = turn[t].told /\ r.left = turn[t].left \ {part} /\ r.view = w
    BY <1>2 DEF TurnsInv, Staged, Copilot!Unsent
  <1>5. turn[t].left \subseteq Parts /\ turn[t].step \in {"sent", "asked"}
    BY DEF TurnsInv, Staged, Parts, Copilot!QuotationParts
  <1>6. Seen(t)'
    BY <1>1, <1>3, <1>4, <1>5, SeenRead DEF TurnsInv
  <1>7. Staged(t)'
    <2>1. /\ w.negotiation = IF part = "negotiation" THEN quotation.negotiation
                                                     ELSE turn[t].view.negotiation
          /\ w.decision = IF part = "decision" THEN quotation.decision ELSE turn[t].view.decision
          /\ w.order = IF part = "order" THEN quotation.order ELSE turn[t].view.order
      BY <1>1, <1>5, WithPart DEF TurnsInv, Seen
    <2>2. /\ turn[t].since >= 1 => quotation.negotiation
          /\ turn[t].since >= 2 => quotation.decision
          /\ turn[t].since = 3 => quotation.order
      BY DEF TurnsInv, Staged, Committed, Copilot!Consistent, Copilot!Stage, Copilot!Views
    <2> QED
      BY <1>3, <1>4, <1>5, <2>1, <2>2 DEF TurnsInv, Staged
  <1> QED
    BY <1>3, <1>6, <1>7, OneTurn

LEMMA AskTurns ==
    ASSUME TurnsInv, NEW t \in Turns, Copilot!Ask(t)
    PROVE  TurnsInv'
  <1>1. PICK r : r = [turn[t] EXCEPT !.step = "asked", !.askedAt = clock,
                                     !.left = Copilot!Downstream(turn[t].view)]
    OBVIOUS
  <1>2. /\ turn' = [turn EXCEPT ![t] = r] /\ UNCHANGED quotation /\ turn'[t] = r
        /\ turn[t].step = "sent" /\ turn[t].left = {}
    BY <1>1 DEF Copilot!Ask, Copilot!At, Copilot!ServerStep, TurnsInv
  <1>3. /\ DOMAIN r = DOMAIN Copilot!Unsent /\ r.step = "asked" /\ r.since = turn[t].since
        /\ r.left = Copilot!Downstream(turn[t].view) /\ r.view = turn[t].view
    BY <1>1 DEF TurnsInv, Staged, Copilot!Unsent
  <1>4. Seen(t)'
    BY <1>2, <1>3, SeenUnchanged DEF TurnsInv
  <1>5. Staged(t)'
    BY <1>2, <1>3 DEF TurnsInv, Staged, Copilot!Downstream
  <1> QED
    BY <1>2, <1>4, <1>5, OneTurn

LEMMA InformTurns ==
    ASSUME TurnsInv, NEW t \in Turns, Copilot!Inform(t)
    PROVE  TurnsInv'
  <1>1. PICK r : r = [turn[t] EXCEPT !.step = "informed",
                                     !.told = Copilot!AgentStep(turn[t].view)]
    OBVIOUS
  <1>2. /\ turn' = [turn EXCEPT ![t] = r] /\ UNCHANGED quotation /\ turn'[t] = r
        /\ turn[t].step = "asked" /\ turn[t].left = {}
    BY <1>1 DEF Copilot!Inform, Copilot!At, Copilot!ServerStep, TurnsInv
  <1>3. /\ DOMAIN r = DOMAIN Copilot!Unsent /\ r.step = "informed" /\ r.since = turn[t].since
        /\ r.left = {} /\ r.view = turn[t].view
        /\ r.told = Copilot!AgentStep(turn[t].view)
    BY <1>1, <1>2 DEF TurnsInv, Staged, Copilot!Unsent
  <1>4. Seen(t)'
    BY <1>2, <1>3, SeenUnchanged DEF TurnsInv
  <1>5. Staged(t)'
    BY <1>2, <1>3 DEF TurnsInv, Staged, Copilot!Stage
  <1> QED
    BY <1>2, <1>4, <1>5, OneTurn

\* The rest of a turn, in which nothing is read of the quotation.
LEMMA TurnEnds ==
    ASSUME TurnsInv, NEW t \in Turns,
           \/ \E S \in Drafts : Copilot!Respond(t, S)
           \/ Copilot!Fail(t) \/ Copilot!Answer(t) \/ Copilot!Tell(t) \/ Copilot!Receive(t)
    PROVE  TurnsInv'
  <1>1. ASSUME NEW S \in Drafts, Copilot!Respond(t, S)
        PROVE  TurnsInv'
    <2>1. PICK o : o = Copilot!Offers(turn[t].view, S)
      OBVIOUS
    <2>2. PICK r : r = [Copilot!Unsent EXCEPT !.step = "answered",
                                              !.askedAt = turn[t].askedAt, !.offers = o]
      OBVIOUS
    <2>3. turn' = [turn EXCEPT ![t] = r] /\ UNCHANGED quotation
      BY <1>1, <2>1, <2>2, Zenon DEF Copilot!Respond, Copilot!ServerStep
    <2>4. /\ DOMAIN r = DOMAIN Copilot!Unsent /\ r.since = 0 /\ r.left = {}
          /\ r.view = Copilot!Unread /\ r.step \notin {"sent", "asked", "informed"}
      BY <2>2 DEF Copilot!Unsent
    <2> QED
      BY <2>3, <2>4, TurnEmptied, Zenon
  <1>2. ASSUME NEW step \in {"problem", "stored", "done"}, UNCHANGED quotation,
               turn' = [turn EXCEPT ![t] = [Copilot!Unsent EXCEPT !.step = step]]
        PROVE  TurnsInv'
    <2>1. PICK r : r = [Copilot!Unsent EXCEPT !.step = step]
      OBVIOUS
    <2>2. /\ DOMAIN r = DOMAIN Copilot!Unsent /\ r.since = 0 /\ r.left = {}
          /\ r.view = Copilot!Unread /\ r.step \notin {"sent", "asked", "informed"}
      BY <2>1 DEF Copilot!Unsent
    <2> QED
      BY <1>2, <2>1, <2>2, TurnEmptied, Zenon
  <1>3. CASE Copilot!Tell(t)
    <2>1. PICK c : c = IF page.pending = t THEN rows ELSE {}
      OBVIOUS
    <2>2. PICK r : r = [turn[t] EXCEPT !.step = "told", !.conversation = c]
      OBVIOUS
    <2>3. /\ turn' = [turn EXCEPT ![t] = r] /\ UNCHANGED quotation /\ turn'[t] = r
          /\ turn[t].step = "stored"
      BY <1>3, <2>1, <2>2 DEF Copilot!Tell, Copilot!At, Copilot!ServerStep, TurnsInv
    <2>4. /\ DOMAIN r = DOMAIN Copilot!Unsent /\ r.step = "told" /\ r.since = turn[t].since
          /\ r.left = {} /\ r.view = turn[t].view
      BY <2>2, <2>3 DEF TurnsInv, Staged, Copilot!Unsent
    <2>5. Seen(t)'
      BY <2>3, <2>4, SeenUnchanged DEF TurnsInv
    <2>6. Staged(t)'
      BY <2>3, <2>4 DEF TurnsInv, Staged
    <2> QED
      BY <2>3, <2>5, <2>6, OneTurn
  <1>4. CASE Copilot!Fail(t)
    BY <1>2, <1>4 DEF Copilot!Fail, Copilot!ServerStep
  <1>5. CASE Copilot!Answer(t)
    BY <1>2, <1>5, Zenon DEF Copilot!Answer, Copilot!ServerStep
  <1>6. CASE Copilot!Receive(t)
    BY <1>2, <1>6, Zenon DEF Copilot!Receive
  <1> QED
    BY <1>1, <1>3, <1>4, <1>5, <1>6

------------------------------------------------------------------------------
(* QuoteCopilot: where a suggestion that is kept comes from *)

Said(messages, o) == \E m \in messages : o \in m.offers

\* A suggestion that is anywhere: with the server, in a message, on the way.
Known(o) ==
    \/ \E t \in Turns : o \in turn[t].offers \/ Said(turn[t].conversation, o)
    \/ Said(rows, o) \/ Said(page.shown, o) \/ Said(page.load.conversation, o)
    \/ \E c \in sent : c.offer = o

TurnsFrom ==
    \A t \in Turns : /\ turn'[t].offers \in {turn[t].offers, {}}
                     /\ turn'[t].conversation \in {turn[t].conversation, rows, {}}
RowsFrom ==
    \A m \in rows' : m \in rows \/ m.offers = {} \/ \E t \in Turns : m.offers = turn[t].offers
ShownFrom ==
    \A m \in page'.shown : \/ m \in page.shown \/ m \in page.load.conversation
                           \/ m.offers = {} \/ \E t \in Turns : m \in turn[t].conversation
LoadedFrom ==
    page'.load.conversation \in {page.load.conversation, rows, {}}
SentFrom ==
    \A c \in sent' : \/ \E d \in sent : c.offer = d.offer
                     \/ \E m \in page.shown : c.offer \in m.offers

LEMMA NothingNew ==
    ASSUME NEW o, Known(o)', TurnsFrom, RowsFrom, ShownFrom, LoadedFrom, SentFrom
    PROVE  Known(o)
  <1>1. ASSUME NEW t \in Turns, o \in turn'[t].offers \/ Said(turn'[t].conversation, o)
        PROVE  Known(o)
    BY <1>1 DEF TurnsFrom, Known, Said
  <1>2. ASSUME Said(rows', o)
        PROVE  Known(o)
    BY <1>2 DEF RowsFrom, Known, Said
  <1>3. ASSUME Said(page'.shown, o)
        PROVE  Known(o)
    BY <1>3 DEF ShownFrom, Known, Said
  <1>4. ASSUME Said(page'.load.conversation, o)
        PROVE  Known(o)
    BY <1>4 DEF LoadedFrom, Known, Said
  <1>5. ASSUME NEW c \in sent', c.offer = o
        PROVE  Known(o)
    BY <1>5 DEF SentFrom, Known, Said
  <1> QED
    BY <1>1, <1>2, <1>3, <1>4, <1>5 DEF Known

\* The page as a record, and its commands told apart by their numbers.
Shaped ==
    /\ DOMAIN page = {"shown", "pending", "streaming", "copy", "acting", "load"}
    /\ DOMAIN page.load = DOMAIN Copilot!Idle
    /\ moves \in Nat
    /\ \A c \in sent : /\ DOMAIN c = {"nr", "offer", "layout", "step", "left", "view"}
                       /\ c.nr \in Nat /\ c.nr < moves
    /\ \A c, d \in sent : c.nr = d.nr => c = d

LEMMA WorkflowFlow ==
    ASSUME Shaped, Copilot!MoveOn \/ Copilot!SetClock \/ UNCHANGED Copilot!vars
    PROVE  Shaped' /\ TurnsFrom /\ RowsFrom /\ ShownFrom /\ LoadedFrom /\ SentFrom
  <1>1. UNCHANGED <<rows, turn, page, sent>> /\ moves' \in {moves, moves + 1}
    BY DEF Copilot!MoveOn, Copilot!SetClock, Copilot!Exchange, Copilot!vars
  <1>2. Shaped'
    BY <1>1 DEF Shaped
  <1> QED
    BY <1>1, <1>2 DEF TurnsFrom, RowsFrom, ShownFrom, LoadedFrom, SentFrom

LEMMA PageFlow ==
    ASSUME Shaped,
           \/ \E t \in Turns : Copilot!Stream(t) \/ Copilot!Break(t)
           \/ Copilot!Load \/ Copilot!Show
           \/ \E part \in page.load.left : Copilot!LoadPart(part)
    PROVE  Shaped' /\ TurnsFrom /\ RowsFrom /\ ShownFrom /\ LoadedFrom /\ SentFrom
  <1>1. UNCHANGED <<rows, turn, sent>> /\ moves' \in {moves, moves + 1}
    BY Zenon DEF Copilot!Stream, Copilot!Break, Copilot!Load, Copilot!Show, Copilot!LoadPart
  <1>2. /\ DOMAIN page' = DOMAIN page /\ DOMAIN page'.load = DOMAIN Copilot!Idle
        /\ page'.shown \in {page.shown, page.load.conversation}
        /\ page'.load.conversation \in {page.load.conversation, rows, {}}
    <2>1. CASE \E t \in Turns : Copilot!Stream(t) \/ Copilot!Break(t)
      BY <2>1 DEF Copilot!Stream, Copilot!Break, Shaped
    <2>2. CASE Copilot!Load
      BY <2>2 DEF Copilot!Load, Shaped, Copilot!Idle
    <2>3. CASE Copilot!Show
      BY <2>3 DEF Copilot!Show, Shaped, Copilot!Idle
    <2>4. ASSUME NEW part \in page.load.left, Copilot!LoadPart(part)
          PROVE  /\ DOMAIN page' = DOMAIN page /\ DOMAIN page'.load = DOMAIN Copilot!Idle
                 /\ page'.shown = page.shown
                 /\ page'.load.conversation \in {page.load.conversation, rows}
      <3>1. PICK w : w = Copilot!With(page.load.view, part)
        OBVIOUS
      <3>2. PICK r : r = IF part = "conversation"
                         THEN [page.load EXCEPT !.left = page.load.left \ {part},
                                                !.conversation = rows]
                         ELSE [page.load EXCEPT !.left = page.load.left \ {part}, !.view = w]
        OBVIOUS
      <3>3. page' = [page EXCEPT !.load = r]
        BY <2>4, <3>1, <3>2, Zenon DEF Copilot!LoadPart
      <3>4. /\ DOMAIN r = DOMAIN Copilot!Idle
            /\ r.conversation \in {page.load.conversation, rows}
        BY <3>2 DEF Shaped, Copilot!Idle
      <3> QED
        BY <3>3, <3>4 DEF Shaped
    <2> QED
      BY <2>1, <2>2, <2>3, <2>4
  <1>3. Shaped'
    BY <1>1, <1>2 DEF Shaped
  <1> QED
    BY <1>1, <1>2, <1>3 DEF TurnsFrom, RowsFrom, ShownFrom, LoadedFrom, SentFrom

\* A step of one turn that keeps the page as it is.
LEMMA ServerFlow ==
    ASSUME Shaped, TurnsInv, NEW t \in Turns,
           \/ \E part \in turn[t].left : Copilot!Read(t, part)
           \/ Copilot!Ask(t) \/ Copilot!Inform(t) \/ Copilot!Fail(t)
           \/ Copilot!Answer(t) \/ Copilot!Tell(t)
    PROVE  Shaped' /\ TurnsFrom /\ RowsFrom /\ ShownFrom /\ LoadedFrom /\ SentFrom
  <1>1. UNCHANGED <<page, sent, moves>>
    BY Zenon DEF Copilot!Read, Copilot!Ask, Copilot!Inform, Copilot!Fail, Copilot!Answer,
                 Copilot!Tell, Copilot!ServerStep
  <1>2. Shaped' /\ ShownFrom /\ LoadedFrom /\ SentFrom
    BY <1>1 DEF Shaped, ShownFrom, LoadedFrom, SentFrom
  <1>3. RowsFrom
    <2>1. Copilot!Question(t, clock).offers = {} /\ Copilot!Question(t, turn[t].askedAt).offers = {}
      BY DEF Copilot!Question, Copilot!Message
    <2>2. CASE Copilot!Answer(t)
      <3> DEFINE reply == Copilot!Message(t, "assistant",
                               Copilot!AnsweredAt(clock, turn[t].askedAt), turn[t].offers)
      <3>1. reply.offers = turn[t].offers
        BY DEF Copilot!Message
      <3>2. rows' = rows \cup {reply, Copilot!Question(t, turn[t].askedAt)}
        BY <2>2 DEF Copilot!Answer
      <3> HIDE DEF reply
      <3> QED
        BY <2>1, <3>1, <3>2 DEF RowsFrom
    <2>3. CASE rows' \in {rows, rows \cup {Copilot!Question(t, clock)}}
      BY <2>1, <2>3 DEF RowsFrom
    <2>4. Copilot!Answer(t) \/ rows' \in {rows, rows \cup {Copilot!Question(t, clock)}}
      BY Zenon DEF Copilot!Read, Copilot!Ask, Copilot!Inform, Copilot!Fail, Copilot!Tell
    <2> QED
      BY <2>2, <2>3, <2>4
  <1>4. TurnsFrom
    <2>1. ASSUME NEW r, turn' = [turn EXCEPT ![t] = r], r.offers \in {turn[t].offers, {}},
                 r.conversation \in {turn[t].conversation, rows, {}}
          PROVE  TurnsFrom
      BY <2>1 DEF TurnsInv, TurnsFrom
    <2>2. ASSUME NEW part \in turn[t].left, Copilot!Read(t, part)
          PROVE  TurnsFrom
      <3>1. PICK w : w = Copilot!With(turn[t].view, part)
        OBVIOUS
      <3>2. PICK r : r = [turn[t] EXCEPT !.left = turn[t].left \ {part}, !.view = w]
        OBVIOUS
      <3>3. turn' = [turn EXCEPT ![t].left = turn[t].left \ {part}, ![t].view = w]
        BY <2>2, <3>1, Zenon DEF Copilot!Read
      <3>4. turn' = [turn EXCEPT ![t] = r]
        BY <3>2, <3>3 DEF TurnsInv
      <3> QED
        BY <2>1, <3>2, <3>4 DEF TurnsInv, Staged, Copilot!Unsent
    <2>3. CASE Copilot!Ask(t)
      BY <2>3 DEF Copilot!Ask, TurnsInv, Staged, Copilot!Unsent, TurnsFrom
    <2>4. CASE Copilot!Inform(t)
      BY <2>4 DEF Copilot!Inform, TurnsInv, Staged, Copilot!Unsent, TurnsFrom
    <2>5. CASE Copilot!Fail(t)
      BY <2>5 DEF Copilot!Fail, TurnsInv, Copilot!Unsent, TurnsFrom
    <2>6. CASE Copilot!Answer(t)
      <3>1. turn' = [turn EXCEPT ![t] = [Copilot!Unsent EXCEPT !.step = "stored"]]
        BY <2>6, Zenon DEF Copilot!Answer
      <3> QED
        BY <3>1 DEF TurnsInv, Copilot!Unsent, TurnsFrom
    <2>7. CASE Copilot!Tell(t)
      BY <2>7 DEF Copilot!Tell, TurnsInv, Staged, Copilot!Unsent, TurnsFrom
    <2> QED
      BY <2>2, <2>3, <2>4, <2>5, <2>6, <2>7
  <1> QED
    BY <1>2, <1>3, <1>4

LEMMA RespondFlow ==
    ASSUME Shaped, TurnsInv, NEW t \in Turns, NEW S \in Drafts, Copilot!Respond(t, S),
           NEW o, Known(o)'
    PROVE  Known(o) \/ o \in Copilot!Offers(turn[t].view, S)
  <1>1. UNCHANGED <<page, sent, rows>>
    BY Zenon DEF Copilot!Respond, Copilot!ServerStep
  <1>2. PICK new : new = Copilot!Offers(turn[t].view, S)
    OBVIOUS
  <1>3. turn' = [turn EXCEPT ![t] = [Copilot!Unsent EXCEPT !.step = "answered",
                                        !.askedAt = turn[t].askedAt, !.offers = new]]
    BY <1>2, Zenon DEF Copilot!Respond
  <1>4. \A u \in Turns : /\ turn'[u].offers \in {turn[u].offers, new}
                         /\ turn'[u].conversation \in {turn[u].conversation, {}}
    BY <1>3 DEF TurnsInv, Copilot!Unsent
  <1> QED
    BY <1>1, <1>2, <1>4 DEF Known, Said

LEMMA SendReceiveFlow ==
    ASSUME Shaped, TurnsInv, NEW t \in Turns, Copilot!Send(t) \/ Copilot!Receive(t)
    PROVE  Shaped' /\ TurnsFrom /\ RowsFrom /\ ShownFrom /\ LoadedFrom /\ SentFrom
  <1>1. UNCHANGED <<rows, sent>> /\ moves' \in {moves, moves + 1}
    BY Zenon DEF Copilot!Send, Copilot!Receive
  <1>2. CASE Copilot!Send(t)
    <2>1. TurnsFrom
      BY <1>2 DEF Copilot!Send, TurnsInv, Staged, Copilot!Unsent, TurnsFrom
    <2>2. Copilot!Optimistic(t).offers = {}
      BY DEF Copilot!Optimistic, Copilot!Message
    <2>3. /\ DOMAIN page' = DOMAIN page /\ page'.load = page.load
          /\ page'.shown \in {page.shown, page.shown \cup {Copilot!Optimistic(t)}}
      BY <1>2 DEF Copilot!Send, Shaped
    <2>4. Shaped'
      BY <1>1, <2>3 DEF Shaped
    <2> QED
      BY <1>1, <2>1, <2>2, <2>3, <2>4 DEF RowsFrom, ShownFrom, LoadedFrom, SentFrom
  <1>3. CASE Copilot!Receive(t)
    <2>1. TurnsFrom
      BY <1>3 DEF Copilot!Receive, TurnsInv, Copilot!Unsent, TurnsFrom
    <2>2. /\ DOMAIN page' = DOMAIN page /\ page'.load = page.load
          /\ page'.shown = turn[t].conversation
      BY <1>3 DEF Copilot!Receive, Shaped
    <2>3. Shaped'
      BY <1>1, <2>2 DEF Shaped
    <2> QED
      BY <1>1, <2>1, <2>2, <2>3 DEF RowsFrom, ShownFrom, LoadedFrom, SentFrom
  <1> QED
    BY <1>2, <1>3

LEMMA ApplyFlow ==
    ASSUME Shaped, NEW offer \in Copilot!Offered, Copilot!Apply(offer)
    PROVE  Shaped' /\ TurnsFrom /\ RowsFrom /\ ShownFrom /\ LoadedFrom /\ SentFrom
  <1>1. PICK c : c = Copilot!Command(offer)
    OBVIOUS
  <1>2. c.nr = moves /\ c.offer = offer
        /\ DOMAIN c = {"nr", "offer", "layout", "step", "left", "view"}
    BY <1>1 DEF Copilot!Command
  <1>3. /\ UNCHANGED <<rows, turn>> /\ moves' = moves + 1
        /\ sent' = sent \cup {c} /\ page' = [page EXCEPT !.acting = TRUE]
    BY <1>1, Zenon DEF Copilot!Apply
  <1>4. /\ DOMAIN page' = DOMAIN page /\ page'.load = page.load /\ page'.shown = page.shown
    BY <1>3 DEF Shaped
  <1>5. Shaped'
    BY <1>2, <1>3, <1>4 DEF Shaped
  <1>6. \E m \in page.shown : offer \in m.offers
    BY DEF Copilot!Offered
  <1> QED
    BY <1>2, <1>3, <1>4, <1>5, <1>6 DEF TurnsFrom, RowsFrom, ShownFrom, LoadedFrom, SentFrom

\* A command goes on, and keeps its number and its suggestion.
LEMMA CommandKept ==
    ASSUME Shaped, NEW c \in sent, NEW d, sent' = (sent \ {c}) \cup {d},
           DOMAIN d = DOMAIN c, d.nr = c.nr, d.offer = c.offer,
           UNCHANGED <<rows, turn, page, moves>>
    PROVE  Shaped' /\ TurnsFrom /\ RowsFrom /\ ShownFrom /\ LoadedFrom /\ SentFrom
  <1>1. Shaped'
    BY DEF Shaped
  <1> QED
    BY <1>1 DEF TurnsFrom, RowsFrom, ShownFrom, LoadedFrom, SentFrom

LEMMA CommandFlow ==
    ASSUME Shaped, NEW c \in sent,
           \/ Copilot!Perform(c) \/ Copilot!Finish(c) \/ Copilot!Drop(c)
           \/ \E part \in c.left : Copilot!ReadAnew(c, part)
    PROVE  Shaped' /\ TurnsFrom /\ RowsFrom /\ ShownFrom /\ LoadedFrom /\ SentFrom
  <1>1. CASE Copilot!Perform(c)
    <2>1. PICK d : d = Copilot!Done(c)
      OBVIOUS
    <2>2. DOMAIN d = DOMAIN c /\ d.nr = c.nr /\ d.offer = c.offer
      BY <2>1 DEF Copilot!Done, Shaped
    <2>3. sent' = (sent \ {c}) \cup {d} /\ UNCHANGED <<rows, turn, page, moves>>
      BY <1>1, <2>1, Zenon DEF Copilot!Perform
    <2> QED
      BY <2>2, <2>3, CommandKept
  <1>2. ASSUME NEW part \in c.left, Copilot!ReadAnew(c, part)
        PROVE  Shaped' /\ TurnsFrom /\ RowsFrom /\ ShownFrom /\ LoadedFrom /\ SentFrom
    <2>1. PICK w : w = Copilot!With(c.view, part)
      OBVIOUS
    <2>2. PICK d : d = [c EXCEPT !.left = c.left \ {part}, !.view = w]
      OBVIOUS
    <2>3. DOMAIN d = DOMAIN c /\ d.nr = c.nr /\ d.offer = c.offer
      BY <2>2 DEF Shaped
    <2>4. sent' = (sent \ {c}) \cup {d} /\ UNCHANGED <<rows, turn, page, moves>>
      BY <1>2, <2>1, <2>2, Zenon DEF Copilot!ReadAnew
    <2> QED
      BY <2>3, <2>4, CommandKept
  <1>3. ASSUME UNCHANGED <<rows, turn, moves>>, sent' = sent \ {c}, DOMAIN page' = DOMAIN page,
               page'.load = page.load, page'.shown = page.shown
        PROVE  Shaped' /\ TurnsFrom /\ RowsFrom /\ ShownFrom /\ LoadedFrom /\ SentFrom
    <2>1. Shaped'
      BY <1>3 DEF Shaped
    <2> QED
      BY <1>3, <2>1 DEF TurnsFrom, RowsFrom, ShownFrom, LoadedFrom, SentFrom
  <1>4. CASE Copilot!Finish(c)
    <2>1. UNCHANGED <<rows, turn, moves>> /\ sent' = sent \ {c}
      BY <1>4, Zenon DEF Copilot!Finish
    <2>2. DOMAIN page' = DOMAIN page /\ page'.load = page.load /\ page'.shown = page.shown
      BY <1>4 DEF Copilot!Finish, Shaped
    <2> QED
      BY <1>3, <2>1, <2>2
  <1>5. CASE Copilot!Drop(c)
    BY <1>3, <1>5 DEF Copilot!Drop, Shaped
  <1> QED
    BY <1>1, <1>2, <1>4, <1>5

------------------------------------------------------------------------------
(* QuoteCopilot: what a suggestion that is kept says *)

\* A decision it names is one the model was shown, which may have been replaced
\* since; it can be excluded, or a product is proposed for it.
Sound(o) ==
    /\ o.what.kind \in {"select_scenario", "set_quantity"} \cup Copilot!OfMatch
    /\ o.what.kind \in Copilot!OfMatch =>
          /\ o.what.of[1] \in Lines
          /\ o.what.of[2] = o.shown.id
          /\ Past(o.what.of[1], o.shown)
          /\ o.what.kind = "include_line" => o.what.amount = "candidate"
          /\ o.what.kind = "exclude_line" => o.shown.status # "EXCLUDED"

OffersInv == Shaped /\ TurnsInv /\ \A o : Known(o) => Sound(o)

LEMMA OfferSound ==
    ASSUME TurnsInv, NEW t \in Turns, NEW S \in Drafts, NEW o \in Copilot!Offers(turn[t].view, S)
    PROVE  Sound(o)
  <1>1. PICK v : v = turn[t].view
    OBVIOUS
  <1>2. PICK s \in S : Copilot!Valid(v, s) /\ o = Copilot!Offer(v, s)
    BY <1>1, Zenon DEF Copilot!Offers
  <1>3. Copilot!IsSuggestion(s)
    BY CopilotAssumption
  <1>4. o.what = s
        /\ (s.kind \in Copilot!OfMatch => o.shown = v.lines[s.of[1]].match)
    BY <1>2, Zenon DEF Copilot!Offer
  <1>5. s.kind \in {"select_scenario", "set_quantity"} \cup Copilot!OfMatch
    BY <1>3 DEF Copilot!IsSuggestion
  <1>6. ASSUME s.kind \in Copilot!OfMatch
        PROVE  /\ s.of[1] \in Lines /\ s.of[2] = v.lines[s.of[1]].match.id
               /\ s.kind = "include_line" => s.amount = "candidate"
               /\ s.kind = "exclude_line" => v.lines[s.of[1]].match.status # "EXCLUDED"
    <2>1. Copilot!Names(v, s)
      BY <1>2 DEF Copilot!Valid
    <2>2. CASE s.kind = "include_line"
      <3>1. PICK l \in Copilot!Ready(v) : s.of = <<l, v.lines[l].match.id>>
        BY <2>1, <2>2 DEF Copilot!Names, Copilot!Matched
      <3>2. s.amount = "candidate"
        BY <2>1, <2>2 DEF Copilot!Names
      <3> QED
        BY <2>2, <3>1, <3>2 DEF Copilot!Ready, Copilot!Selected
    <2>3. CASE s.kind = "exclude_line"
      <3>1. PICK l \in Copilot!Editable(v) : s.of = <<l, v.lines[l].match.id>>
        BY <2>1, <2>3 DEF Copilot!Names, Copilot!Matched
      <3> QED
        BY <2>3, <3>1 DEF Copilot!Editable, Copilot!Ready, Copilot!Selected, Copilot!WithStatus
    <2> QED
      BY <1>6, <2>2, <2>3 DEF Copilot!OfMatch
  <1>7. \A l \in Lines : Past(l, v.lines[l].match)
    BY <1>1 DEF TurnsInv, Seen
  <1> QED
    BY <1>4, <1>5, <1>6, <1>7 DEF Sound

LEMMA SoundStays ==
    ASSUME Committed, Committed', Forward, NEW o, Sound(o)
    PROVE  Sound(o)'
  <1>1. o.what.kind \in Copilot!OfMatch => Past(o.what.of[1], o.shown)'
    BY PastStays DEF Sound
  <1> QED
    BY <1>1 DEF Sound

\* A command replaces a decision of a line, sets whether it is blocked, or selects.
LEMMA PerformForward ==
    ASSUME OffersInv, NEW c \in sent, Copilot!Perform(c)
    PROVE  Committed' /\ Forward
  <1>1. PICK s : s = c.offer.what
    OBVIOUS
  <1>2. Sound(c.offer) /\ Committed
    BY DEF OffersInv, TurnsInv, Known
  <1>3. \/ s.of \in Copilot!Layouts /\ quotation' = [quotation EXCEPT !.selected = s.of]
        \/ /\ s.kind \in Copilot!OfMatch
           /\ quotation' = Copilot!Decided(s.of[1], IF s.kind = "include_line" THEN "RESOLVED"
                                                                              ELSE "EXCLUDED")
        \/ /\ s.of \in Copilot!Selected(quotation)
           /\ \E b \in BOOLEAN : quotation' = [quotation EXCEPT !.lines[s.of].blocked = b]
    BY <1>1, Zenon DEF Copilot!Perform, Copilot!Effect
  <1>4. s.kind \in Copilot!OfMatch => s.of[1] \in Lines
    BY <1>1, <1>2 DEF Sound
  <1>5. Copilot!Selected(quotation) \subseteq Lines
    BY DEF Copilot!Selected
  <1> QED
    BY <1>2, <1>3, <1>4, <1>5, DecidedForward, BlockedForward, StageForward

\* The steps of Copilot!Next, by what they do to suggestions.
LEMMA CopilotSteps ==
    ASSUME [Copilot!Next]_(Copilot!vars)
    PROVE  \/ Copilot!MoveOn \/ Copilot!SetClock \/ UNCHANGED Copilot!vars
           \/ \E t \in Turns : Copilot!Stream(t) \/ Copilot!Break(t)
           \/ Copilot!Load \/ Copilot!Show
           \/ \E part \in page.load.left : Copilot!LoadPart(part)
           \/ \E t \in Turns :
                  \/ \E part \in turn[t].left : Copilot!Read(t, part)
                  \/ Copilot!Ask(t) \/ Copilot!Inform(t) \/ Copilot!Fail(t)
                  \/ Copilot!Answer(t) \/ Copilot!Tell(t)
           \/ \E t \in Turns, S \in Drafts : Copilot!Respond(t, S)
           \/ \E t \in Turns : Copilot!Send(t) \/ Copilot!Receive(t)
           \/ \E offer \in Copilot!Offered : Copilot!Apply(offer)
           \/ \E c \in sent : \/ Copilot!Perform(c) \/ Copilot!Finish(c) \/ Copilot!Drop(c)
                              \/ \E part \in c.left : Copilot!ReadAnew(c, part)
  BY DEF Copilot!Next

LEMMA CopilotForward ==
    ASSUME OffersInv, [Copilot!Next]_(Copilot!vars)
    PROVE  Committed' /\ Forward
  <1>1. \/ Copilot!MoveOn \/ \E c \in sent : Copilot!Perform(c)
        \/ UNCHANGED quotation
    <2>1. ASSUME \/ Copilot!SetClock \/ UNCHANGED Copilot!vars
                 \/ \E t \in Turns : Copilot!Stream(t) \/ Copilot!Break(t)
                 \/ Copilot!Load \/ Copilot!Show
                 \/ \E part \in page.load.left : Copilot!LoadPart(part)
          PROVE  UNCHANGED quotation
      BY <2>1, Zenon DEF Copilot!SetClock, Copilot!vars, Copilot!Stream, Copilot!Break,
                         Copilot!Load, Copilot!Show, Copilot!LoadPart
    <2>2. ASSUME NEW t \in Turns,
                 \/ \E part \in turn[t].left : Copilot!Read(t, part)
                 \/ Copilot!Ask(t) \/ Copilot!Inform(t) \/ Copilot!Fail(t)
                 \/ Copilot!Answer(t) \/ Copilot!Tell(t)
                 \/ \E S \in Drafts : Copilot!Respond(t, S)
                 \/ Copilot!Send(t) \/ Copilot!Receive(t)
          PROVE  UNCHANGED quotation
      BY <2>2, Zenon DEF Copilot!Read, Copilot!Ask, Copilot!Inform, Copilot!Fail,
                         Copilot!Answer, Copilot!Tell, Copilot!Respond, Copilot!Send,
                         Copilot!Receive, Copilot!ServerStep
    <2>3. ASSUME \/ \E offer \in Copilot!Offered : Copilot!Apply(offer)
                 \/ \E c \in sent : \/ Copilot!Finish(c) \/ Copilot!Drop(c)
                                    \/ \E part \in c.left : Copilot!ReadAnew(c, part)
          PROVE  UNCHANGED quotation
      BY <2>3, Zenon DEF Copilot!Apply, Copilot!Finish, Copilot!Drop, Copilot!ReadAnew
    <2> QED
      BY CopilotSteps, <2>1, <2>2, <2>3
  <1> QED
    BY <1>1, MoveOnForward, PerformForward, StageForward DEF OffersInv, TurnsInv

LEMMA CopilotTurns ==
    ASSUME OffersInv, [Copilot!Next]_(Copilot!vars)
    PROVE  TurnsInv'
  <1>1. Committed' /\ Forward
    BY CopilotForward
  <1>2. CASE OutsideTurns \/ UNCHANGED Copilot!vars
    <2>1. UNCHANGED turn
      BY <1>2, OutsideKeeps DEF Copilot!vars
    <2> QED
      BY <1>1, <2>1, WorkflowTurns DEF OffersInv
  <1>3. ASSUME NEW t \in Turns,
               \/ \E part \in turn[t].left : Copilot!Read(t, part)
               \/ Copilot!Ask(t) \/ Copilot!Inform(t) \/ Copilot!Fail(t)
               \/ Copilot!Answer(t) \/ Copilot!Tell(t)
               \/ \E S \in Drafts : Copilot!Respond(t, S)
               \/ Copilot!Send(t) \/ Copilot!Receive(t)
        PROVE  TurnsInv'
    BY <1>3, SendTurns, ReadTurns, AskTurns, InformTurns, TurnEnds DEF OffersInv
  <1>4. \/ OutsideTurns \/ UNCHANGED Copilot!vars
        \/ \E t \in Turns :
              \/ \E part \in turn[t].left : Copilot!Read(t, part)
              \/ Copilot!Ask(t) \/ Copilot!Inform(t) \/ Copilot!Fail(t)
              \/ Copilot!Answer(t) \/ Copilot!Tell(t)
              \/ \E S \in Drafts : Copilot!Respond(t, S)
              \/ Copilot!Send(t) \/ Copilot!Receive(t)
    BY DEF Copilot!Next, OutsideTurns
  <1> QED
    BY <1>2, <1>3, <1>4

LEMMA OffersInit ==
    ASSUME Copilot!Init
    PROVE  OffersInv
  <1>1. Committed
    BY CopilotAssumption DEF Copilot!Init, Committed
  <1>2. Shaped
    BY DEF Copilot!Init, Shaped
  <1>3. turn = [t \in Turns |-> Copilot!Unsent]
    BY DEF Copilot!Init
  <1>4. ASSUME NEW t \in Turns
        PROVE  Seen(t) /\ Staged(t)
    <2>1. Copilot!Unread \in Copilot!Views
      BY DEF Copilot!Unread, Copilot!Views, Copilot!Match, Copilot!NoDecision
    <2>2. \A l \in Lines : Past(l, Copilot!NoDecision)
      BY <1>1 DEF Committed, Copilot!Consistent, Copilot!Views, Copilot!Match, Past,
                  Copilot!NoDecision
    <2>3. turn[t] = Copilot!Unsent
      BY <1>3
    <2>4. turn[t].view = Copilot!Unread
      BY <2>3 DEF Copilot!Unsent
    <2>5. Seen(t)
      BY <2>1, <2>2, <2>4 DEF Seen, Copilot!Unread
    <2>6. Staged(t)
      BY <1>1, <2>3 DEF Staged, Copilot!Unsent, Copilot!Stage, Committed, Copilot!Views
    <2> QED
      BY <2>5, <2>6
  <1>5. ASSUME NEW o
        PROVE  ~Known(o)
    BY DEF Copilot!Init, Known, Said, Copilot!Unsent, Copilot!Idle
  <1> QED
    BY <1>1, <1>2, <1>3, <1>4, <1>5 DEF OffersInv, TurnsInv

LEMMA OffersNext ==
    ASSUME OffersInv, [Copilot!Next]_(Copilot!vars)
    PROVE  OffersInv'
  <1>1. TurnsInv' /\ Committed' /\ Forward
    BY CopilotTurns, CopilotForward
  <1>2. CASE Shaped' /\ TurnsFrom /\ RowsFrom /\ ShownFrom /\ LoadedFrom /\ SentFrom
    <2>1. ASSUME NEW o, Known(o)'
          PROVE  Sound(o)'
      BY <1>1, <1>2, <2>1, NothingNew, SoundStays DEF OffersInv, TurnsInv
    <2> QED
      BY <1>1, <1>2, <2>1 DEF OffersInv
  <1>3. ASSUME NEW t \in Turns, NEW S \in Drafts, Copilot!Respond(t, S)
        PROVE  OffersInv'
    <2>1. Shaped'
      <3>1. UNCHANGED <<page, sent, moves>>
        BY <1>3, Zenon DEF Copilot!Respond, Copilot!ServerStep
      <3> QED
        BY <3>1 DEF OffersInv, Shaped
    <2>2. ASSUME NEW o, Known(o)'
          PROVE  Sound(o)'
      <3>1. Known(o) \/ o \in Copilot!Offers(turn[t].view, S)
        BY <1>3, <2>2, RespondFlow DEF OffersInv
      <3>2. Sound(o)
        BY <3>1, OfferSound DEF OffersInv
      <3> QED
        BY <1>1, <3>2, SoundStays DEF OffersInv, TurnsInv
    <2> QED
      BY <1>1, <2>1, <2>2 DEF OffersInv
  <1> QED
    BY <1>2, <1>3, CopilotSteps, WorkflowFlow, PageFlow, ServerFlow, SendReceiveFlow,
       ApplyFlow, CommandFlow DEF OffersInv

------------------------------------------------------------------------------
(* QuoteCopilot: what the invariants say *)

\* Two packages work out the same step of the same quotation.
LEMMA StepsAgree ==
    ASSUME NEW v \in Copilot!Views,
           \A l \in Lines : v.lines[l].match.id = 0 => v.lines[l].match = Copilot!NoDecision
    PROVE  Copilot!AgentStep(v) = Copilot!Named(Copilot!PageStep(v))
  <1> DEFINE pending  == Copilot!WithStatus(v, "PENDING")
             resolved == Copilot!WithStatus(v, "RESOLVED")
             excluded == Copilot!WithStatus(v, "EXCLUDED")
             ready    == Copilot!Ready(v)
             blocked  == Copilot!Blocked(v)
             sel      == Copilot!Selected(v)
  <1>1. /\ \A l \in sel : /\ v.lines[l].match.id \in Nat
                          /\ v.lines[l].match.status \in {"PENDING", "RESOLVED", "EXCLUDED"}
                          /\ v.lines[l].match.id = 0 => v.lines[l].match.status = "PENDING"
        /\ pending = {l \in sel : v.lines[l].match.status = "PENDING"}
        /\ resolved = {l \in sel : v.lines[l].match.status = "RESOLVED"}
        /\ excluded = {l \in sel : v.lines[l].match.status = "EXCLUDED"}
        /\ ready = {l \in sel : v.lines[l].match.id > 0}
    BY DEF Copilot!WithStatus, Copilot!Ready, Copilot!Selected, Copilot!Views, Copilot!Match,
           Copilot!NoDecision
  <1> HIDE DEF pending, resolved, excluded, ready, sel, blocked
  <1>2. sel # ready => pending # {}
    BY <1>1
  <1>3. sel = ready => ready \cap pending = pending /\ ready \cap resolved = resolved
    BY <1>1
  <1>4. sel = ready /\ pending = {} => (ready \ excluded) \cap blocked = resolved \cap blocked
    BY <1>1
  <1>5. Copilot!AgentStep(v) =
            IF v.order THEN "purchase_order_issued"
            ELSE IF v.decision THEN "decision"
            ELSE IF v.negotiation THEN "negotiation"
            ELSE IF v.selected = Copilot!None THEN "scenario_selection"
            ELSE IF pending # {} \/ resolved = {} THEN "product_matching"
            ELSE IF resolved \cap blocked # {} THEN "commercial_review"
            ELSE "prepare_negotiation"
    BY Zenon DEF Copilot!AgentStep, pending, resolved, blocked
  <1>6. Copilot!PageStep(v) =
            IF v.order THEN "Purchase order issued"
            ELSE IF v.decision THEN "Decision"
            ELSE IF v.negotiation THEN "Negotiation"
            ELSE IF v.selected = Copilot!None THEN "Spreadsheet layout"
            ELSE IF sel # ready THEN "Catalog matching"
            ELSE IF ready \cap pending # {} \/ ready \cap resolved = {} THEN "Product matching"
            ELSE IF (ready \ excluded) \cap blocked # {} THEN "Commercial review"
            ELSE "Negotiation setup"
    BY Zenon DEF Copilot!PageStep, Copilot!MatchingPending, Copilot!CommercialReview,
                 pending, resolved, excluded, ready, blocked, sel
  <1> DEFINE before == ~v.order /\ ~v.decision /\ ~v.negotiation /\ v.selected # Copilot!None
             some   == pending = {} /\ resolved # {}
  <1>7. CASE ~before
    BY <1>5, <1>6, <1>7, Zenon DEF Copilot!Named
  <1>8. CASE before /\ ~some
    <2>1. Copilot!PageStep(v) \in {"Catalog matching", "Product matching"}
      BY <1>2, <1>3, <1>6, <1>8, Zenon
    <2> QED
      BY <1>5, <1>8, <2>1, Zenon DEF Copilot!Named
  <1>9. CASE before /\ some
    <2>1. sel = ready /\ ready \cap pending = {} /\ ready \cap resolved # {}
      BY <1>2, <1>3, <1>9, Zenon
    <2>2. Copilot!PageStep(v) = IF resolved \cap blocked # {} THEN "Commercial review"
                                                            ELSE "Negotiation setup"
      BY <1>4, <1>6, <1>9, <2>1, Zenon
    <2>3. Copilot!AgentStep(v) = IF resolved \cap blocked # {} THEN "commercial_review"
                                                             ELSE "prepare_negotiation"
      BY <1>5, <1>9, Zenon
    <2> QED
      BY <2>2, <2>3, Zenon DEF Copilot!Named
  <1> QED
    BY <1>7, <1>8, <1>9

LEMMA ToldAStage ==
    ASSUME OffersInv
    PROVE  Copilot!ToldAStageThatWas
  <1>1. SUFFICES ASSUME NEW t \in Turns, turn[t].step = "informed"
                 PROVE  /\ turn[t].since <= Copilot!StageTold(turn[t].told)
                        /\ Copilot!StageTold(turn[t].told) <= Copilot!Stage(quotation)
                        /\ turn[t].told = Copilot!Named(Copilot!PageStep(turn[t].view))
    BY DEF Copilot!ToldAStageThatWas, Copilot!At
  <1>2. PICK v : v = turn[t].view
    OBVIOUS
  <1>3. Seen(t) /\ Staged(t) /\ Committed
    BY DEF OffersInv, TurnsInv
  <1>4. turn[t].told = Copilot!AgentStep(v) /\ turn[t].since <= Copilot!Stage(v)
    BY <1>1, <1>2, <1>3 DEF Staged
  <1>5. v \in Copilot!Views
    BY <1>2, <1>3 DEF Seen
  <1>6. Copilot!StageTold(Copilot!AgentStep(v)) = Copilot!Stage(v)
    BY <1>5 DEF Copilot!StageTold, Copilot!AgentStep, Copilot!Stage, Copilot!Views
  <1>7. Copilot!Stage(v) <= Copilot!Stage(quotation)
    BY <1>2, <1>3, <1>5 DEF Seen, Committed, Copilot!Consistent, Copilot!Stage, Copilot!Views
  <1>8. Copilot!AgentStep(v) = Copilot!Named(Copilot!PageStep(v))
    BY <1>2, <1>3, <1>5, StepsAgree DEF Seen
  <1> QED
    BY <1>2, <1>4, <1>6, <1>7, <1>8

\* The step in which a command takes effect is the command's own.
LEMMA PerformedIsPerform ==
    ASSUME OffersInv, [Copilot!Next]_(Copilot!vars), NEW c \in sent, Copilot!Performed(c)
    PROVE  Copilot!Perform(c)
  <1>1. PICK e : e = Copilot!Done(c)
    OBVIOUS
  <1>2. c.step = "sent" /\ e \in sent'
    BY <1>1 DEF Copilot!Performed
  <1>3. /\ DOMAIN c = {"nr", "offer", "layout", "step", "left", "view"}
        /\ c.nr \in Nat /\ c.nr < moves /\ moves \in Nat
        /\ \A d \in sent : d.nr = c.nr => d = c
    BY DEF OffersInv, Shaped
  <1>4. e.nr = c.nr /\ e.step = "done"
    BY <1>1, <1>3 DEF Copilot!Done
  <1>5. e \notin sent
    BY <1>2, <1>3, <1>4
  <1>6. ASSUME NEW offer \in Copilot!Offered, Copilot!Apply(offer)
        PROVE  FALSE
    <2>1. sent' = sent \cup {Copilot!Command(offer)}
      BY <1>6 DEF Copilot!Apply
    <2>2. Copilot!Command(offer).nr = moves
      BY DEF Copilot!Command
    <2> QED
      BY <1>2, <1>3, <1>4, <1>5, <2>1, <2>2
  <1>7. ASSUME NEW d \in sent, NEW part \in d.left, Copilot!ReadAnew(d, part)
        PROVE  FALSE
    <2>1. PICK w : w = Copilot!With(d.view, part)
      OBVIOUS
    <2>2. PICK f : f = [d EXCEPT !.left = d.left \ {part}, !.view = w]
      OBVIOUS
    <2>3. sent' = (sent \ {d}) \cup {f}
      BY <1>7, <2>1, <2>2, Zenon DEF Copilot!ReadAnew
    <2>4. f.nr = d.nr /\ f.step = d.step
      BY <2>2 DEF OffersInv, Shaped
    <2> QED
      BY <1>2, <1>3, <1>4, <1>5, <2>3, <2>4
  <1>8. ASSUME NEW d \in sent, Copilot!Perform(d)
        PROVE  d = c
    <2>1. sent' = (sent \ {d}) \cup {Copilot!Done(d)}
      BY <1>8 DEF Copilot!Perform
    <2>2. Copilot!Done(d).nr = d.nr
      BY DEF Copilot!Done, OffersInv, Shaped
    <2> QED
      BY <1>2, <1>3, <1>4, <1>5, <2>1, <2>2
  <1>9. ASSUME NEW d \in sent, Copilot!Finish(d) \/ Copilot!Drop(d)
        PROVE  FALSE
    BY <1>2, <1>5, <1>9, Zenon DEF Copilot!Finish, Copilot!Drop
  <1>10. ASSUME UNCHANGED sent
         PROVE  FALSE
    BY <1>2, <1>5, <1>10
  <1>11. \/ UNCHANGED sent
         \/ \E offer \in Copilot!Offered : Copilot!Apply(offer)
         \/ \E d \in sent : \/ Copilot!Perform(d) \/ Copilot!Finish(d) \/ Copilot!Drop(d)
                            \/ \E part \in d.left : Copilot!ReadAnew(d, part)
    <2>1. ASSUME NEW t \in Turns,
                 \/ \E part \in turn[t].left : Copilot!Read(t, part)
                 \/ Copilot!Ask(t) \/ Copilot!Inform(t) \/ Copilot!Fail(t)
                 \/ Copilot!Answer(t) \/ Copilot!Tell(t)
                 \/ \E S \in Drafts : Copilot!Respond(t, S)
                 \/ Copilot!Send(t) \/ Copilot!Receive(t)
          PROVE  UNCHANGED sent
      BY <2>1, Zenon DEF Copilot!Read, Copilot!Ask, Copilot!Inform, Copilot!Fail,
                         Copilot!Answer, Copilot!Tell, Copilot!Respond, Copilot!Send,
                         Copilot!Receive, Copilot!ServerStep
    <2>2. ASSUME \/ Copilot!MoveOn \/ Copilot!SetClock \/ UNCHANGED Copilot!vars
                 \/ \E t \in Turns : Copilot!Stream(t) \/ Copilot!Break(t)
                 \/ Copilot!Load \/ Copilot!Show
                 \/ \E part \in page.load.left : Copilot!LoadPart(part)
          PROVE  UNCHANGED sent
      BY <2>2, Zenon DEF Copilot!MoveOn, Copilot!SetClock, Copilot!vars, Copilot!Stream,
                         Copilot!Break, Copilot!Load, Copilot!Show, Copilot!LoadPart
    <2> QED
      BY CopilotSteps, <2>1, <2>2
  <1> QED
    BY <1>6, <1>7, <1>8, <1>9, <1>10, <1>11

LEMMA AppliesTrue ==
    ASSUME OffersInv, [Copilot!Next]_(Copilot!vars)
    PROVE  Copilot!AppliesToWhatWasShown
  <1>1. PICK decisive : decisive = Copilot!OfMatch
    OBVIOUS
  <1>2. SUFFICES ASSUME NEW c \in sent, Copilot!Performed(c), c.offer.what.kind \in decisive
                 PROVE  LET s == c.offer.what
                        IN /\ quotation.lines[s.of[1]].match = c.offer.shown
                           /\ s.kind = "include_line" => s.amount = "candidate"
                           /\ s.kind = "exclude_line" => c.offer.shown.status # "EXCLUDED"
    BY <1>1, Zenon DEF Copilot!AppliesToWhatWasShown
  <1>3. Sound(c.offer)
    BY DEF OffersInv, Known
  <1>4. Copilot!Perform(c)
    BY <1>2, PerformedIsPerform
  <1>5. Copilot!IsLatest(c.offer.what.of)
    <2>1. c.offer.what.kind \notin {"select_scenario", "set_quantity"}
      BY <1>1, <1>2 DEF Copilot!OfMatch
    <2> QED
      BY <1>4, <2>1, Zenon DEF Copilot!Perform, Copilot!Effect
  <1> QED
    BY <1>1, <1>2, <1>3, <1>5 DEF Sound, Past, Copilot!IsLatest

------------------------------------------------------------------------------
(* QuoteCopilot: the theorems *)

(* Whatever the clock does, and whichever route a turn takes, an answer is *)
(* kept with its question and listed after it                              *)
(* (chat-with-quote-copilot.ts, the listing of repositories/copilot.ts).   *)
THEOREM AnswerAfterQuestion == Spec => []AnswerFollowsQuestion
  <1> DEFINE CopilotRuns == service = "copilot" => Inv
  <1>1. Init => CopilotRuns
    BY InitInv DEF Init
  <1>2. CopilotRuns /\ [Next]_vars => CopilotRuns'
    <2>1. SUFFICES ASSUME CopilotRuns, [Next]_vars, service' = "copilot"
                   PROVE  Inv'
      OBVIOUS
    <2>2. service = "copilot" /\ [Copilot!Next]_(Copilot!vars)
      BY <2>1 DEF Next, vars, copilot, Copilot!vars
    <2> QED
      BY <2>1, <2>2, NextInv
  <1>3. CopilotRuns => AnswerFollowsQuestion
    BY DEF AnswerFollowsQuestion, Inv
  <1> QED
    BY <1>1, <1>2, <1>3, PTL DEF Spec

\* A service that runs takes its own steps.
LEMMA CopilotAlone ==
    ASSUME [Next]_vars, service' = "copilot"
    PROVE  service = "copilot" /\ [Copilot!Next]_(Copilot!vars)
  BY DEF Next, vars, copilot, Copilot!vars

(* The stage the model is told is one at which the workflow was since the   *)
(* turn was sent, although selection, lines, negotiation, decision and      *)
(* orders are read in separate statements, and it is the step a page that   *)
(* read the same would show (chat-with-quote-copilot.ts downstreamContext,  *)
(* quote-copilot-context.ts, workspaceCopilotContext.ts).                   *)
THEOREM ToldTrue == Spec => []ToldAStageThatWas
  <1> DEFINE CopilotRuns == service = "copilot" => OffersInv
  <1>1. Init => CopilotRuns
    BY OffersInit DEF Init
  <1>2. CopilotRuns /\ [Next]_vars => CopilotRuns'
    BY CopilotAlone, OffersNext
  <1>3. CopilotRuns => ToldAStageThatWas
    BY ToldAStage DEF ToldAStageThatWas
  <1> QED
    BY <1>1, <1>2, <1>3, PTL DEF Spec

(* A suggestion to include or exclude a line replaces the very decision the *)
(* model was shown or nothing: for any lines and suggestions, whatever the  *)
(* page shows and whoever decided meanwhile (validCopilotSuggestions,       *)
(* CopilotSuggestionCard, assertLatestMatch).                               *)
THEOREM AppliedTrue == Spec => AppliedAsShown
  <1> DEFINE CopilotRuns == service = "copilot" => OffersInv
  <1>1. Init => CopilotRuns
    BY OffersInit DEF Init
  <1>2. CopilotRuns /\ [Next]_vars => CopilotRuns'
    BY CopilotAlone, OffersNext
  <1>3. CopilotRuns /\ [Next]_vars => [service = "copilot" => Copilot!AppliesToWhatWasShown]_vars
    <2>1. SUFFICES ASSUME CopilotRuns, [Next]_vars, service = "copilot", ~ UNCHANGED vars
                   PROVE  Copilot!AppliesToWhatWasShown
      OBVIOUS
    <2>2. service' = "copilot"
      BY <2>1 DEF Next
    <2> QED
      BY <2>1, <2>2, CopilotAlone, AppliesTrue
  <1> QED
    BY <1>1, <1>2, <1>3, PTL DEF Spec, AppliedAsShown

------------------------------------------------------------------------------
(* CatalogMatcher *)

(* The scores a product that is proposed can have. *)
LEMMA Scores ==
    ASSUME NEW t \in ReviewLines, NEW p \in Matcher!Scored(t)
    PROVE  /\ Reading[t][p] \in {"same", "near", "far"}
           /\ Reading[t][p] = "same" => Matcher!Score(t, p) = 1000
           /\ Reading[t][p] = "near" =>
                  Matcher!Score(t, p) = IF p \in Described[t] THEN 946 ELSE 846
           /\ Reading[t][p] = "far" =>
                  Matcher!Score(t, p) = IF p \in Described[t] THEN 856 ELSE 756
  <1>1. p \in Products /\ Reading[t][p] \in Matcher!Readings /\ Matcher!SkuScore(Reading[t][p]) # 0
    BY ReviewAssumption DEF Matcher!Scored
  <1>2. Reading[t][p] \in {"same", "near", "far"}
    BY <1>1 DEF Matcher!SkuScore, Matcher!Readings
  <1>3. Matcher!SemanticScore(t, p) = IF p \in Described[t] THEN 1000 ELSE 0
    BY DEF Matcher!SemanticScore
  <1>4. CASE Reading[t][p] = "same"
    BY <1>2, <1>4 DEF Matcher!Score
  <1>5. CASE Reading[t][p] = "near"
    <2>1. Matcher!SkuScore(Reading[t][p]) = 940
      BY <1>5 DEF Matcher!SkuScore
    <2>2. Matcher!Score(t, p) = (9 * 940 + Matcher!SemanticScore(t, p)) \div 10
      BY <1>5, <2>1 DEF Matcher!Score
    <2> QED
      BY <1>2, <1>3, <1>5, <2>2
  <1>6. CASE Reading[t][p] = "far"
    <2>1. Matcher!SkuScore(Reading[t][p]) = 840
      BY <1>6 DEF Matcher!SkuScore
    <2>2. Matcher!Score(t, p) = (9 * 840 + Matcher!SemanticScore(t, p)) \div 10
      BY <1>6, <2>1 DEF Matcher!Score
    <2> QED
      BY <1>2, <1>3, <1>6, <2>2
  <1> QED
    BY <1>2, <1>4, <1>5, <1>6

(* The product selected is one the matcher is sure of.                     *)
LEMMA SelectedIsSure ==
    ASSUME NEW t \in ReviewLines, Matcher!Selected(t) \in Products
    PROVE  Matcher!Sure(t, Matcher!Selected(t))
  <1>1. \E p \in Products : Matcher!Sure(t, p)
    BY ReviewAssumption DEF Matcher!Selected
  <1> QED
    BY <1>1 DEF Matcher!Selected

(* No line is decided for the buyer on a guess: the product selected is the *)
(* one named, or the only one that both reads within one edit of the text  *)
(* and is named by the line's description, and no product is named.        *)
THEOREM NoGuess ==
    ASSUME NEW t \in ReviewLines, Matcher!Selected(t) \in Products
    PROVE  LET p == Matcher!Selected(t) IN
           \/ Reading[t][p] = "same"
           \/ /\ Reading[t][p] = "near" /\ p \in Described[t]
              /\ \A q \in Products \ {p} :
                    /\ Reading[t][q] # "same"
                    /\ ~(Reading[t][q] = "near" /\ q \in Described[t])
  <1> DEFINE p == Matcher!Selected(t)
  <1>1. Matcher!Sure(t, p)
    BY SelectedIsSure , ReviewAssumption
  <1>2. p \in Matcher!Scored(t)
    BY <1>1 DEF Matcher!Sure
  <1>3. Matcher!Score(t, p) = 1000 \/ Matcher!Score(t, p) >= 920
    BY <1>1 DEF Matcher!Sure
  <1>4. Reading[t][p] = "same" \/ (Reading[t][p] = "near" /\ p \in Described[t])
    <2> HIDE DEF p
    <2> QED
      BY <1>2, <1>3, Scores
  <1>5. SUFFICES ASSUME Reading[t][p] = "near", p \in Described[t],
                        NEW q \in Products \ {p}
                 PROVE  /\ Reading[t][q] # "same"
                        /\ ~(Reading[t][q] = "near" /\ q \in Described[t])
    BY <1>4
  <1>6. Matcher!Score(t, p) = 946
    <2> HIDE DEF p
    <2> QED
      BY <1>2, <1>5, Scores
  <1>7. ASSUME q \in Matcher!Scored(t)
        PROVE  946 - Matcher!Score(t, q) >= 80
    BY <1>1, <1>6, <1>7 DEF Matcher!Sure
  <1>8. Reading[t][q] \in {"same", "near"} => q \in Matcher!Scored(t)
    BY DEF Matcher!Scored, Matcher!SkuScore
  <1>9. ASSUME Reading[t][q] = "same" \/ (Reading[t][q] = "near" /\ q \in Described[t])
        PROVE  FALSE
    <2>1. q \in Matcher!Scored(t)
      BY <1>8, <1>9
    <2>2. Matcher!Score(t, q) \in {1000, 946}
      BY <1>9, <2>1, Scores
    <2> QED
      BY <1>7, <2>1, <2>2
  <1> QED
    BY <1>9

(* A line that names a product of the catalog is given that product, whatever *)
(* the other products and its description.                                 *)
THEOREM NamedIsSelected ==
    ASSUME NEW t \in ReviewLines, NEW p \in Products,
           Reading[t][p] = "same",
           \A q \in Products \ {p} : Reading[t][q] # "same"
    PROVE  Matcher!Selected(t) = p
  <1>1. p \in Matcher!Scored(t)
    BY DEF Matcher!Scored, Matcher!SkuScore
  <1>2. Matcher!Score(t, p) = 1000
    BY DEF Matcher!Score
  <1>3. ASSUME NEW q \in Matcher!Scored(t) \ {p}
        PROVE  Matcher!Score(t, q) \in {946, 846, 856, 756}
    <2>1. q \in Products \ {p}
      BY DEF Matcher!Scored
    <2> QED
      BY <1>3, <2>1, Scores
  <1>4. Matcher!Sure(t, p)
    <2>1. \A q \in Matcher!Scored(t) \ {p} : Matcher!Precedes(t, p, q)
      BY <1>2, <1>3 DEF Matcher!Precedes
    <2> QED
      BY <1>1, <1>2, <2>1 DEF Matcher!Sure
  <1>5. ASSUME NEW q \in Products, Matcher!Sure(t, q)
        PROVE  q = p
    <2>1. SUFFICES ASSUME q # p
                   PROVE  FALSE
      OBVIOUS
    <2>2. Matcher!Precedes(t, q, p)
      BY <1>1, <1>5, <2>1 DEF Matcher!Sure
    <2>3. Matcher!Score(t, q) \in {946, 846, 856, 756}
      BY <1>3, <1>5, <2>1 DEF Matcher!Sure
    <2> QED
      BY <1>2, <2>2, <2>3 DEF Matcher!Precedes
  <1>6. \E q \in Products : Matcher!Sure(t, q)
    BY <1>4
  <1> QED
    BY <1>5, <1>6 DEF Matcher!Selected

(* The one misreading the matcher corrects is the one it loses: a product whose *)
(* SKU is the text but for one character read as its likeness is neither    *)
(* selected nor proposed, while one two edits away is.                     *)
THEOREM MisreadIsLost ==
    ASSUME NEW t \in ReviewLines, NEW p \in Products, Reading[t][p] = "misread"
    PROVE  p \notin Matcher!Candidates(t) /\ Matcher!Selected(t) # p
  <1>1. p \notin Matcher!Scored(t)
    BY DEF Matcher!Scored, Matcher!SkuScore
  <1>2. p \notin Matcher!Candidates(t)
    BY <1>1 DEF Matcher!Candidates
  <1>3. Matcher!Selected(t) # p
    <2>1. SUFFICES ASSUME Matcher!Selected(t) = p
                   PROVE  FALSE
      OBVIOUS
    <2>2. Matcher!Sure(t, p)
      BY <2>1, SelectedIsSure , ReviewAssumption
    <2> QED
      BY <1>1, <2>2 DEF Matcher!Sure
  <1> QED
    BY <1>2, <1>3

------------------------------------------------------------------------------
(* ReviewPage *)

Reviews == [decision : [ReviewLines -> Buyer!Decisions],
            decided  : [ReviewLines -> Nat],
            quantity : [ReviewLines -> Nat]]

ReviewInv ==
    /\ review \in Reviews /\ shown \in Reviews
    /\ form \in [ReviewLines -> Nat]

Proposed(l) == Matcher!Candidates(l)

LEMMA ProposedAreProducts ==
    ASSUME NEW l \in ReviewLines
    PROVE  Proposed(l) \subseteq Products /\ Matcher!Selected(l) \in Products \cup {NoProduct}
  <1>1. Proposed(l) \subseteq Products
    BY DEF Proposed, Matcher!Candidates, Matcher!Scored
  <1>2. Matcher!Selected(l) \in Products \cup {NoProduct}
    BY DEF Matcher!Selected
  <1> QED
    BY <1>1, <1>2

LEMMA SheetLines ==
    ASSUME NEW l \in ReviewLines
    PROVE  /\ ReviewSheet[l].quantity \in Nat /\ ReviewSheet[l].unitPrice \in BOOLEAN
           /\ ReviewSheet[l].tiers \subseteq Nat /\ 0 \notin ReviewSheet[l].tiers
           /\ ReviewSheet[l].ambiguous \in BOOLEAN
  <1>1. ReviewSheet[l] \in [quantity : Nat, unitPrice : BOOLEAN, tiers : SUBSET (Nat \ {0}),
                            ambiguous : BOOLEAN]
    BY ReviewAssumption DEF Buyer!SheetLine
  <1> QED
    BY <1>1

LEMMA QuantityIsNumber ==
    ASSUME NEW l \in ReviewLines, NEW n \in Nat
    PROVE  Buyer!CommercialQuantity(l, n) \in Nat
  BY SheetLines DEF Buyer!CommercialQuantity

\* A form that is kept, or begun anew, holds numbers.
LEMMA FormIsNumbers ==
    ASSUME ReviewInv, NEW v \in Reviews
    PROVE  /\ Buyer!NoForm \in [ReviewLines -> Nat]
           /\ Buyer!FreshForm(v) \in [ReviewLines -> Nat]
           /\ Buyer!FormAfter(shown, v) \in [ReviewLines -> Nat]
  <1>1. Buyer!NoForm \in [ReviewLines -> Nat]
    BY DEF Buyer!NoForm
  <1>2. Buyer!FreshForm(v) \in [ReviewLines -> Nat]
    BY QuantityIsNumber DEF Buyer!FreshForm, Reviews
  <1> QED
    BY <1>1, <1>2 DEF Buyer!FormAfter, ReviewInv

LEMMA ReviewInit ==
    ASSUME Buyer!Init
    PROVE  ReviewInv
  <1>1. review \in Reviews /\ shown = review
    BY ProposedAreProducts DEF Buyer!Init, Reviews, Buyer!Decisions
  <1>2. Buyer!FreshForm(shown) \in [ReviewLines -> Nat]
    BY <1>1, QuantityIsNumber DEF Buyer!FreshForm, Reviews
  <1> QED
    BY <1>1, <1>2 DEF Buyer!Init, ReviewInv, Buyer!NoForm

LEMMA Decided ==
    ASSUME NEW r \in Reviews, NEW l \in ReviewLines, NEW d \in Buyer!Decisions
    PROVE  Buyer!Decide(r, l, d) \in Reviews
  <1> DEFINE newly   == [r.decision EXCEPT ![l] = d]
             decided == [r.decided EXCEPT ![l] = @ + 1]
  <1>1. newly \in [ReviewLines -> Buyer!Decisions] /\ decided \in [ReviewLines -> Nat]
    BY DEF Reviews
  <1>2. Buyer!Decide(r, l, d) = [r EXCEPT !.decision = newly, !.decided = decided]
    BY DEF Buyer!Decide, Reviews
  <1> HIDE DEF newly, decided
  <1> QED
    BY <1>1, <1>2 DEF Reviews

LEMMA AnsweredKeeps ==
    ASSUME ReviewInv, NEW r \in Reviews, Buyer!Answered(r)
    PROVE  ReviewInv'
  BY FormIsNumbers DEF Buyer!Answered, ReviewInv

LEMMA ReviewElsewhere ==
    ASSUME ReviewInv, Buyer!Elsewhere
    PROVE  ReviewInv'
  <1>1. PICK l \in ReviewLines :
           \/ \E p \in Proposed(l) : review' = Buyer!Decide(review, l, p)
           \/ review' = Buyer!Decide(review, l, Excluded)
           \/ \E n \in Typed \ {0} : review' = [review EXCEPT !.quantity[l] = n]
    BY DEF Buyer!Elsewhere, Proposed
  <1>2. CASE \E p \in Proposed(l) : review' = Buyer!Decide(review, l, p)
    BY <1>2, ProposedAreProducts, Decided DEF Buyer!Elsewhere, ReviewInv, Buyer!Decisions
  <1>3. CASE review' = Buyer!Decide(review, l, Excluded)
    BY <1>3, Decided DEF Buyer!Elsewhere, ReviewInv, Buyer!Decisions
  <1>4. ASSUME NEW n \in Typed, review' = [review EXCEPT !.quantity[l] = n]
        PROVE  ReviewInv'
    BY <1>4, ReviewAssumption DEF Buyer!Elsewhere, ReviewInv, Reviews
  <1> QED
    BY <1>1, <1>2, <1>3, <1>4

LEMMA ReviewNext ==
    ASSUME ReviewInv, [Buyer!Next]_(Buyer!vars)
    PROVE  ReviewInv'
  <1>1. ASSUME NEW l \in ReviewLines, NEW p \in Products, Buyer!Include(l, p)
        PROVE  ReviewInv'
    BY <1>1, Decided, AnsweredKeeps DEF Buyer!Include, ReviewInv, Buyer!Decisions
  <1>2. ASSUME NEW l \in ReviewLines, Buyer!Exclude(l)
        PROVE  ReviewInv'
    BY <1>2, Decided, AnsweredKeeps DEF Buyer!Exclude, ReviewInv, Buyer!Decisions
  <1>3. CASE Buyer!Submit
    <2> DEFINE amounts == [l \in ReviewLines |-> IF l \in Buyer!EditableLines(shown)
                                                 THEN form[l] ELSE review.quantity[l]]
               r == [review EXCEPT !.quantity = amounts]
    <2>1. amounts \in [ReviewLines -> Nat]
      BY DEF ReviewInv, Reviews
    <2>2. Buyer!Answered(r)
      BY <1>3 DEF Buyer!Submit
    <2> HIDE DEF amounts
    <2>3. r \in Reviews
      BY <2>1 DEF ReviewInv, Reviews
    <2> HIDE DEF r
    <2> QED
      BY <2>2, <2>3, AnsweredKeeps
  <1>4. CASE Buyer!Elsewhere
    BY <1>4, ReviewElsewhere
  <1>5. ASSUME NEW n \in Typed, Buyer!UseForAll(n)
        PROVE  ReviewInv'
    <2>1. n \in Nat
      BY ReviewAssumption
    <2>2. form' \in [ReviewLines -> Nat]
      <3> DEFINE E == Buyer!EditableLines(shown)
      <3>1. form' = [l \in ReviewLines |-> IF l \in E THEN n ELSE 0]
        BY <1>5 DEF Buyer!UseForAll
      <3> HIDE DEF E
      <3> QED
        BY <2>1, <3>1
    <2>3. review' = review /\ shown' = shown
      BY <1>5 DEF Buyer!UseForAll
    <2> QED
      BY <2>2, <2>3 DEF ReviewInv
  <1>6. ASSUME NEW l \in ReviewLines, NEW n \in Typed, Buyer!Type(l, n)
        PROVE  ReviewInv'
    <2>1. n \in Nat
      BY ReviewAssumption
    <2> QED
      BY <1>6, <2>1 DEF Buyer!Type, ReviewInv
  <1>7. CASE Buyer!Refresh
    BY <1>7, FormIsNumbers DEF Buyer!Refresh, ReviewInv
  <1>8. CASE UNCHANGED Buyer!vars
    BY <1>8 DEF Buyer!vars, ReviewInv
  <1> QED
    BY <1>1, <1>2, <1>3, <1>4, <1>5, <1>6, <1>7, <1>8 DEF Buyer!Next

\* What the read model has no reason to hold a line up for, the gate has none.
LEMMA ClearIsReasonless ==
    ASSUME NEW l \in ReviewLines, NEW n \in Nat
    PROVE  Buyer!Reasons(l, n) = {} <=> Buyer!Clear(l, n)
  <1>1. Buyer!CommercialQuantity(l, n) \in Nat
    BY QuantityIsNumber
  <1> QED
    BY <1>1, SheetLines DEF Buyer!Reasons, Buyer!Clear

LEMMA StepIsGate ==
    ASSUME NEW v \in Reviews
    PROVE  Buyer!Step(v) = "reviewed" <=> Buyer!Reviewed(Layout, v.decision, v.quantity)
  <1>1. Buyer!LinesOf(Layout) = ReviewLines
    BY DEF Buyer!LinesOf
  <1>2. ASSUME NEW l \in ReviewLines
        PROVE  /\ v.decision[l] \in Products \cup {NoProduct, Excluded}
               /\ v.quantity[l] \in Nat
    BY DEF Reviews, Buyer!Decisions
  <1>3. Buyer!ReviewableMatches(v) = Buyer!Unresolved(Layout, v.decision)
    <2>1. ASSUME NEW l \in ReviewLines
          PROVE  Buyer!Status(v, l) = "PENDING" <=> v.decision[l] \in {Undecided, NoProduct}
      BY <1>2, ReviewAssumption DEF Buyer!Status, Buyer!Decisions
    <2> QED
      BY <1>1, <2>1 DEF Buyer!ReviewableMatches, Buyer!Unresolved
  <1>4. Buyer!IncludedMatches(v) = Buyer!Included(Layout, v.decision)
    <2>1. ASSUME NEW l \in ReviewLines
          PROVE  Buyer!Status(v, l) = "RESOLVED" <=> v.decision[l] \in Products
      BY <1>2, ReviewAssumption DEF Buyer!Status
    <2> QED
      BY <1>1, <2>1 DEF Buyer!IncludedMatches, Buyer!Included
  <1>5. Buyer!CommercialReviewLines(v) = Buyer!Blockers(Layout, v.decision, v.quantity)
    <2>1. ASSUME NEW l \in ReviewLines
          PROVE  /\ Buyer!Status(v, l) # "EXCLUDED" <=> v.decision[l] # Excluded
                 /\ Buyer!ReasonsOf(v, l) = {} <=> Buyer!Clear(l, v.quantity[l])
      <3>1. Buyer!Status(v, l) # "EXCLUDED" <=> v.decision[l] # Excluded
        BY ReviewAssumption DEF Buyer!Status
      <3>2. Buyer!ReasonsOf(v, l) = {} <=> Buyer!Clear(l, v.quantity[l])
        BY <1>2, ClearIsReasonless DEF Buyer!ReasonsOf
      <3> QED
        BY <3>1, <3>2
    <2> QED
      BY <1>1, <2>1 DEF Buyer!CommercialReviewLines, Buyer!Blockers
  <1> QED
    BY <1>3, <1>4, <1>5 DEF Buyer!Step, Buyer!Reviewed

\* Every set of numbers has a least.
Less == {p \in Nat \X Nat : p[1] < p[2]}

LEMMA Least ==
    ASSUME NEW T, T \subseteq Nat, T # {}
    PROVE  \E m \in T : \A k \in T : m <= k
  <1>1. IsWellFoundedOn(Less, Nat)
    <2>1. OpToRel(<, Nat) = Less
      BY DEF OpToRel, Less
    <2> QED
      BY <2>1, NatLessThanWellFounded
  <1>2. PICK m \in T : \A k \in T : <<k, m>> \notin Less
    BY <1>1, WFMin
  <1>3. ASSUME NEW k \in T PROVE m <= k
    <2>1. <<k, m>> \in Less <=> k < m
      BY DEF Less
    <2> QED
      BY <1>2, <2>1
  <1> QED
    BY <1>3

\* The lowest tier of a line that has any.
LEMMA LowestTier ==
    ASSUME NEW l \in ReviewLines, ReviewSheet[l].tiers # {}
    PROVE  /\ Buyer!MinimumOrderQuantity(l) \in ReviewSheet[l].tiers
           /\ Buyer!MinimumOrderQuantity(l) \in Nat \ {0}
  <1> DEFINE T == ReviewSheet[l].tiers
  <1>1. T \subseteq Nat /\ 0 \notin T
    BY SheetLines
  <1>2. \E m \in T : \A k \in T : m <= k
    BY <1>1, Least
  <1>3. Buyer!MinimumOrderQuantity(l) = CHOOSE m \in T : \A k \in T : m <= k
    BY DEF Buyer!MinimumOrderQuantity
  <1> HIDE DEF T
  <1>4. Buyer!MinimumOrderQuantity(l) \in T
    BY <1>2, <1>3
  <1> QED
    BY <1>1, <1>4 DEF T

LEMMA PageIsGate ==
    ASSUME ReviewInv
    PROVE  Buyer!PageAndGateAgree
  <1>1. ASSUME NEW s \in {Layout}
        PROVE  Buyer!Step(shown) = "reviewed" <=> Buyer!Reviewed(s, shown.decision, shown.quantity)
    BY StepIsGate DEF ReviewInv
  <1>2. ASSUME NEW l \in Buyer!EditableLines(shown), NEW n \in Typed,
               Buyer!ValidQuantity(l, n), "missing_unit_price" \notin Buyer!ReasonsOf(shown, l)
        PROVE  Buyer!Priced(l, n)
    <2>1. l \in ReviewLines /\ n \in Nat /\ n # 0
      BY <1>2, ReviewAssumption DEF Buyer!EditableLines, Buyer!CommercialReviewLines,
                                    Buyer!ValidQuantity
    <2>2. CASE ReviewSheet[l].tiers = {}
      <3>1. ReviewSheet[l].unitPrice
        BY <1>2, <2>2 DEF Buyer!ReasonsOf, Buyer!Reasons
      <3> QED
        BY <2>2, <3>1 DEF Buyer!Priced
    <2>3. CASE ReviewSheet[l].tiers # {}
      BY <1>2, <2>1, <2>3, LowestTier DEF Buyer!Priced, Buyer!ValidQuantity
    <2> QED
      BY <2>2, <2>3
  <1>3. ASSUME NEW l \in Buyer!Advised(shown)
        PROVE  Buyer!Priced(l, Buyer!MinimumOrderQuantity(l))
    <2>1. l \in ReviewLines /\ Buyer!MinimumOrderQuantity(l) # 0
      BY DEF Buyer!Advised, Buyer!IncludedMatches
    <2>2. ReviewSheet[l].tiers # {}
      BY <2>1 DEF Buyer!MinimumOrderQuantity
    <2>3. /\ Buyer!MinimumOrderQuantity(l) \in ReviewSheet[l].tiers
          /\ Buyer!MinimumOrderQuantity(l) \in Nat
      BY <2>1, <2>2, LowestTier
    <2> QED
      BY <2>1, <2>2, <2>3 DEF Buyer!Priced
  <1> QED
    BY <1>1, <1>2, <1>3 DEF Buyer!PageAndGateAgree

(* The page has nothing left to ask for exactly where the review gate would *)
(* open, and what its form takes, or the copilot's tool calls safe, the gate *)
(* finds a price for, for every workbook, catalog and quantity typed       *)
(* (workspaceViewModel.ts, CommercialReviewCard.tsx, commercial-review.ts). *)
THEOREM PageAgrees == Spec => []PageAndGateAgree
  <1> DEFINE ReviewRuns == service = "review" => ReviewInv
  <1>1. Init => ReviewRuns
    BY ReviewInit DEF Init
  <1>2. ReviewRuns /\ [Next]_vars => ReviewRuns'
    <2>1. SUFFICES ASSUME ReviewRuns, [Next]_vars, service' = "review"
                   PROVE  ReviewInv'
      OBVIOUS
    <2>2. service = "review" /\ [Buyer!Next]_(Buyer!vars)
      BY <2>1 DEF Next, vars, buyer, Buyer!vars
    <2> QED
      BY <2>1, <2>2, ReviewNext
  <1>3. ReviewRuns => PageAndGateAgree
    BY PageIsGate DEF PageAndGateAgree
  <1> QED
    BY <1>1, <1>2, <1>3, PTL DEF Spec
==============================================================================
