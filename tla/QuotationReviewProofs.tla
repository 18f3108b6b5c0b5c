------------------------- MODULE QuotationReviewProofs -------------------------
(***************************************************************************)
(* Theorems about QuotationReview for every workbook, any number of        *)
(* requests and any quantities.  They rest on one inductive invariant: the *)
(* rows of a line are in the order of the times their transactions began   *)
(* (Ordered), because a request names a decision that was committed before *)
(* the request began (Request) and is refused unless it names the last.    *)
(***************************************************************************)
EXTENDS QuotationReview, SequenceTheorems, TLAPS

------------------------------------------------------------------------------
(* The invariant *)

Ordered(rows) ==
    \A i, j \in DOMAIN rows : i < j => rows[i].at < rows[j].at

Rows ==
    \A l \in Lines :
        /\ Ordered(facts[l])
        /\ \A i \in DOMAIN facts[l] : /\ facts[l][i].at <= clock
                                      /\ facts[l][i].supersedes = i - 1
        /\ ~matched => facts[l] = <<>>

\* A request knows what was committed when it began.
Informed(r) ==
    LET c == tx[r].call IN
    /\ c.kind = "match" => /\ c.id \in DOMAIN facts[c.line]
                           /\ facts[c.line][c.id].at < tx[r].at
    /\ c.kind = "quantities" => c.lines \subseteq LinesOf(c.scenario)

\* What Accepted found is still so when the command is judged.
StillAccepted(r) ==
    LET c == tx[r].call IN
    /\ c.kind = "match" => c.id = Len(facts[c.line]) /\ Choice(c) # NoProduct
    /\ c.kind = "quantities" => selection = c.scenario

Request(r) ==
    tx[r].pc # "idle" =>
        /\ tx[r].call \in Calls
        /\ tx[r].at <= clock
        /\ Informed(r)
        /\ tx[r].pc \in {"header", "lines", "create"} => tx[r].call.kind = "start"
        /\ Locked(r) => tx[r].call.kind # "start" /\ tx[r].row = quotation
        /\ tx[r].pc = "judge" => StillAccepted(r)

Exclusive == \A r, o \in Requests : Locked(r) /\ Locked(o) => r = o

Inv == TypeOK /\ Rows /\ (\A r \in Requests : Request(r)) /\ Exclusive

------------------------------------------------------------------------------
(* Rows and calls *)

\* Of rows in order, the latest is the last.
LEMMA LatestOfOrdered ==
  ASSUME NEW rows \in Seq(Fact), rows # <<>>, Ordered(rows)
  PROVE  Latest(rows) = Len(rows)
PROOF
  <1>1. Len(rows) \in Nat /\ DOMAIN rows = 1..Len(rows) /\ Len(rows) # 0
    BY EmptySeq
  <1>2. \A i \in DOMAIN rows : rows[i].at \in Nat
    <2> TAKE i \in DOMAIN rows
    <2>1. rows[i] \in Fact
      BY <1>1, ElementOfSeq
    <2> QED
      BY <2>1 DEF Fact
  <1>3. \A j \in DOMAIN rows : rows[j].at <= rows[Len(rows)].at
    <2> TAKE j \in DOMAIN rows
    <2>1. CASE j = Len(rows)
      BY <1>1, <1>2, <2>1
    <2>2. CASE j # Len(rows)
      BY <1>1, <1>2, <2>2 DEF Ordered
    <2> QED
      BY <2>1, <2>2
  <1>4. \A i \in DOMAIN rows :
          (\A j \in DOMAIN rows : rows[j].at <= rows[i].at) => i = Len(rows)
    BY <1>1, <1>2 DEF Ordered
  <1> QED
    BY <1>1, <1>3, <1>4 DEF Latest

LEMMA LatestOfOne ==
  ASSUME NEW f \in Fact
  PROVE  <<f>> \in Seq(Fact) /\ Latest(<<f>>) = 1 /\ <<f>>[1] = f
PROOF
  <1>1. <<f>> \in Seq(Fact) /\ <<f>> # <<>> /\ Len(<<f>>) = 1 /\ <<f>>[1] = f
    OBVIOUS
  <1>2. Ordered(<<f>>)
    BY <1>1 DEF Ordered
  <1> QED
    BY <1>1, <1>2, LatestOfOrdered

\* A later row keeps the rows in order, and is then the latest.
LEMMA Appended ==
  ASSUME NEW rows \in Seq(Fact), Ordered(rows), NEW f \in Fact,
         \A i \in DOMAIN rows : rows[i].at < f.at
  PROVE  /\ Append(rows, f) \in Seq(Fact) /\ Ordered(Append(rows, f))
         /\ Append(rows, f) # <<>> /\ Len(Append(rows, f)) = Len(rows) + 1
         /\ DOMAIN Append(rows, f) = DOMAIN rows \cup {Len(rows) + 1}
         /\ \A i \in DOMAIN rows : Append(rows, f)[i] = rows[i]
         /\ Append(rows, f)[Len(rows) + 1] = f
PROOF
  <1>1. /\ Append(rows, f) \in Seq(Fact)
        /\ Len(rows) \in Nat /\ DOMAIN rows = 1..Len(rows)
        /\ Len(Append(rows, f)) = Len(rows) + 1
        /\ DOMAIN Append(rows, f) = 1..(Len(rows) + 1)
        /\ \A i \in 1..Len(rows) : Append(rows, f)[i] = rows[i]
        /\ Append(rows, f)[Len(rows) + 1] = f
    OBVIOUS
  <1>2. \A i \in DOMAIN Append(rows, f) : i \in DOMAIN rows \/ i = Len(rows) + 1
    BY <1>1
  <1>3. Ordered(Append(rows, f))
    BY <1>1, <1>2 DEF Ordered
  <1>4. Append(rows, f) # <<>>
    BY <1>1
  <1> QED
    BY <1>1, <1>2, <1>3, <1>4

\* What a call of each kind carries.
LEMMA CallFacts ==
  ASSUME NEW c \in Calls
  PROVE  /\ c.kind \in {"select", "start", "match", "quantities"}
         /\ c.kind # "match" => c.scenario \in Scenarios
         /\ c.kind = "match" => /\ c.line \in Lines /\ c.id \in Nat \ {0}
                                /\ c.answer \in Answers
                                /\ Choice(c) \in Decisions
                                /\ ScenarioOf[c.line] \in Scenarios
         /\ c.kind = "quantities" => /\ c.lines \subseteq Lines
                                     /\ c.quantity \in Nat \ {0}
PROOF
  <1>1. /\ c.kind \in {"select", "start", "match", "quantities"}
        /\ c.kind # "match" => c.scenario \in Scenarios
        /\ c.kind = "match" => /\ c.line \in Lines /\ c.id \in Nat \ {0}
                               /\ c.answer \in Answers
        /\ c.kind = "quantities" => /\ c.lines \subseteq Lines
                                    /\ c.quantity \in Quantities
    <2>1. CASE c \in [kind : {"select", "start"}, scenario : Scenarios]
      BY <2>1
    <2>2. CASE c \in [kind : {"match"}, line : Lines, id : Nat \ {0},
                      answer : Answers]
      BY <2>2
    <2>3. CASE c \in [kind : {"quantities"}, scenario : Scenarios,
                      lines : (SUBSET Lines) \ {{}}, quantity : Quantities]
      BY <2>3
    <2> QED
      BY <2>1, <2>2, <2>3 DEF Calls
  <1>2. c.kind = "match" => Choice(c) \in Decisions /\ ScenarioOf[c.line] \in Scenarios
    BY <1>1, ReviewAssumption, SheetAssumption DEF Choice, Answers, Decisions
  <1> QED
    BY <1>1, <1>2, ReviewAssumption

\* What a client asks is a call, and names a decision that is there.
LEMMA AskedFacts ==
  ASSUME Inv, NEW c \in Asked
  PROVE  /\ c \in Calls
         /\ c.kind = "match" => c.id \in DOMAIN facts[c.line]
         /\ c.kind = "quantities" => c.lines \subseteq LinesOf(c.scenario)
PROOF
  <1>1. CASE c \in [kind : {"select", "start"}, scenario : Scenarios]
    BY <1>1 DEF Calls
  <1>2. ASSUME NEW l \in Lines,
               c \in [kind : {"match"}, line : {l}, id : DOMAIN facts[l],
                      answer : Answers]
        PROVE  c \in Calls /\ c.kind = "match" /\ c.id \in DOMAIN facts[c.line]
    <2>1. facts[l] \in Seq(Fact)
      BY DEF Inv, TypeOK
    <2>2. DOMAIN facts[l] \subseteq Nat \ {0}
      BY <2>1
    <2> QED
      BY <1>2, <2>2 DEF Calls
  <1>3. ASSUME NEW s \in Scenarios,
               c \in [kind : {"quantities"}, scenario : {s},
                      lines : (SUBSET LinesOf(s)) \ {{}}, quantity : Quantities]
        PROVE  c \in Calls /\ c.kind = "quantities"
               /\ c.lines \subseteq LinesOf(c.scenario)
    BY <1>3 DEF Calls, LinesOf
  <1> QED
    BY <1>1, <1>2, <1>3 DEF Asked
------------------------------------------------------------------------------
(* Steps that move one request and leave the tables alone *)

LEMMA IdleSlot == Idle \in Slot /\ Idle.pc = "idle"
  BY DEF Idle, Slot, Steps, NoRow, Row, States, Reviewable, Unset

LEMMA SlotStep ==
  ASSUME Inv, NEW r \in Requests, NEW t \in Slot,
         tx' = [tx EXCEPT ![r] = t],
         UNCHANGED tables,
         clock' \in Nat, clock <= clock',
         \A i \in intents' : i \in Intent,
         Request(r)',
         \A o \in Requests \ {r} : t.pc \in {"write", "judge"} => ~Locked(o)
  PROVE  Inv'
PROOF
  <1>1. tx' \in [Requests -> Slot] /\ tx'[r] = t
        /\ \A o \in Requests \ {r} : tx'[o] = tx[o]
    BY DEF Inv, TypeOK
  <1>2. TypeOK'
    BY <1>1 DEF Inv, TypeOK, tables
  <1>3. Rows'
    <2> SUFFICES ASSUME NEW l \in Lines
                 PROVE  /\ Ordered(facts'[l])
                        /\ \A i \in DOMAIN facts'[l] :
                              /\ facts'[l][i].at <= clock'
                              /\ facts'[l][i].supersedes = i - 1
                        /\ ~matched' => facts'[l] = <<>>
      BY DEF Rows
    <2>1. facts' = facts /\ matched' = matched
      BY DEF tables
    <2>2. \A i \in DOMAIN facts[l] : facts[l][i].at <= clock'
      <3> TAKE i \in DOMAIN facts[l]
      <3>1. facts[l] \in Seq(Fact)
        BY DEF Inv, TypeOK
      <3>2. facts[l][i] \in Fact
        BY <3>1
      <3>3. facts[l][i].at \in Nat /\ facts[l][i].at <= clock /\ clock \in Nat
        BY <3>2 DEF Fact, Inv, Rows, TypeOK
      <3> QED
        BY <3>3
    <2> QED
      BY <2>1, <2>2 DEF Inv, Rows
  <1>4. ASSUME NEW o \in Requests PROVE Request(o)'
    <2>1. CASE o = r
      BY <2>1
    <2>2. CASE o # r
      <3>1. tx'[o] = tx[o] /\ tx[o] \in Slot /\ Request(o)
        BY <1>1, <2>2 DEF Inv, TypeOK
      <3>2. tx[o].at <= clock => tx[o].at <= clock'
        BY <3>1 DEF Slot, Inv, TypeOK
      <3> QED
        BY <3>1, <3>2 DEF Request, Informed, StillAccepted, Locked, tables
    <2> QED
      BY <2>1, <2>2
  <1>5. Exclusive'
    BY <1>1 DEF Inv, Exclusive, Locked
  <1> QED
    BY <1>2, <1>3, <1>4, <1>5 DEF Inv

LEMMA QuietStep ==
  ASSUME Inv, NEW r \in Requests, NEW t \in Slot,
         tx' = [tx EXCEPT ![r] = t],
         UNCHANGED <<tables, intents, clock>>,
         Request(r)',
         \A o \in Requests \ {r} : t.pc \in {"write", "judge"} => ~Locked(o)
  PROVE  Inv'
PROOF
  <1>1. clock' \in Nat /\ clock <= clock'
    BY DEF Inv, TypeOK
  <1>2. \A i \in intents' : i \in Intent
    BY DEF Inv, TypeOK
  <1>3. UNCHANGED tables
    OBVIOUS
  <1> QED
    BY <1>1, <1>2, <1>3, SlotStep

LEMMA RollBackStep ==
  ASSUME Inv, NEW r \in Requests, RollBack(r)
  PROVE  Inv'
PROOF
  <1>1. tx' = [tx EXCEPT ![r] = Idle] /\ UNCHANGED <<tables, intents, clock>>
    BY DEF RollBack
  <1>2. Request(r)'
    BY <1>1, IdleSlot DEF Request, Inv, TypeOK
  <1> QED
    BY <1>1, <1>2, IdleSlot, QuietStep

LEMMA BeginStep ==
  ASSUME Inv, NEW r \in Requests, NEW c \in Asked, Begin(r, c)
  PROVE  Inv'
PROOF
  <1> DEFINE t == [Idle EXCEPT !.pc = "begun", !.call = c, !.at = clock + 1]
  <1>1. tx' = [tx EXCEPT ![r] = t] /\ clock' = clock + 1
        /\ UNCHANGED <<tables, intents>>
    BY DEF Begin
  <1>2. clock \in Nat /\ clock + 1 \in Nat /\ clock <= clock + 1
    BY DEF Inv, TypeOK
  <1>3. /\ c \in Calls
        /\ c.kind = "match" => c.id \in DOMAIN facts[c.line]
        /\ c.kind = "quantities" => c.lines \subseteq LinesOf(c.scenario)
    BY AskedFacts
  <1>4. t \in Slot /\ t.pc = "begun" /\ t.call = c /\ t.at = clock + 1
    BY <1>2, <1>3, IdleSlot DEF Slot, Steps, Idle
  <1>5. tx'[r] = t
    BY <1>1 DEF Inv, TypeOK
  <1>6. ASSUME c.kind = "match"
        PROVE  facts[c.line][c.id].at < clock + 1
    <2>1. c.line \in Lines
      BY <1>3, <1>6, CallFacts
    <2>2. facts[c.line] \in Seq(Fact)
      BY <2>1 DEF Inv, TypeOK
    <2>3. facts[c.line][c.id] \in Fact
      BY <1>3, <1>6, <2>2
    <2>4. facts[c.line][c.id].at \in Nat /\ facts[c.line][c.id].at <= clock
      BY <1>3, <1>6, <2>1, <2>3 DEF Fact, Inv, Rows
    <2> QED
      BY <1>2, <2>4
  <1>7. Request(r)'
    <2> HIDE DEF t
    <2>1. Informed(r)'
      BY <1>1, <1>3, <1>4, <1>5, <1>6 DEF Informed, tables
    <2> QED
      BY <1>1, <1>2, <1>3, <1>4, <1>5, <2>1 DEF Request, Locked
  <1> HIDE DEF t
  <1>8. \A i \in intents' : i \in Intent
    BY <1>1 DEF Inv, TypeOK
  <1> QED
    BY <1>1, <1>2, <1>4, <1>7, <1>8, SlotStep

LEMMA LockStep ==
  ASSUME Inv, NEW r \in Requests, Lock(r)
  PROVE  Inv'
PROOF
  <1> DEFINE t == [tx[r] EXCEPT !.pc = "write", !.row = quotation]
  <1>1. tx[r] \in Slot /\ tx[r].pc = "begun" /\ tx[r].call.kind # "start"
        /\ (\A o \in Requests : ~Locked(o)) /\ UNCHANGED <<tables, intents, clock>>
    BY DEF Inv, TypeOK, Lock
  <1>2. tx' = [tx EXCEPT ![r] = t]
    BY DEF Lock, Inv, TypeOK
  <1>3. t \in Slot /\ t.pc = "write" /\ t.row = quotation
        /\ t.call = tx[r].call /\ t.at = tx[r].at
    BY <1>1 DEF Slot, Steps, Inv, TypeOK
  <1>4. tx'[r] = t
    BY <1>2 DEF Inv, TypeOK
  <1> HIDE DEF t
  <1>5. Request(r)'
    <2>1. Request(r)
      BY DEF Inv
    <2> QED
      BY <1>1, <1>3, <1>4, <2>1 DEF Request, Informed, Locked, tables
  <1> QED
    BY <1>1, <1>2, <1>3, <1>5, QuietStep

\* What a match names, and what its row is.
LEMMA MatchFacts ==
  ASSUME Inv, NEW r \in Requests, tx[r].pc # "idle", tx[r].call.kind = "match"
  PROVE  LET c == tx[r].call IN
         /\ c \in Calls /\ c.line \in Lines /\ Choice(c) \in Decisions
         /\ facts[c.line] \in Seq(Fact) /\ Ordered(facts[c.line])
         /\ c.id \in DOMAIN facts[c.line]
         /\ facts[c.line][c.id].at < tx[r].at
         /\ facts[c.line] # <<>>
         /\ Latest(facts[c.line]) = Len(facts[c.line])
PROOF
  <1> DEFINE c == tx[r].call
  <1>1. c \in Calls /\ Informed(r)
    BY DEF Inv, Request
  <1>2. c.line \in Lines /\ Choice(c) \in Decisions
    BY <1>1, CallFacts
  <1>3. facts[c.line] \in Seq(Fact) /\ Ordered(facts[c.line])
    BY <1>2 DEF Inv, TypeOK, Rows
  <1>4. c.id \in DOMAIN facts[c.line] /\ facts[c.line][c.id].at < tx[r].at
    BY <1>1 DEF Informed
  <1>5. facts[c.line] # <<>>
    BY <1>4
  <1>6. Latest(facts[c.line]) = Len(facts[c.line])
    BY <1>3, <1>5, LatestOfOrdered
  <1> QED
    BY <1>1, <1>2, <1>3, <1>4, <1>5, <1>6

LEMMA WriteStep ==
  ASSUME Inv, NEW r \in Requests, Write(r)
  PROVE  Inv'
PROOF
  <1> DEFINE t == [tx[r] EXCEPT !.pc = "judge"]
  <1>1. tx[r] \in Slot /\ tx[r].pc = "write" /\ Accepted(tx[r].call)
        /\ UNCHANGED <<tables, intents, clock>>
    BY DEF Inv, TypeOK, Write
  <1>2. tx' = [tx EXCEPT ![r] = t]
    BY DEF Write, Goto, Inv, TypeOK
  <1>3. t \in Slot /\ t.pc = "judge" /\ t.row = tx[r].row
        /\ t.call = tx[r].call /\ t.at = tx[r].at
    BY <1>1 DEF Slot, Steps
  <1>4. tx'[r] = t
    BY <1>2 DEF Inv, TypeOK
  <1> HIDE DEF t
  <1>5. Request(r) /\ Locked(r) /\ tx[r].call \in Calls
        /\ tx[r].call.kind # "start"
    BY <1>1 DEF Inv, Request, Locked
  <1>6. tx[r].call.kind = "match" => /\ tx[r].call.id = Len(facts[tx[r].call.line])
                                     /\ Choice(tx[r].call) # NoProduct
    BY <1>1, MatchFacts DEF Accepted
  <1>7. tx[r].call.kind = "quantities" => selection = tx[r].call.scenario
    BY <1>1 DEF Accepted
  <1>8. StillAccepted(r)'
    BY <1>1, <1>3, <1>4, <1>6, <1>7 DEF StillAccepted, tables, Choice
  <1>9. Informed(r)'
    BY <1>1, <1>3, <1>4, <1>5 DEF Request, Informed, tables
  <1>10. Request(r)'
    BY <1>1, <1>3, <1>4, <1>5, <1>8, <1>9 DEF Request, Locked, tables
  <1>11. \A o \in Requests \ {r} : ~Locked(o)
    BY <1>5 DEF Inv, Exclusive
  <1> QED
    BY <1>1, <1>2, <1>3, <1>10, <1>11, QuietStep

\* The first three steps of a start.
LEMMA StartStep ==
  ASSUME Inv, NEW r \in Requests,
         StartSelected(r) \/ StartHeader(r) \/ StartLines(r)
  PROVE  Inv'
PROOF
  <1>1. tx[r] \in Slot /\ UNCHANGED <<tables, intents, clock>>
        /\ quantity \in [Lines -> Nat]
    BY DEF Inv, TypeOK, StartSelected, StartHeader, StartLines
  <1>2. Request(r) /\ tx[r].pc # "idle" /\ tx[r].call.kind = "start"
    BY DEF StartSelected, StartHeader, StartLines, Inv, Request
  <1>3. PICK p \in {"header", "lines", "create"}, q \in [Lines -> Nat] :
           tx' = [tx EXCEPT ![r] = [tx[r] EXCEPT !.pc = p, !.seen = q]]
    <2>1. CASE StartSelected(r)
      <3>1. tx' = [tx EXCEPT ![r] = [tx[r] EXCEPT !.pc = "header",
                                                  !.seen = tx[r].seen]]
        BY <1>1, <2>1 DEF StartSelected, Goto, Slot, Inv, TypeOK
      <3> QED
        BY <1>1, <3>1 DEF Slot
    <2>2. CASE StartHeader(r)
      <3>1. tx' = [tx EXCEPT ![r] = [tx[r] EXCEPT !.pc = "lines",
                                                  !.seen = tx[r].seen]]
        BY <1>1, <2>2 DEF StartHeader, Goto, Slot, Inv, TypeOK
      <3> QED
        BY <1>1, <3>1 DEF Slot
    <2>3. CASE StartLines(r)
      <3>1. tx' = [tx EXCEPT ![r] = [tx[r] EXCEPT !.pc = "create",
                                                  !.seen = quantity]]
        BY <1>1, <2>3 DEF StartLines, Inv, TypeOK
      <3> QED
        BY <1>1, <3>1
    <2> QED
      BY <2>1, <2>2, <2>3
  <1> DEFINE t == [tx[r] EXCEPT !.pc = p, !.seen = q]
  <1>4. t \in Slot /\ t.pc = p /\ t.call = tx[r].call /\ t.at = tx[r].at
    BY <1>1 DEF Slot, Steps
  <1>5. tx'[r] = t /\ tx' = [tx EXCEPT ![r] = t]
    BY <1>3 DEF Inv, TypeOK
  <1> HIDE DEF t
  <1>6. Request(r)'
    BY <1>1, <1>2, <1>4, <1>5 DEF Request, Informed, Locked, tables
  <1> QED
    BY <1>1, <1>4, <1>5, <1>6, QuietStep

LEMMA StartCreateStep ==
  ASSUME Inv, NEW r \in Requests, StartCreate(r)
  PROVE  Inv'
PROOF
  <1> DEFINE s == tx[r].call.scenario
             d == InForce(facts)
             q == tx[r].seen
             new == [at |-> tx[r].at, scenario |-> s,
                     lines |-> {[line |-> l, product |-> d[l],
                                 quantity |-> StartQuantity(l, q[l])]
                                : l \in Negotiable(s, d, q)}]
  <1>1. tx' = [tx EXCEPT ![r] = Idle] /\ UNCHANGED <<tables, clock>>
        /\ intents' = intents \cup {new} /\ tx[r].pc = "create"
    BY DEF StartCreate
  <1>2. tx[r] \in Slot /\ tx[r].at \in Nat /\ q \in [Lines -> Nat]
    BY DEF Inv, TypeOK, Slot
  <1>3. s \in Scenarios
    <2>1. tx[r].call \in Calls /\ tx[r].call.kind = "start"
      BY <1>1 DEF Inv, Request
    <2> QED
      BY <2>1, CallFacts
  <1>4. ASSUME NEW l \in Negotiable(s, d, q)
        PROVE  /\ l \in Lines /\ d[l] \in Products
               /\ StartQuantity(l, q[l]) \in Nat \ {0}
    <2>1. l \in Lines /\ d[l] \in Products /\ StartQuantity(l, q[l]) # 0
      BY DEF Negotiable, Included, LinesOf
    <2>2. Sheet[l].quantity \in Nat /\ q[l] \in Nat
      BY <1>2, <2>1, SheetAssumption DEF SheetLine
    <2> QED
      BY <2>1, <2>2 DEF StartQuantity, CommercialQuantity
  <1>5. new \in Intent
    <2> HIDE DEF s, d, q
    <2>1. {[line |-> l, product |-> d[l], quantity |-> StartQuantity(l, q[l])]
           : l \in Negotiable(s, d, q)}
            \in SUBSET [line : Lines, product : Products, quantity : Nat \ {0}]
      BY <1>4
    <2> QED
      BY <1>2, <1>3, <2>1 DEF Intent
  <1> HIDE DEF s, d, q, new
  <1>6. \A i \in intents' : i \in Intent
    BY <1>1, <1>5 DEF Inv, TypeOK
  <1>7. Request(r)'
    BY <1>1, IdleSlot DEF Request, Inv, TypeOK
  <1>8. clock' \in Nat /\ clock <= clock'
    BY <1>1 DEF Inv, TypeOK
  <1> QED
    BY <1>1, <1>6, <1>7, <1>8, IdleSlot, SlotStep
------------------------------------------------------------------------------
(* Steps that change the tables *)

\* The job finds no row of any line, and gives each one its first.
LEMMA MatchedRows ==
  ASSUME Inv, MatchCandidates
  PROVE  /\ facts' \in [Lines -> Seq(Fact)]
         /\ \A l \in Lines :
               /\ facts[l] = <<>>
               /\ facts'[l] = <<[at |-> clock + 1, decision |-> Certain[l],
                                 supersedes |-> 0]>>
               /\ [at |-> clock + 1, decision |-> Certain[l],
                   supersedes |-> 0] \in Fact
PROOF
  <1> DEFINE first(l) == [at |-> clock + 1, decision |-> Certain[l],
                          supersedes |-> 0]
  <1>1. \A l \in Lines : facts[l] = <<>>
    BY DEF MatchCandidates, Inv, Rows
  <1>2. facts' = [l \in Lines |-> IF facts[l] = <<>> THEN <<first(l)>> ELSE facts[l]]
    BY DEF MatchCandidates
  <1>3. ASSUME NEW l \in Lines PROVE first(l) \in Fact
    <2>1. clock + 1 \in Nat
      BY DEF Inv, TypeOK
    <2>2. Certain[l] \in Decisions
      BY ReviewAssumption DEF Decisions
    <2> QED
      BY <2>1, <2>2 DEF Fact
  <1> HIDE DEF first
  <1>4. \A l \in Lines : facts'[l] = <<first(l)>>
    BY <1>1, <1>2
  <1>5. \A l \in Lines : <<first(l)>> \in Seq(Fact)
    BY <1>3, LatestOfOne
  <1>6. facts' \in [Lines -> Seq(Fact)]
    BY <1>1, <1>2, <1>5
  <1> QED
    BY <1>1, <1>3, <1>4, <1>6 DEF first

LEMMA MatchCandidatesStep ==
  ASSUME Inv, MatchCandidates
  PROVE  Inv'
PROOF
  <1>1. /\ matched' = TRUE /\ clock' = clock + 1
        /\ UNCHANGED <<quotation, selection, quantity, intents, tx>>
    BY DEF MatchCandidates
  <1>2. clock \in Nat /\ clock' \in Nat /\ clock <= clock'
    BY <1>1 DEF Inv, TypeOK
  <1>3. facts' \in [Lines -> Seq(Fact)]
    BY MatchedRows
  <1>4. TypeOK'
    BY <1>1, <1>2, <1>3 DEF Inv, TypeOK
  <1>5. Rows'
    <2> SUFFICES ASSUME NEW l \in Lines
                 PROVE  /\ Ordered(facts'[l])
                        /\ \A i \in DOMAIN facts'[l] :
                              /\ facts'[l][i].at <= clock'
                              /\ facts'[l][i].supersedes = i - 1
      BY <1>1 DEF Rows
    <2> DEFINE f == [at |-> clock + 1, decision |-> Certain[l], supersedes |-> 0]
    <2>1. facts'[l] = <<f>>
      BY MatchedRows
    <2>2. DOMAIN <<f>> = {1} /\ <<f>>[1] = f /\ f.at = clock + 1 /\ f.supersedes = 0
      OBVIOUS
    <2> HIDE DEF f
    <2>3. Ordered(facts'[l])
      BY <2>1, <2>2 DEF Ordered
    <2>4. \A i \in DOMAIN facts'[l] : /\ facts'[l][i].at <= clock'
                                      /\ facts'[l][i].supersedes = i - 1
      BY <1>1, <1>2, <2>1, <2>2
    <2> QED
      BY <2>3, <2>4
  <1>6. ASSUME NEW r \in Requests PROVE Request(r)'
    <2>1. Request(r) /\ tx'[r] = tx[r] /\ tx[r].at \in Nat
      BY <1>1 DEF Inv, TypeOK, Slot
    <2>2. ASSUME tx[r].pc # "idle" PROVE tx[r].call.kind # "match"
      <3> SUFFICES ASSUME tx[r].call.kind = "match" PROVE FALSE
        OBVIOUS
      <3>1. tx[r].call.line \in Lines /\ facts[tx[r].call.line] # <<>>
        BY <2>2, MatchFacts
      <3> QED
        BY <3>1, MatchedRows
    <2> QED
      BY <1>1, <1>2, <2>1, <2>2 DEF Request, Informed, StillAccepted, Locked
  <1>7. Exclusive'
    BY <1>1 DEF Inv, Exclusive, Locked
  <1> QED
    BY <1>4, <1>5, <1>6, <1>7 DEF Inv

\* A command commits: its slot is free, and no row that was there has changed.
LEMMA CommitStep ==
  ASSUME Inv, NEW r \in Requests, tx[r].pc = "judge",
         tx' = [tx EXCEPT ![r] = Idle],
         UNCHANGED <<matched, intents, clock>>,
         quotation' \in Row,
         selection' \in Scenarios \cup {NoScenario},
         facts' \in [Lines -> Seq(Fact)],
         quantity' \in [Lines -> Nat],
         Rows',
         \A l \in Lines : \A i \in DOMAIN facts[l] :
            i \in DOMAIN facts'[l] /\ facts'[l][i] = facts[l][i]
  PROVE  Inv'
PROOF
  <1>1. tx'[r] = Idle /\ \A o \in Requests \ {r} : tx'[o] = tx[o]
    BY DEF Inv, TypeOK
  <1>2. TypeOK'
    BY IdleSlot DEF Inv, TypeOK
  <1>3. \A o \in Requests \ {r} : ~Locked(o)
    BY DEF Inv, Exclusive, Locked
  <1>4. ASSUME NEW o \in Requests PROVE Request(o)'
    <2>1. CASE o = r
      BY <1>1, <2>1, IdleSlot DEF Request
    <2>2. CASE o # r
      <3>1. tx'[o] = tx[o] /\ Request(o) /\ ~Locked(o) /\ clock' = clock
        BY <1>1, <1>3, <2>2 DEF Inv
      <3>2. ASSUME tx[o].pc # "idle" PROVE Informed(o)'
        <4>1. Informed(o)
          BY <3>1, <3>2 DEF Request
        <4>2. CASE tx[o].call.kind = "match"
          <5>1. tx[o].call.line \in Lines
            BY <3>2, <4>2, MatchFacts
          <5> QED
            BY <3>1, <4>1, <4>2, <5>1 DEF Informed
        <4>3. CASE tx[o].call.kind # "match"
          BY <3>1, <4>1, <4>3 DEF Informed
        <4> QED
          BY <4>2, <4>3
      <3> QED
        BY <3>1, <3>2 DEF Request, Locked
    <2> QED
      BY <2>1, <2>2
  <1>5. Exclusive'
    BY <1>1, <1>3, IdleSlot DEF Exclusive, Locked
  <1> QED
    BY <1>2, <1>4, <1>5 DEF Inv

\* The row a resolution appends comes after every row of its line.
LEMMA ResolvedRows ==
  ASSUME Inv, NEW r \in Requests, tx[r].pc = "judge", tx[r].call.kind = "match"
  PROVE  LET c == tx[r].call
             f == [at |-> tx[r].at, decision |-> Choice(c), supersedes |-> c.id]
         IN /\ f \in Fact
            /\ \A i \in DOMAIN facts[c.line] : facts[c.line][i].at < f.at
            /\ c.id = Len(facts[c.line])
            /\ Facts(r) = [facts EXCEPT ![c.line] = Append(facts[c.line], f)]
            /\ Facts(r)[c.line] = Append(facts[c.line], f)
            /\ \A l \in Lines \ {c.line} : Facts(r)[l] = facts[l]
PROOF
  <1> DEFINE c == tx[r].call
             rows == facts[c.line]
             f == [at |-> tx[r].at, decision |-> Choice(c), supersedes |-> c.id]
  <1>1. /\ c.line \in Lines /\ Choice(c) \in Decisions
        /\ rows \in Seq(Fact) /\ Ordered(rows)
        /\ c.id \in DOMAIN rows /\ rows[c.id].at < tx[r].at
    BY MatchFacts
  <1>2. c.id = Len(rows) /\ tx[r].at \in Nat
    BY DEF Inv, TypeOK, Slot, Request, StillAccepted
  <1>3. c.id \in Nat /\ DOMAIN rows = 1..Len(rows)
    BY <1>1
  <1>4. f \in Fact /\ f.at = tx[r].at
    BY <1>1, <1>2, <1>3 DEF Fact
  <1>5. Facts(r) = [facts EXCEPT ![c.line] = Append(rows, f)]
    BY DEF Facts
  <1>6. ASSUME NEW i \in DOMAIN rows PROVE rows[i].at < tx[r].at
    <2>1. rows[i] \in Fact /\ rows[c.id] \in Fact
      BY <1>1
    <2>2. rows[i].at \in Nat /\ rows[c.id].at \in Nat
      BY <2>1 DEF Fact
    <2>3. rows[i].at <= rows[c.id].at
      <3> HIDE DEF rows
      <3>1. CASE i = c.id
        BY <2>2, <3>1
      <3>2. CASE i # c.id
        <4>1. i < c.id
          BY <1>2, <1>3, <3>2
        <4>2. rows[i].at < rows[c.id].at
          BY <1>1, <4>1 DEF Ordered
        <4> QED
          BY <2>2, <4>2
      <3> QED
        BY <3>1, <3>2
    <2>4. rows[c.id].at < tx[r].at /\ tx[r].at \in Nat
      BY <1>1, <1>2
    <2> HIDE DEF rows
    <2> QED
      BY <2>2, <2>3, <2>4
  <1>7. facts \in [Lines -> Seq(Fact)]
    BY DEF Inv, TypeOK
  <1> HIDE DEF f
  <1>8. Facts(r)[c.line] = Append(rows, f)
        /\ \A l \in Lines \ {c.line} : Facts(r)[l] = facts[l]
    BY <1>1, <1>5, <1>7
  <1> QED
    BY <1>2, <1>4, <1>5, <1>6, <1>8 DEF f

LEMMA JudgedFacts ==
  ASSUME Inv, NEW r \in Requests, Judge(r)
  PROVE  /\ facts' \in [Lines -> Seq(Fact)]
         /\ Rows'
         /\ \A l \in Lines : \A i \in DOMAIN facts[l] :
               i \in DOMAIN facts'[l] /\ facts'[l][i] = facts[l][i]
PROOF
  <1>1. tx[r].pc = "judge" /\ facts' = Facts(r) /\ UNCHANGED <<matched, clock>>
    BY DEF Judge
  <1>2. facts \in [Lines -> Seq(Fact)] /\ Rows
    BY DEF Inv, TypeOK
  <1>3. CASE tx[r].call.kind # "match"
    <2>1. facts' = facts
      BY <1>1, <1>3 DEF Facts
    <2> QED
      BY <1>1, <1>2, <2>1 DEF Rows
  <1>4. CASE tx[r].call.kind = "match"
    <2> DEFINE c == tx[r].call
               rows == facts[c.line]
               f == [at |-> tx[r].at, decision |-> Choice(c), supersedes |-> c.id]
    <2>1. /\ c.line \in Lines /\ rows \in Seq(Fact) /\ Ordered(rows)
          /\ rows # <<>>
      BY <1>1, <1>4, MatchFacts
    <2>2. /\ f \in Fact /\ (\A i \in DOMAIN rows : rows[i].at < f.at)
          /\ c.id = Len(rows)
          /\ facts' = [facts EXCEPT ![c.line] = Append(rows, f)]
          /\ facts'[c.line] = Append(rows, f)
          /\ \A l \in Lines \ {c.line} : facts'[l] = facts[l]
      BY <1>1, <1>4, ResolvedRows
    <2>3. f.at <= clock /\ f.supersedes = Len(rows)
      BY <1>1, <2>2 DEF Inv, Request
    <2> HIDE DEF f
    <2>4. /\ Append(rows, f) \in Seq(Fact) /\ Ordered(Append(rows, f))
          /\ DOMAIN Append(rows, f) = DOMAIN rows \cup {Len(rows) + 1}
          /\ \A i \in DOMAIN rows : Append(rows, f)[i] = rows[i]
          /\ Append(rows, f)[Len(rows) + 1] = f
      <3>1. /\ rows \in Seq(Fact) /\ Ordered(rows) /\ f \in Fact
            /\ \A i \in DOMAIN rows : rows[i].at < f.at
        BY <2>1, <2>2
      <3> HIDE DEF rows
      <3> QED
        BY <3>1, Appended
    <2> HIDE DEF rows
    <2>5. facts' \in [Lines -> Seq(Fact)]
      BY <1>2, <2>2, <2>4
    <2>6. Rows'
      <3> SUFFICES ASSUME NEW l \in Lines
                   PROVE  /\ Ordered(facts'[l])
                          /\ \A i \in DOMAIN facts'[l] :
                                /\ facts'[l][i].at <= clock'
                                /\ facts'[l][i].supersedes = i - 1
                          /\ ~matched' => facts'[l] = <<>>
        BY DEF Rows
      <3>1. CASE l # c.line
        BY <1>1, <1>2, <2>2, <3>1 DEF Rows
      <3>2. CASE l = c.line
        <4>1. matched
          BY <1>2, <2>1 DEF Rows, rows
        <4>2. \A i \in DOMAIN rows : rows[i].at <= clock /\ rows[i].supersedes = i - 1
          BY <1>2, <2>1 DEF Rows, rows
        <4>3. Len(rows) + 1 - 1 = Len(rows)
          BY <2>1 DEF rows
        <4>4. \A i \in DOMAIN Append(rows, f) :
                 /\ Append(rows, f)[i].at <= clock
                 /\ Append(rows, f)[i].supersedes = i - 1
          BY <2>3, <2>4, <4>2, <4>3
        <4> QED
          BY <1>1, <2>2, <2>4, <3>2, <4>1, <4>4
      <3> QED
        BY <3>1, <3>2
    <2>7. ASSUME NEW l \in Lines, NEW i \in DOMAIN facts[l]
          PROVE  i \in DOMAIN facts'[l] /\ facts'[l][i] = facts[l][i]
      <3>1. CASE l # c.line
        BY <2>2, <3>1
      <3>2. CASE l = c.line
        BY <2>2, <2>4, <3>2 DEF rows
      <3> QED
        BY <3>1, <3>2
    <2> QED
      BY <2>5, <2>6, <2>7
  <1> QED
    BY <1>3, <1>4

LEMMA JudgeStep ==
  ASSUME Inv, NEW r \in Requests, Judge(r)
  PROVE  Inv'
PROOF
  <1>1. /\ tx[r].pc = "judge" /\ tx' = [tx EXCEPT ![r] = Idle]
        /\ UNCHANGED <<matched, intents, clock>>
        /\ selection' = Selection(r) /\ quantity' = BuyersQuantity(r)
    BY DEF Judge
  <1>2. quotation' \in Row
    <2>1. quotation \in Row /\ quotation.version + 1 \in Nat
      BY DEF Inv, TypeOK, Row
    <2>2. quotation' = quotation
          \/ quotation' = [state |-> "READY", version |-> quotation.version + 1]
      BY DEF Judge
    <2> QED
      BY <2>1, <2>2 DEF Row, States
  <1>3. tx[r].call \in Calls
    BY <1>1 DEF Inv, Request
  <1>4. selection' \in Scenarios \cup {NoScenario}
    BY <1>1, <1>3, CallFacts DEF Selection, Inv, TypeOK
  <1>5. quantity' \in [Lines -> Nat]
    <2>1. quantity \in [Lines -> Nat]
      BY DEF Inv, TypeOK
    <2>2. CASE tx[r].call.kind # "quantities"
      BY <1>1, <2>1, <2>2 DEF BuyersQuantity
    <2>3. CASE tx[r].call.kind = "quantities"
      <3>1. tx[r].call.quantity \in Nat
        BY <1>3, <2>3, CallFacts
      <3>2. quantity' = [l \in Lines |-> IF l \in tx[r].call.lines
                                         THEN tx[r].call.quantity ELSE quantity[l]]
        BY <1>1, <2>3 DEF BuyersQuantity
      <3> QED
        BY <2>1, <3>1, <3>2
    <2> QED
      BY <2>2, <2>3
  <1> QED
    BY <1>1, <1>2, <1>4, <1>5, JudgedFacts, CommitStep
------------------------------------------------------------------------------
(* The invariant holds *)

LEMMA InitInv == Init => Inv
PROOF
  <1> SUFFICES ASSUME Init PROVE Inv
    OBVIOUS
  <1>1. TypeOK
    <2>1. quotation \in Row
      BY DEF Init, Row, States, Reviewable
    <2>2. facts \in [Lines -> Seq(Fact)] /\ quantity \in [Lines -> Nat]
      BY DEF Init, Unset
    <2>3. tx \in [Requests -> Slot]
      BY IdleSlot DEF Init
    <2> QED
      BY <2>1, <2>2, <2>3 DEF Init, TypeOK
  <1>2. Rows
    BY DEF Init, Rows, Ordered
  <1>3. \A r \in Requests : Request(r) /\ ~Locked(r)
    BY IdleSlot DEF Init, Request, Locked
  <1> QED
    BY <1>1, <1>2, <1>3 DEF Inv, Exclusive

LEMMA NextInv == Inv /\ [Next]_vars => Inv'
PROOF
  <1> SUFFICES ASSUME Inv, [Next]_vars PROVE Inv'
    OBVIOUS
  <1>1. CASE MatchCandidates
    BY <1>1, MatchCandidatesStep
  <1>2. ASSUME NEW r \in Requests, NEW c \in Asked, Begin(r, c) PROVE Inv'
    BY <1>2, BeginStep
  <1>3. ASSUME NEW r \in Requests,
               \/ RollBack(r) \/ Lock(r) \/ Write(r) \/ Judge(r)
               \/ StartSelected(r) \/ StartHeader(r) \/ StartLines(r)
               \/ StartCreate(r)
        PROVE  Inv'
    BY <1>3, RollBackStep, LockStep, WriteStep, JudgeStep, StartStep,
       StartCreateStep
  <1>4. CASE UNCHANGED vars
    BY <1>4 DEF vars, tables, Inv, TypeOK, Rows, Request, Informed,
                StillAccepted, Locked, Exclusive, Choice
  <1> QED
    BY <1>1, <1>2, <1>3, <1>4 DEF Next

\* The invariant the other theorems rest on.
THEOREM Invariant == Spec => []Inv
PROOF
  <1>1. Init => Inv
    BY InitInv
  <1>2. Inv /\ [Next]_vars => Inv'
    BY NextInv
  <1> QED
    BY <1>1, <1>2, PTL DEF Spec

\* Every variable keeps its type (all of QuotationReview's state).
THEOREM TypeCorrect == Spec => []TypeOK
PROOF
  <1>1. Inv => TypeOK
    BY DEF Inv
  <1> QED
    BY <1>1, Invariant, PTL

\* The decision read as a line's latest by created_at, the time its transaction
\* began, is the one committed last (latest-match-decisions.ts, matching.ts
\* assertLatestMatch).
THEOREM LatestCommittedLast == Spec => []LatestIsLast
PROOF
  <1>1. Inv => LatestIsLast
    <2> SUFFICES ASSUME Inv, NEW l \in Lines, facts[l] # <<>>
                 PROVE  Latest(facts[l]) = Len(facts[l])
      BY DEF LatestIsLast
    <2>1. facts[l] \in Seq(Fact) /\ Ordered(facts[l])
      BY DEF Inv, TypeOK, Rows
    <2> QED
      BY <2>1, LatestOfOrdered
  <1> QED
    BY <1>1, Invariant, PTL

\* Of two resolutions of one match the second is refused (matching.ts resolve).
THEOREM NeverOverwrittenBlind == Spec => []NoBlindOverwrite
PROOF
  <1>1. Inv => NoBlindOverwrite
    BY DEF Inv, Rows, NoBlindOverwrite
  <1> QED
    BY <1>1, Invariant, PTL

\* The version check of the update that opens the gate never fails: the row is
\* locked from the read to the commit (quotation.ts loadForUpdate, transition).
THEOREM VersionAlwaysCurrent == Spec => []NoVersionConflict
PROOF
  <1>1. Inv => NoVersionConflict
    BY DEF Inv, Request, Locked, NoVersionConflict
  <1> QED
    BY <1>1, Invariant, PTL

------------------------------------------------------------------------------
(* The two judgements of a scenario *)

\* The decision in force of a line is its last row's.
LEMMA InForceOf ==
  ASSUME NEW fs \in [Lines -> Seq(Fact)], NEW l \in Lines, Ordered(fs[l])
  PROVE  /\ fs[l] = <<>> => InForce(fs)[l] = Undecided
         /\ fs[l] # <<>> => /\ InForce(fs)[l] = fs[l][Len(fs[l])].decision
                            /\ InForce(fs)[l] \in Decisions
                            /\ InForce(fs)[l] # Undecided
PROOF
  <1>1. CASE fs[l] = <<>>
    BY <1>1 DEF InForce
  <1>2. CASE fs[l] # <<>>
    <2>1. fs[l] \in Seq(Fact) /\ Latest(fs[l]) = Len(fs[l])
      BY <1>2, LatestOfOrdered
    <2>2. InForce(fs)[l] = fs[l][Len(fs[l])].decision
      BY <1>2, <2>1 DEF InForce
    <2>3. Len(fs[l]) \in 1..Len(fs[l])
      BY <1>2, <2>1, EmptySeq
    <2>4. fs[l][Len(fs[l])] \in Fact
      BY <2>1, <2>3, ElementOfSeq
    <2>5. fs[l][Len(fs[l])].decision \in Decisions
      BY <2>4 DEF Fact
    <2> QED
      BY <1>2, <2>2, <2>5, SheetAssumption
  <1> QED
    BY <1>1, <1>2

\* What the gate lets through can be negotiated, line by line.
LEMMA ReviewedIsNegotiable ==
  ASSUME NEW s, NEW d, NEW q, Reviewed(s, d, q),
         \A l \in Lines : d[l] \in Decisions \cup {Undecided}
  PROVE  Unclear(s, d, q) = {} /\ Negotiable(s, d, q) # {}
PROOF
  <1>1. ASSUME NEW l \in LinesOf(s), d[l] # Excluded
        PROVE  l \in Negotiable(s, d, q)
    <2>1. l \in Lines /\ d[l] \notin {Undecided, NoProduct} /\ Clear(l, q[l])
      BY <1>1 DEF Reviewed, Unresolved, Blockers, LinesOf
    <2>2. l \in Included(s, d)
      BY <1>1, <2>1 DEF Included, Decisions
    <2> QED
      BY <2>1, <2>2 DEF Negotiable, Clear, StartQuantity
  <1>2. PICK l \in LinesOf(s) : d[l] \in Products
    BY DEF Reviewed, Included
  <1>3. d[l] # Excluded
    BY <1>2, SheetAssumption
  <1>4. Negotiable(s, d, q) # {}
    BY <1>1, <1>2, <1>3
  <1> QED
    BY <1>1, <1>4 DEF Unclear

\* The review gate (commercial-review.ts hasBlockers, matching-unresolved.ts) and
\* the start of a negotiation (negotiation-start-facts.ts) agree this way.
THEOREM GateSuffices == Spec => []GateAgrees
PROOF
  <1>1. Inv => GateAgrees
    <2> SUFFICES ASSUME Inv, NEW s \in Scenarios,
                        Reviewed(s, InForce(facts), quantity)
                 PROVE  /\ Unclear(s, InForce(facts), quantity) = {}
                        /\ Negotiable(s, InForce(facts), quantity) # {}
      BY DEF GateAgrees
    <2>1. \A l \in Lines : InForce(facts)[l] \in Decisions \cup {Undecided}
      <3> TAKE l \in Lines
      <3>1. facts \in [Lines -> Seq(Fact)] /\ Ordered(facts[l])
        BY DEF Inv, TypeOK, Rows
      <3> QED
        BY <3>1, InForceOf
    <2> QED
      BY <2>1, ReviewedIsNegotiable
  <1> QED
    BY <1>1, Invariant, PTL
------------------------------------------------------------------------------
(* The refinement: the review keeps the gate's promise *)

LEMMA GateReviewed ==
  ASSUME NEW s, NEW d, NEW q
  PROVE  Gate!Reviewed(s, d, q) <=> Reviewed(s, d, q)
PROOF
  <1>1. \A l, n : Gate!Clear(l, n) <=> Clear(l, n)
    BY DEF Gate!Clear, Clear, Gate!Priced, Priced, Gate!CommercialQuantity, CommercialQuantity
  <1>2. Gate!LinesOf(s) = LinesOf(s)
    BY DEF Gate!LinesOf, LinesOf
  <1>3. Gate!Unresolved(s, d) = Unresolved(s, d)
        /\ Gate!Included(s, d) = Included(s, d)
    BY <1>2 DEF Gate!Unresolved, Unresolved, Gate!Included, Included
  <1>4. Gate!Blockers(s, d, q) = Blockers(s, d, q)
    BY <1>1, <1>2 DEF Gate!Blockers, Blockers
  <1> QED
    BY <1>3, <1>4 DEF Gate!Reviewed, Reviewed

LEMMA InitGate == Init => Gate!Init
PROOF
  <1> SUFFICES ASSUME Init PROVE Gate!Init
    OBVIOUS
  <1>1. InForce(facts) = [l \in Lines |-> Undecided]
    BY DEF Init, InForce
  <1> QED
    BY <1>1 DEF Init, Gate!Init, Unset, Reviewable

LEMMA MatchGate ==
  ASSUME Inv, MatchCandidates
  PROVE  Gate!Match
PROOF
  <1>1. ASSUME NEW l \in Lines
        PROVE  /\ InForce(facts)[l] = Undecided
               /\ InForce(facts')[l] = Certain[l]
    <2>1. InForce(facts)[l] = Undecided
      BY MatchedRows DEF InForce
    <2> DEFINE f == [at |-> clock + 1, decision |-> Certain[l], supersedes |-> 0]
    <2>2. facts'[l] = <<f>> /\ f \in Fact
      BY MatchedRows
    <2>3. f.decision = Certain[l]
      OBVIOUS
    <2> HIDE DEF f
    <2>4. Latest(<<f>>) = 1 /\ <<f>>[1] = f /\ <<f>> # <<>>
      BY <2>2, LatestOfOne
    <2>5. InForce(facts')[l] = f.decision
      BY <2>2, <2>4 DEF InForce
    <2> QED
      BY <2>1, <2>3, <2>5
  <1>2. \A l \in Lines : Certain[l] \in Decisions /\ Certain[l] # Excluded
    BY ReviewAssumption, SheetAssumption DEF Decisions
  <1>3. DOMAIN InForce(facts') = Lines
    BY DEF InForce
  <1>4. UNCHANGED <<quotation, selection, quantity>>
    BY DEF MatchCandidates
  <1> QED
    BY <1>1, <1>2, <1>3, <1>4 DEF Gate!Match, Gate!Decisions, Decisions

\* The gate opens exactly when the command completes the review.
LEMMA JudgedGate ==
  ASSUME Inv, NEW r \in Requests, Judge(r)
  PROVE  Gate!Judged(About(tx[r].call))
PROOF
  <1> DEFINE done == /\ selection' = About(tx[r].call)
                     /\ Reviewed(About(tx[r].call), InForce(facts'), quantity')
  <1>1. tx[r].row = quotation
    BY DEF Inv, Request, Locked, Judge
  <1>2. Opens(r) <=> quotation.state # "READY" /\ done
    BY <1>1 DEF Opens, Judge
  <1>3. quotation'.state = IF Opens(r) THEN "READY" ELSE quotation.state
    BY DEF Judge
  <1>4. quotation'.state = IF done THEN "READY" ELSE quotation.state
    BY <1>2, <1>3
  <1> QED
    BY <1>4, GateReviewed DEF Gate!Judged

LEMMA SelectGate ==
  ASSUME Inv, NEW r \in Requests, Judge(r), tx[r].call.kind = "select"
  PROVE  Gate!Next
PROOF
  <1>1. tx[r].call \in Calls
    BY DEF Inv, Request, Judge
  <1>2. tx[r].call.scenario \in Scenarios
    BY <1>1, CallFacts
  <1>3. /\ selection' = tx[r].call.scenario
        /\ UNCHANGED <<facts, quantity>>
        /\ About(tx[r].call) = tx[r].call.scenario
    BY DEF Judge, Selection, Facts, BuyersQuantity, About
  <1>4. Gate!Select(tx[r].call.scenario)
    BY <1>3, JudgedGate DEF Gate!Select
  <1> QED
    BY <1>2, <1>4 DEF Gate!Next

LEMMA ResolveGate ==
  ASSUME Inv, NEW r \in Requests, Judge(r), tx[r].call.kind = "match"
  PROVE  Gate!Next
PROOF
  <1> DEFINE c == tx[r].call
             rows == facts[c.line]
             f == [at |-> tx[r].at, decision |-> Choice(c), supersedes |-> c.id]
  <1>1. tx[r].pc = "judge" /\ facts' = Facts(r)
    BY DEF Judge
  <1>2. /\ c.line \in Lines /\ Choice(c) \in Decisions
        /\ rows \in Seq(Fact) /\ Ordered(rows) /\ rows # <<>>
    BY <1>1, MatchFacts
  <1>3. /\ f \in Fact /\ \A i \in DOMAIN rows : rows[i].at < f.at
        /\ facts'[c.line] = Append(rows, f)
        /\ \A l \in Lines \ {c.line} : facts'[l] = facts[l]
    BY <1>1, ResolvedRows
  <1>4. f.decision = Choice(c)
    OBVIOUS
  <1> HIDE DEF f
  <1>5. /\ Append(rows, f) # <<>> /\ Ordered(Append(rows, f))
        /\ Len(Append(rows, f)) = Len(rows) + 1
        /\ Append(rows, f)[Len(rows) + 1] = f
    BY <1>2, <1>3, Appended
  <1> HIDE DEF rows
  <1>6. facts \in [Lines -> Seq(Fact)] /\ facts' \in [Lines -> Seq(Fact)]
    BY JudgedFacts DEF Inv, TypeOK
  <1>7. InForce(facts')[c.line] = Choice(c)
    <2>1. facts'[c.line] # <<>> /\ Ordered(facts'[c.line])
      BY <1>3, <1>5
    <2>2. InForce(facts')[c.line] = facts'[c.line][Len(facts'[c.line])].decision
      BY <1>2, <1>6, <2>1, InForceOf
    <2>3. facts'[c.line][Len(facts'[c.line])] = f
      BY <1>3, <1>5
    <2> QED
      BY <1>4, <2>2, <2>3
  <1>8. InForce(facts)[c.line] # Undecided
    BY <1>2, <1>6, InForceOf DEF rows
  <1>9. \A l \in Lines \ {c.line} : InForce(facts')[l] = InForce(facts)[l]
    BY <1>3 DEF InForce
  <1>10. InForce(facts') = [InForce(facts) EXCEPT ![c.line] = Choice(c)]
    <2>1. InForce(facts) = [l \in Lines |-> InForce(facts)[l]]
          /\ InForce(facts') = [l \in Lines |-> InForce(facts')[l]]
      BY DEF InForce
    <2> QED
      BY <1>2, <1>7, <1>9, <2>1
  <1>11. Choice(c) \in Products \cup {Excluded}
    <2>1. Choice(c) # NoProduct
      BY <1>1 DEF Inv, Request, StillAccepted
    <2> QED
      BY <1>2, <2>1 DEF Decisions
  <1>12. UNCHANGED <<selection, quantity>> /\ About(c) = ScenarioOf[c.line]
    BY DEF Judge, Selection, BuyersQuantity, About
  <1>13. Gate!Judged(ScenarioOf[c.line])
    BY <1>12, JudgedGate
  <1>14. Gate!Resolve(c.line, Choice(c))
    BY <1>8, <1>10, <1>12, <1>13 DEF Gate!Resolve
  <1> QED
    BY <1>2, <1>11, <1>14 DEF Gate!Next

LEMMA QuantitiesGate ==
  ASSUME Inv, NEW r \in Requests, Judge(r), tx[r].call.kind = "quantities"
  PROVE  Gate!Next
PROOF
  <1> DEFINE c == tx[r].call
  <1>1. c \in Calls /\ Informed(r) /\ StillAccepted(r)
    BY DEF Inv, Request, Judge
  <1>2. c.scenario \in Scenarios /\ c.quantity \in Nat \ {0}
        /\ c.lines \subseteq LinesOf(c.scenario)
    BY <1>1, CallFacts DEF Informed
  <1>3. selection = c.scenario /\ About(c) = c.scenario
    BY <1>1 DEF StillAccepted, About
  <1>4. UNCHANGED <<selection, facts>>
        /\ quantity' = [l \in Lines |-> IF l \in c.lines THEN c.quantity
                                                         ELSE quantity[l]]
    BY DEF Judge, Selection, Facts, BuyersQuantity
  <1>5. \A l \in Lines : \/ quantity'[l] = quantity[l]
                         \/ ScenarioOf[l] = selection /\ quantity'[l] # 0
    BY <1>2, <1>3, <1>4 DEF LinesOf
  <1>6. Gate!Judged(selection)
    BY <1>3, JudgedGate
  <1>7. Gate!SetQuantities
    BY <1>2, <1>3, <1>4, <1>5, <1>6 DEF Gate!SetQuantities
  <1> QED
    BY <1>7 DEF Gate!Next

LEMMA StepGate == Inv /\ [Next]_vars => [Gate!Next]_(Gate!gateVars)
PROOF
  <1> SUFFICES ASSUME Inv, [Next]_vars PROVE [Gate!Next]_(Gate!gateVars)
    OBVIOUS
  <1>1. CASE MatchCandidates
    BY <1>1, MatchGate DEF Gate!Next
  <1>2. ASSUME NEW r \in Requests, Judge(r) PROVE Gate!Next
    <2>1. tx[r].call \in Calls /\ tx[r].call.kind # "start"
      BY <1>2 DEF Inv, Request, Locked, Judge
    <2>2. tx[r].call.kind \in {"select", "match", "quantities"}
      BY <2>1, CallFacts
    <2> QED
      BY <1>2, <2>2, SelectGate, ResolveGate, QuantitiesGate
  <1>3. ASSUME UNCHANGED tables PROVE UNCHANGED Gate!gateVars
    BY <1>3 DEF tables, Gate!gateVars, InForce
  <1>4. ASSUME NEW r \in Requests,
               \/ \E c \in Asked : Begin(r, c)
               \/ RollBack(r) \/ Lock(r) \/ Write(r)
               \/ StartSelected(r) \/ StartHeader(r) \/ StartLines(r)
               \/ StartCreate(r)
        PROVE  UNCHANGED tables
    BY <1>4 DEF Begin, RollBack, Lock, Write, StartSelected, StartHeader,
                StartLines, StartCreate
  <1>5. CASE UNCHANGED vars
    BY <1>3, <1>5 DEF vars
  <1> QED
    BY <1>1, <1>2, <1>3, <1>4, <1>5 DEF Next

\* Each command acts at one instant, on the latest decisions, and opens the gate
\* exactly when it completes the review (ReviewGate).
THEOREM KeepsGate == Spec => ImplementsReviewGate
PROOF
  <1>1. Init => Gate!Init
    BY InitGate
  <1>2. Inv /\ [Next]_vars => [Gate!Next]_(Gate!gateVars)
    BY StepGate
  <1> QED
    BY <1>1, <1>2, Invariant, PTL DEF Spec, ImplementsReviewGate, Gate!Spec
==============================================================================
