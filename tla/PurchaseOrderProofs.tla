------------------------- MODULE PurchaseOrderProofs -------------------------
(***************************************************************************)
(* Theorems about PurchaseOrder for any number of requests, negotiations,  *)
(* keys and actors.  All rest on one inductive invariant, Inv: what the    *)
(* ledger's rows say of each other (Books), what a request that holds the  *)
(* row or the counter may rely on (Request), and that no two hold the same *)
(* (Apart).                                                                *)
(***************************************************************************)
EXTENDS PurchaseOrder, TLAPS

------------------------------------------------------------------------------
(* The invariant *)

\* The rows of purchase_order, the counter and the negotiations agree.
Books ==
    /\ OneOrderPerCommitment
    /\ counter > 0
    /\ \A o \in orders : o.number > 0 /\ o.number < counter
    /\ \A i \in 1 .. (counter - 1) : \E o \in orders : o.number = i
    /\ \A o, p \in orders : o.number = p.number \/ o.key = p.key => o = p

Told == answers \subseteq {Issued(o) : o \in orders}

\* What a request knows after each of its statements.
Request(r) ==
    /\ pc[r] # "idle" => call[r] \in Calls /\ call[r].token \in tokens
    /\ pc[r] \in Holding =>
           /\ state[call[r].negotiation] = "RECOMMENDED"
           /\ call[r].token.negotiation = call[r].negotiation
           /\ call[r].token.actor = call[r].actor
           /\ now[r] <= call[r].token.expires
           /\ now[r] < OfferExpiry
    /\ pc[r] \in Numbering => number[r] = counter
    /\ pc[r] \in {"mark", "commit"} => \A o \in orders : o.key # call[r].key
    /\ pc[r] = "reply" => \E o \in orders : Identity(call[r], number[r]) = Issued(o)

\* Row and counter locks are exclusive.
Apart(r, q) ==
    /\ pc[r] \in Holding /\ pc[q] \in Holding =>
           call[r].negotiation # call[q].negotiation
    /\ ~(pc[r] \in Numbering /\ pc[q] \in Numbering)

Inv ==
    /\ TypeOK
    /\ Books
    /\ ConfirmedInTime
    /\ Told
    /\ \A r \in Requests : Request(r)
    /\ \A r, q \in Requests : r # q => Apart(r, q)

------------------------------------------------------------------------------
(* Steps that change one request and nothing else *)

\* Everyone but r stands where it stood.
OthersStay(r) ==
    \A q \in Requests \ {r} : /\ pc'[q] = pc[q] /\ call'[q] = call[q]
                              /\ now'[q] = now[q] /\ number'[q] = number[q]

LEMMA SlotStep ==
  ASSUME Inv, NEW r \in Requests,
         UNCHANGED <<db, tokens, answers>>,
         OthersStay(r), TypeOK', Request(r)',
         \A q \in Requests \ {r} : Apart(r, q)'
  PROVE  Inv'
PROOF
  <1>1. Books' /\ ConfirmedInTime' /\ Told'
    BY DEF Inv, Books, OneOrderPerCommitment, ConfirmedInTime, Told, Issued,
           Identity, db
  <1>2. ASSUME NEW q \in Requests PROVE Request(q)'
    <2>1. CASE q = r
      BY <2>1
    <2>2. CASE q # r
      BY <2>2 DEF Inv, Request, OthersStay, db, Issued, Identity, Calls
    <2> QED
      BY <2>1, <2>2
  <1>3. ASSUME NEW p \in Requests, NEW q \in Requests, p # q PROVE Apart(p, q)'
    <2>1. CASE p = r
      BY <1>3, <2>1
    <2>2. CASE q = r
      <3>1. Apart(q, p)'
        BY <1>3, <2>2
      <3> QED
        BY <3>1 DEF Apart
    <2>3. CASE p # r /\ q # r
      <3>1. Apart(p, q)
        BY <1>3 DEF Inv
      <3> QED
        BY <3>1, <2>3 DEF Apart, OthersStay
    <2> QED
      BY <2>1, <2>2, <2>3
  <1> QED
    BY <1>1, <1>2, <1>3 DEF Inv

\* A step to pc "to" within or out of what r holds disturbs nobody.
LEMMA GotoStep ==
  ASSUME Inv, NEW r \in Requests, NEW to \in Steps, Goto(r, to),
         UNCHANGED <<db, tokens, clock, answers>>,
         to \in Holding => pc[r] \in Holding,
         to \in Numbering => pc[r] \in Numbering,
         Request(r)'
  PROVE  Inv'
PROOF
  <1>1. TypeOK'
    BY DEF Inv, TypeOK, Goto, db
  <1>2. OthersStay(r)
    BY DEF OthersStay, Goto, Inv, TypeOK
  <1>3. ASSUME NEW q \in Requests \ {r} PROVE Apart(r, q)'
    <2>1. Apart(r, q)
      BY DEF Inv
    <2>2. pc'[r] = to /\ pc'[q] = pc[q] /\ UNCHANGED call
      BY DEF Goto, Inv, TypeOK
    <2> QED
      BY <2>1, <2>2 DEF Apart
  <1> QED
    BY <1>1, <1>2, <1>3, SlotStep

\* A request that ends, whatever it was doing, leaves the rest as it was.
LEMMA ReleaseStep ==
  ASSUME Inv, NEW r \in Requests, Release(r), UNCHANGED <<db, tokens, clock, answers>>
  PROVE  Inv'
PROOF
  <1>1. TypeOK'
    BY DEF Inv, TypeOK, Release, db, Steps
  <1>2. OthersStay(r)
    BY DEF OthersStay, Release, Inv, TypeOK
  <1>3. pc'[r] = "idle"
    BY DEF Release, Inv, TypeOK
  <1>4. Request(r)'
    BY <1>3 DEF Request, Holding, Numbering
  <1>5. ASSUME NEW q \in Requests \ {r} PROVE Apart(r, q)'
    BY <1>3 DEF Apart, Holding, Numbering
  <1> QED
    BY <1>1, <1>2, <1>4, <1>5, SlotStep

------------------------------------------------------------------------------
(* One lemma for each action *)

LEMMA InitInv == Init => Inv
PROOF
  <1> SUFFICES ASSUME Init PROVE Inv
    OBVIOUS
  <1>1. TypeOK
    BY DEF Init, TypeOK, States, Steps
  <1>2. Books
    BY DEF Init, Books, OneOrderPerCommitment
  <1>3. ConfirmedInTime /\ Told
    BY DEF Init, ConfirmedInTime, Told
  <1>4. \A r \in Requests : Request(r)
    BY DEF Init, Request, Holding, Numbering
  <1>5. \A r, q \in Requests : Apart(r, q)
    BY DEF Init, Apart, Holding, Numbering
  <1> QED
    BY <1>1, <1>2, <1>3, <1>4, <1>5 DEF Inv

LEMMA RecommendInv ==
  ASSUME Inv, NEW n \in Negotiations, Recommend(n)
  PROVE  Inv'
PROOF
  <1>1. TypeOK'
    BY DEF Inv, TypeOK, Recommend, slots, States
  <1>2. \A m \in Negotiations :
            /\ state'[m] = "PO_COMMITTED" <=> state[m] = "PO_COMMITTED"
            /\ state[m] = "RECOMMENDED" => state'[m] = "RECOMMENDED"
    BY DEF Recommend, Inv, TypeOK
  <1>3. Books'
    BY <1>2 DEF Inv, Books, OneOrderPerCommitment, Recommend
  <1>4. ConfirmedInTime' /\ Told'
    BY DEF Inv, ConfirmedInTime, Told, Issued, Identity, Recommend
  <1>5. ASSUME NEW r \in Requests PROVE Request(r)'
    <2>1. Request(r)
      BY DEF Inv
    <2>2. pc[r] \in Holding => call[r].negotiation \in Negotiations
      BY <2>1 DEF Request, Holding, Calls
    <2> QED
      BY <1>2, <2>1, <2>2 DEF Request, Recommend, slots, Issued, Identity
  <1>6. \A r, q \in Requests : r # q => Apart(r, q)'
    BY DEF Inv, Apart, Recommend, slots
  <1> QED
    BY <1>1, <1>3, <1>4, <1>5, <1>6 DEF Inv

LEMMA TickInv ==
  ASSUME Inv, Tick
  PROVE  Inv'
PROOF
  <1>1. TypeOK'
    BY DEF Inv, TypeOK, Tick, slots, db
  <1>2. Books' /\ ConfirmedInTime' /\ Told'
    BY DEF Inv, Books, OneOrderPerCommitment, ConfirmedInTime, Told, Issued,
           Identity, db, Tick
  <1>3. \A r \in Requests : Request(r)'
    BY DEF Inv, Request, Tick, slots, db, Issued, Identity
  <1>4. \A r, q \in Requests : r # q => Apart(r, q)'
    BY DEF Inv, Apart, Tick, slots
  <1> QED
    BY <1>1, <1>2, <1>3, <1>4 DEF Inv

LEMMA PreviewInv ==
  ASSUME Inv, NEW n \in Negotiations, NEW a \in Actors, Preview(n, a)
  PROVE  Inv'
PROOF
  <1>1. TypeOK'
    <2>1. clock + Lifetime \in Nat
      BY PurchaseOrderAssumption DEF Inv, TypeOK
    <2> QED
      BY <2>1 DEF Inv, TypeOK, Preview, slots, db, Tokens
  <1>2. tokens \subseteq tokens'
    BY DEF Preview
  <1>3. Books' /\ Told'
    BY DEF Inv, Books, OneOrderPerCommitment, Told, Issued, Identity, db, Preview
  <1>4. ConfirmedInTime'
    BY <1>2 DEF Inv, ConfirmedInTime, Preview, db
  <1>5. \A r \in Requests : Request(r)'
    BY <1>2 DEF Inv, Request, Preview, slots, db, Issued, Identity
  <1>6. \A r, q \in Requests : r # q => Apart(r, q)'
    BY DEF Inv, Apart, Preview, slots
  <1> QED
    BY <1>1, <1>3, <1>4, <1>5, <1>6 DEF Inv

LEMMA ReceiveInv ==
  ASSUME Inv, NEW r \in Requests, NEW n \in Negotiations, NEW a \in Actors,
         NEW k \in Keys, NEW t \in tokens, Receive(r, n, a, k, t)
  PROVE  Inv'
PROOF
  <1> DEFINE c == [negotiation |-> n, actor |-> a, key |-> k, token |-> t]
  <1>1. c \in Calls /\ c.token \in tokens
    BY DEF Calls, Inv, TypeOK
  <1>2. pc'[r] = "lookup" /\ call'[r] = c
    BY DEF Receive, Inv, TypeOK
  <1>3. TypeOK'
    BY <1>1 DEF Inv, TypeOK, Receive, db, Steps
  <1>4. OthersStay(r)
    BY DEF OthersStay, Receive, Inv, TypeOK
  <1>5. Request(r)'
    BY <1>1, <1>2 DEF Request, Receive, Holding, Numbering
  <1>6. ASSUME NEW q \in Requests \ {r} PROVE Apart(r, q)'
    BY <1>2 DEF Apart, Holding, Numbering
  <1> QED
    BY <1>3, <1>4, <1>5, <1>6, SlotStep DEF Receive

LEMMA LookupInv ==
  ASSUME Inv, NEW r \in Requests, Lookup(r)
  PROVE  Inv'
PROOF
  <1>1. pc[r] = "lookup" /\ Request(r)
    BY DEF Lookup, Inv
  <1>2. UNCHANGED <<db, tokens, clock, answers>>
    BY DEF Lookup
  <1>3. ASSUME NEW to \in {"authorize", "refused"}, Goto(r, to) PROVE Inv'
    <2>1. pc'[r] = to /\ UNCHANGED <<call, now, number>>
      BY <1>3 DEF Goto, Inv, TypeOK
    <2>2. Request(r)'
      BY <1>1, <1>2, <2>1 DEF Request, Holding, Numbering
    <2> QED
      BY <1>2, <1>3, <2>2, GotoStep DEF Steps, Holding, Numbering
  <1>4. ASSUME NEW o \in orders, o.key = call[r].key, SameCommand(o, call[r]),
               pc' = [pc EXCEPT ![r] = "reply"],
               number' = [number EXCEPT ![r] = o.number], UNCHANGED <<call, now>>
        PROVE  Inv'
    <2>1. pc'[r] = "reply" /\ number'[r] = o.number
      BY <1>4 DEF Inv, TypeOK
    <2>2. TypeOK'
      BY <1>2, <1>4 DEF Inv, TypeOK, db, Steps, Orders
    <2>3. OthersStay(r)
      BY <1>4 DEF OthersStay, Inv, TypeOK
    <2>4. Identity(call[r], o.number) = Issued(o)
      BY <1>4 DEF Identity, Issued, SameCommand
    <2>5. Request(r)'
      BY <1>1, <1>2, <1>4, <2>1, <2>4
      DEF Request, Holding, Numbering, db, Issued, Identity
    <2>6. ASSUME NEW q \in Requests \ {r} PROVE Apart(r, q)'
      BY <2>1 DEF Apart, Holding, Numbering
    <2> QED
      BY <1>2, <2>2, <2>3, <2>5, <2>6, SlotStep
  <1> QED
    BY <1>3, <1>4 DEF Lookup

LEMMA AuthorizeInv ==
  ASSUME Inv, NEW r \in Requests, Authorize(r)
  PROVE  Inv'
PROOF
  <1>1. pc[r] = "authorize" /\ Request(r) /\ call[r] \in Calls
    BY DEF Authorize, Inv, Request
  <1>2. UNCHANGED <<db, tokens, clock, answers>>
    BY DEF Authorize
  <1>3. CASE Issuable(call[r].negotiation) /\ Confirmed(call[r])
    <2>1. /\ pc' = [pc EXCEPT ![r] = "allocate"]
          /\ now' = [now EXCEPT ![r] = clock]
          /\ UNCHANGED <<call, number>>
      BY <1>3 DEF Authorize
    <2>2. pc'[r] = "allocate" /\ now'[r] = clock
      BY <2>1 DEF Inv, TypeOK
    <2>3. TypeOK'
      BY <1>2, <2>1 DEF Inv, TypeOK, db, Steps, Holding
    <2>4. OthersStay(r)
      BY <2>1 DEF OthersStay, Inv, TypeOK
    <2>5. clock <= call[r].token.expires
      BY <1>1, <1>3 DEF Confirmed, Calls, Tokens, Inv, TypeOK
    <2>6. Request(r)'
      BY <1>1, <1>2, <1>3, <2>1, <2>2, <2>5
      DEF Request, Holding, Numbering, db, Issuable, Confirmed
    <2>7. ASSUME NEW q \in Requests \ {r} PROVE Apart(r, q)'
      BY <2>1, <2>2 DEF Apart, Authorize, Locked, Holding, Numbering, Inv, TypeOK
    <2> QED
      BY <1>2, <2>3, <2>4, <2>6, <2>7, SlotStep
  <1>4. CASE ~(Issuable(call[r].negotiation) /\ Confirmed(call[r]))
    <2>1. Goto(r, "refused")
      BY <1>4 DEF Authorize
    <2>2. pc'[r] = "refused" /\ UNCHANGED <<call, now, number>>
      BY <2>1 DEF Goto, Inv, TypeOK
    <2>3. Request(r)'
      BY <1>1, <1>2, <2>2 DEF Request, Holding, Numbering
    <2> QED
      BY <1>2, <2>1, <2>3, GotoStep DEF Steps, Holding, Numbering
  <1> QED
    BY <1>3, <1>4

LEMMA AllocateInv ==
  ASSUME Inv, NEW r \in Requests, Allocate(r)
  PROVE  Inv'
PROOF
  <1>1. pc[r] = "allocate" /\ Request(r)
    BY DEF Allocate, Inv
  <1>2. pc'[r] = "insert" /\ number'[r] = counter
    BY DEF Allocate, Inv, TypeOK
  <1>3. TypeOK'
    BY DEF Inv, TypeOK, Allocate, db, Steps, Holding
  <1>4. OthersStay(r)
    BY DEF OthersStay, Allocate, Inv, TypeOK
  <1>5. Request(r)'
    BY <1>1, <1>2 DEF Request, Holding, Numbering, Allocate, db
  <1>6. ASSUME NEW q \in Requests \ {r} PROVE Apart(r, q)'
    <2>1. Apart(r, q) /\ pc'[q] = pc[q] /\ UNCHANGED call
      BY DEF Inv, Allocate, TypeOK
    <2> QED
      BY <1>1, <2>1 DEF Apart, Holding, Allocate
  <1> QED
    BY <1>3, <1>4, <1>5, <1>6, SlotStep DEF Allocate

LEMMA InsertInv ==
  ASSUME Inv, NEW r \in Requests, Insert(r)
  PROVE  Inv'
PROOF
  <1>1. pc[r] = "insert" /\ Request(r)
    BY DEF Insert, Inv
  <1>2. UNCHANGED <<db, tokens, clock, answers>>
    BY DEF Insert
  <1>3. CASE Release(r)
    BY <1>2, <1>3, ReleaseStep
  <1>4. CASE /\ Goto(r, "mark")
             /\ \A o \in orders : o.key # call[r].key
    <2>1. pc'[r] = "mark" /\ UNCHANGED <<call, now, number>>
      BY <1>4 DEF Goto, Inv, TypeOK
    <2>2. Request(r)'
      BY <1>1, <1>2, <1>4, <2>1 DEF Request, Holding, Numbering, db
    <2> QED
      BY <1>1, <1>2, <1>4, <2>2, GotoStep DEF Steps, Holding, Numbering
  <1> QED
    BY <1>3, <1>4 DEF Insert

LEMMA MarkInv ==
  ASSUME Inv, NEW r \in Requests, Mark(r)
  PROVE  Inv'
PROOF
  <1>1. pc[r] = "mark" /\ Request(r)
    BY DEF Mark, Inv
  <1>2. UNCHANGED <<db, tokens, clock, answers>>
    BY DEF Mark
  <1>3. CASE Release(r)
    BY <1>2, <1>3, ReleaseStep
  <1>4. CASE Goto(r, "commit")
    <2>1. pc'[r] = "commit" /\ UNCHANGED <<call, now, number>>
      BY <1>4 DEF Goto, Inv, TypeOK
    <2>2. Request(r)'
      BY <1>1, <1>2, <2>1 DEF Request, Holding, Numbering, db
    <2> QED
      BY <1>1, <1>2, <1>4, <2>2, GotoStep DEF Steps, Holding, Numbering
  <1> QED
    BY <1>3, <1>4 DEF Mark

\* What a request that commits adds to the ledger.
NewOrder(r) == [negotiation |-> call[r].negotiation, actor |-> call[r].actor,
                key |-> call[r].key, number |-> number[r], at |-> now[r]]

\* The request that commits has its negotiation, its key and the next number to
\* itself: no order has them, and no other request holds them.
LEMMA CommitFacts ==
  ASSUME Inv, NEW r \in Requests, Commit(r)
  PROVE  /\ call[r] \in Calls
         /\ NewOrder(r) \in Orders
         /\ orders' = orders \cup {NewOrder(r)}
         /\ state[call[r].negotiation] = "RECOMMENDED"
         /\ state' = [state EXCEPT ![call[r].negotiation] = "PO_COMMITTED"]
         /\ NewOrder(r).number = counter
         /\ counter' = counter + 1
         /\ \A o \in orders : /\ o.negotiation # call[r].negotiation
                              /\ o.key # call[r].key
                              /\ o.number # counter
         /\ pc'[r] = "reply"
         /\ \A q \in Requests \ {r} : pc'[q] = pc[q]
PROOF
  <1>1. pc[r] = "commit" /\ Request(r)
    BY DEF Commit, Inv
  <1>2. call[r] \in Calls
    BY <1>1 DEF Request
  <1>3. /\ state[call[r].negotiation] = "RECOMMENDED"
        /\ number[r] = counter
        /\ \A o \in orders : o.key # call[r].key
    BY <1>1 DEF Request, Holding, Numbering
  <1>4. NewOrder(r) \in Orders
    BY <1>2 DEF NewOrder, Orders, Calls, Inv, TypeOK
  <1>5. \A o \in orders : o.negotiation # call[r].negotiation
    BY <1>2, <1>3 DEF Inv, Books, OneOrderPerCommitment, Calls
  <1>6. \A o \in orders : o.number # counter
    BY DEF Inv, Books, TypeOK, Orders
  <1>7. pc'[r] = "reply" /\ \A q \in Requests \ {r} : pc'[q] = pc[q]
    BY DEF Commit, Goto, Inv, TypeOK
  <1>8. orders' = orders \cup {NewOrder(r)} /\ NewOrder(r).number = counter
    BY <1>3 DEF Commit, NewOrder
  <1>9. counter' = counter + 1
    BY <1>3 DEF Commit
  <1>10. state' = [state EXCEPT ![call[r].negotiation] = "PO_COMMITTED"]
    BY DEF Commit
  <1> QED
    BY <1>2, <1>3, <1>4, <1>5, <1>6, <1>7, <1>8, <1>9, <1>10

LEMMA CommitBooks ==
  ASSUME Inv, NEW r \in Requests, Commit(r)
  PROVE  Books'
PROOF
  <1> DEFINE new == NewOrder(r)
             n   == call[r].negotiation
  <1>1. /\ new.negotiation = n /\ new.key = call[r].key /\ new.number = counter
        /\ n \in Negotiations
    BY CommitFacts DEF NewOrder, Calls
  <1>2. orders' = orders \cup {new} /\ counter' = counter + 1
    BY CommitFacts
  <1>3. \A o \in orders : o.negotiation # n /\ o.key # new.key /\ o.number # counter
    BY <1>1, CommitFacts
  <1>4. \A m \in Negotiations :
            state'[m] = IF m = n THEN "PO_COMMITTED" ELSE state[m]
    BY CommitFacts DEF Inv, TypeOK
  <1>5. counter \in Nat /\ counter > 0 /\ \A o \in orders : o.number \in Nat
    BY DEF Inv, TypeOK, Books, Orders
  <1> HIDE DEF new, n
  <1>6. OneOrderPerCommitment'
    <2>1. ASSUME NEW m \in Negotiations
          PROVE  state'[m] = "PO_COMMITTED" <=> \E o \in orders' : o.negotiation = m
      <3>1. state[m] = "PO_COMMITTED" <=> \E o \in orders : o.negotiation = m
        BY DEF Inv, Books, OneOrderPerCommitment
      <3> QED
        BY <1>1, <1>2, <1>4, <3>1
    <2>2. \A o, p \in orders' : o.negotiation = p.negotiation => o = p
      BY <1>1, <1>2, <1>3 DEF Inv, Books, OneOrderPerCommitment
    <2> QED
      BY <2>1, <2>2 DEF OneOrderPerCommitment
  <1>7. \A o \in orders' : o.number > 0 /\ o.number < counter'
    BY <1>1, <1>2, <1>5 DEF Inv, Books
  <1>8. ASSUME NEW i \in 1 .. (counter' - 1) PROVE \E o \in orders' : o.number = i
    <2>1. CASE i = counter
      BY <1>1, <1>2, <2>1
    <2>2. CASE i # counter
      <3>1. i \in 1 .. (counter - 1)
        BY <1>2, <1>5, <2>2
      <3> QED
        BY <1>2, <3>1 DEF Inv, Books
    <2> QED
      BY <2>1, <2>2
  <1>9. \A o, p \in orders' : o.number = p.number \/ o.key = p.key => o = p
    BY <1>1, <1>2, <1>3 DEF Inv, Books
  <1>10. counter' > 0
    BY <1>2, <1>5
  <1> QED
    BY <1>6, <1>7, <1>8, <1>9, <1>10 DEF Books

LEMMA CommitInv ==
  ASSUME Inv, NEW r \in Requests, Commit(r)
  PROVE  Inv'
PROOF
  <1>1. UNCHANGED <<tokens, clock, call, now, number, answers>>
    BY DEF Commit, Goto
  <1>2. pc[r] = "commit" /\ Request(r)
    BY DEF Commit, Inv
  <1>3. TypeOK'
    <2>1. state' \in [Negotiations -> States]
      BY CommitFacts DEF Inv, TypeOK, States
    <2>2. orders' \subseteq Orders /\ counter' \in Nat
      BY CommitFacts DEF Inv, TypeOK
    <2>3. pc' \in [Requests -> Steps]
      BY DEF Commit, Goto, Inv, TypeOK, Steps
    <2> QED
      BY <1>1, <2>1, <2>2, <2>3 DEF Inv, TypeOK
  <1>4. Books'
    BY CommitBooks
  <1>5. ConfirmedInTime'
    <2>1. /\ NewOrder(r).at = now[r]
          /\ NewOrder(r).negotiation = call[r].negotiation
          /\ NewOrder(r).actor = call[r].actor
      BY DEF NewOrder
    <2>2. /\ now[r] < OfferExpiry
          /\ call[r].token \in tokens
          /\ call[r].token.negotiation = call[r].negotiation
          /\ call[r].token.actor = call[r].actor
          /\ now[r] <= call[r].token.expires
      BY <1>2 DEF Request, Holding
    <2> QED
      BY <1>1, <2>1, <2>2, CommitFacts DEF Inv, ConfirmedInTime
  <1>6. Told'
    BY <1>1, CommitFacts DEF Inv, Told, Issued, Identity
  <1>7. ASSUME NEW q \in Requests PROVE Request(q)'
    <2>1. CASE q = r
      <3>1. NewOrder(r) \in orders'
        BY CommitFacts
      <3>2. Identity(call[r], number[r]) = Issued(NewOrder(r))
        BY DEF Identity, Issued, NewOrder
      <3>3. \E o \in orders' : Identity(call[r], number[r]) = Issued(o)
        BY <3>1, <3>2
      <3> QED
        BY <1>1, <1>2, <2>1, <3>3, CommitFacts
        DEF Request, Holding, Numbering, Issued, Identity
    <2>2. CASE q # r
      <3>1. Request(q) /\ Apart(r, q) /\ pc'[q] = pc[q]
        BY <2>2, CommitFacts DEF Inv
      <3>2. pc[q] \notin Numbering
        BY <1>2, <3>1 DEF Apart, Numbering
      <3>3. pc[q] \in Holding =>
                /\ call[q].negotiation \in Negotiations
                /\ call[q].negotiation # call[r].negotiation
        BY <1>2, <3>1 DEF Apart, Holding, Request, Calls
      <3>4. pc[q] \in Holding => state'[call[q].negotiation] = state[call[q].negotiation]
        BY <3>3, CommitFacts DEF Inv, TypeOK
      <3>5. orders \subseteq orders'
        BY CommitFacts
      <3> QED
        BY <1>1, <3>1, <3>2, <3>4, <3>5 DEF Request, Numbering, Issued, Identity
    <2> QED
      BY <2>1, <2>2
  <1>8. ASSUME NEW p \in Requests, NEW q \in Requests, p # q PROVE Apart(p, q)'
    <2>1. Apart(p, q)
      BY <1>8 DEF Inv
    <2>2. \A s \in Requests : /\ pc'[s] \in Holding => pc[s] \in Holding
                              /\ pc'[s] \in Numbering => pc[s] \in Numbering
      BY CommitFacts DEF Holding, Numbering
    <2> QED
      BY <1>1, <2>1, <2>2 DEF Apart
  <1> QED
    BY <1>3, <1>4, <1>5, <1>6, <1>7, <1>8 DEF Inv

LEMMA ReplyInv ==
  ASSUME Inv, NEW r \in Requests, Reply(r)
  PROVE  Inv'
PROOF
  <1>1. UNCHANGED <<db, tokens, clock>> /\ Release(r)
    BY DEF Reply
  <1>2. pc'[r] = "idle" /\ OthersStay(r)
    BY <1>1 DEF Release, Inv, TypeOK, OthersStay
  <1>3. TypeOK'
    BY <1>1 DEF Inv, TypeOK, Release, db, Steps
  <1>4. Books' /\ ConfirmedInTime'
    BY <1>1 DEF Inv, Books, OneOrderPerCommitment, ConfirmedInTime, db
  <1>5. Told'
    <2>1. \E o \in orders : Identity(call[r], number[r]) = Issued(o)
      BY DEF Reply, Inv, Request
    <2> QED
      BY <1>1, <2>1 DEF Reply, Inv, Told, db, Issued, Identity
  <1>6. ASSUME NEW q \in Requests PROVE Request(q)'
    <2>1. CASE q = r
      BY <1>2, <2>1 DEF Request, Holding, Numbering
    <2>2. CASE q # r
      BY <1>1, <1>2, <2>2 DEF Inv, Request, OthersStay, db, Issued, Identity
    <2> QED
      BY <2>1, <2>2
  <1>7. ASSUME NEW p \in Requests, NEW q \in Requests, p # q PROVE Apart(p, q)'
    <2>1. Apart(p, q)
      BY <1>7 DEF Inv
    <2> QED
      BY <1>2, <2>1 DEF Apart, OthersStay, Holding, Numbering
  <1> QED
    BY <1>3, <1>4, <1>5, <1>6, <1>7 DEF Inv

LEMMA StutterInv ==
  ASSUME Inv, UNCHANGED vars
  PROVE  Inv'
  BY DEF Inv, TypeOK, Books, OneOrderPerCommitment, ConfirmedInTime, Told,
         Request, Apart, Issued, Identity, vars

LEMMA NextInv == Inv /\ [Next]_vars => Inv'
PROOF
  <1> SUFFICES ASSUME Inv, [Next]_vars PROVE Inv'
    OBVIOUS
  <1>1. CASE Tick
    BY <1>1, TickInv
  <1>2. ASSUME NEW n \in Negotiations, Recommend(n) PROVE Inv'
    BY <1>2, RecommendInv
  <1>3. ASSUME NEW n \in Negotiations, NEW a \in Actors, Preview(n, a) PROVE Inv'
    BY <1>3, PreviewInv
  <1>4. ASSUME NEW r \in Requests, Send(r) PROVE Inv'
    BY <1>4, ReceiveInv DEF Send
  <1>5. ASSUME NEW r \in Requests, Handle(r) PROVE Inv'
    <2>1. CASE Lookup(r)
      BY <2>1, LookupInv
    <2>2. CASE Authorize(r)
      BY <2>2, AuthorizeInv
    <2>3. CASE Allocate(r)
      BY <2>3, AllocateInv
    <2>4. CASE Insert(r)
      BY <2>4, InsertInv
    <2>5. CASE Mark(r)
      BY <2>5, MarkInv
    <2>6. CASE Commit(r)
      BY <2>6, CommitInv
    <2>7. CASE Reply(r)
      BY <2>7, ReplyInv
    <2>8. CASE Refuse(r)
      BY <2>8, ReleaseStep DEF Refuse
    <2> QED
      BY <1>5, <2>1, <2>2, <2>3, <2>4, <2>5, <2>6, <2>7, <2>8 DEF Handle
  <1>6. ASSUME NEW r \in Requests, Fail(r) PROVE Inv'
    BY <1>6, ReleaseStep DEF Fail
  <1>7. CASE UNCHANGED vars
    BY <1>7, StutterInv
  <1> QED
    BY <1>1, <1>2, <1>3, <1>4, <1>5, <1>6, <1>7 DEF Next

------------------------------------------------------------------------------
(* The theorems *)

\* The inductive invariant holds in every reachable state.
THEOREM Invariant == Spec => []Inv
PROOF
  <1>1. Init => Inv
    BY InitInv
  <1>2. Inv /\ [Next]_vars => Inv'
    BY NextInv
  <1> QED
    BY <1>1, <1>2, PTL DEF Spec

\* Every variable keeps its type (all of PurchaseOrder's state).
THEOREM TypeCorrect == Spec => []TypeOK
PROOF
  <1>1. Inv => TypeOK
    BY DEF Inv
  <1> QED
    BY <1>1, Invariant, PTL

\* A negotiation has an order exactly when it is committed, and never two
\* (issue-purchase-order.ts persist).
THEOREM NeverOrderedTwice == Spec => []OneOrderPerCommitment
PROOF
  <1>1. Inv => OneOrderPerCommitment
    BY DEF Inv, Books
  <1> QED
    BY <1>1, Invariant, PTL

\* Numbers are 1 to counter - 1, each once, although a request that fails gives
\* up the number it took (purchase-order.ts nextNumber).
THEOREM Gapless == Spec => []NumbersGapless
PROOF
  <1>1. Inv => NumbersGapless
    <2> SUFFICES ASSUME Inv PROVE NumbersGapless
      OBVIOUS
    <2>1. counter \in Nat /\ \A o \in orders : o.number \in 1 .. (counter - 1)
      BY DEF Inv, TypeOK, Books, Orders
    <2>2. \A i \in 1 .. (counter - 1) : \E o \in orders : o.number = i
      BY DEF Inv, Books
    <2>3. {o.number : o \in orders} = 1 .. (counter - 1)
      BY <2>1, <2>2
    <2>4. \A o, p \in orders : o.number = p.number => o = p
      BY DEF Inv, Books
    <2> QED
      BY <2>3, <2>4 DEF NumbersGapless
  <1> QED
    BY <1>1, Invariant, PTL

\* Two answers under one key name the same order, the one that key's command
\* issued (issue-purchase-order.ts issue).
THEOREM KeysAgree == Spec => []KeyNamesOneOrder
PROOF
  <1>1. Inv => KeyNamesOneOrder
    <2> SUFFICES ASSUME Inv PROVE KeyNamesOneOrder
      OBVIOUS
    <2>1. ASSUME NEW x \in answers, NEW y \in answers, x.key = y.key PROVE x = y
      <3>1. PICK o \in orders : x = Issued(o)
        BY DEF Inv, Told
      <3>2. PICK p \in orders : y = Issued(p)
        BY DEF Inv, Told
      <3>3. o.key = p.key
        BY <2>1, <3>1, <3>2 DEF Issued, Identity
      <3> QED
        BY <3>1, <3>2, <3>3 DEF Inv, Books
    <2> QED
      BY <2>1 DEF Inv, Told, KeyNamesOneOrder
  <1> QED
    BY <1>1, Invariant, PTL

\* No order without a preview of its negotiation by its actor, good at the instant
\* the order was checked (system-adapters.ts verify).
THEOREM AlwaysConfirmed == Spec => []ConfirmedInTime
PROOF
  <1>1. Inv => ConfirmedInTime
    BY DEF Inv
  <1> QED
    BY <1>1, Invariant, PTL

------------------------------------------------------------------------------
(* The refinement: the requests keep the ledger's promise *)

\* A commit adds one order to the ledger, under the next number.
LEMMA CommitIssues ==
  ASSUME Inv, NEW r \in Requests, Commit(r)
  PROVE  Ledger!Issue(call[r].negotiation, call[r].actor, call[r].key)
PROOF
  <1> DEFINE Book(s) == {Issued(o) : o \in s}
  <1>1. \A x \in Book(orders) : /\ x.negotiation # call[r].negotiation
                                /\ x.key # call[r].key
    BY CommitFacts DEF Issued, Identity
  <1>2. Issued(NewOrder(r)) = [negotiation |-> call[r].negotiation,
                               actor |-> call[r].actor, key |-> call[r].key,
                               number |-> counter]
    BY CommitFacts DEF Issued, Identity, NewOrder
  <1>3. Book(orders') = Book(orders) \cup {Issued(NewOrder(r))}
    BY CommitFacts
  <1>4. Book(orders)' = Book(orders')
    BY DEF Issued, Identity
  <1>5. counter' = counter + 1 /\ UNCHANGED answers
    BY CommitFacts DEF Commit
  <1> QED
    BY <1>1, <1>2, <1>3, <1>4, <1>5 DEF Ledger!Issue

\* An answer tells of an order of the ledger.
LEMMA ReplyTells ==
  ASSUME Inv, NEW r \in Requests, Reply(r)
  PROVE  \E x \in {Issued(o) : o \in orders} : Ledger!Tell(x)
PROOF
  <1>1. PICK o \in orders : Identity(call[r], number[r]) = Issued(o)
    BY DEF Reply, Inv, Request
  <1>2. answers' = answers \cup {Issued(o)} /\ UNCHANGED db
    BY <1>1 DEF Reply
  <1>3. Ledger!Tell(Issued(o))
    BY <1>2 DEF Ledger!Tell, db, Issued, Identity
  <1> QED
    BY <1>3

LEMMA LedgerStep == Inv /\ [Next]_vars => [Ledger!Next]_(Ledger!vars)
PROOF
  <1> SUFFICES ASSUME Inv, [Next]_vars PROVE [Ledger!Next]_(Ledger!vars)
    OBVIOUS
  <1>1. ASSUME NEW r \in Requests, Commit(r) PROVE Ledger!Next
    BY <1>1, CommitIssues, CommitFacts DEF Ledger!Next, Calls
  <1>2. ASSUME NEW r \in Requests, Reply(r) PROVE Ledger!Next
    BY <1>2, ReplyTells DEF Ledger!Next
  <1>3. ASSUME UNCHANGED <<orders, counter, answers>> PROVE UNCHANGED Ledger!vars
    BY <1>3 DEF Ledger!vars, Issued, Identity
  <1>4. ASSUME NEW r \in Requests, Handle(r), ~Commit(r), ~Reply(r)
        PROVE  UNCHANGED <<orders, counter, answers>>
    BY <1>4 DEF Handle, Lookup, Authorize, Allocate, Insert, Mark, Refuse, db
  <1>5. ASSUME NEW r \in Requests, Send(r) \/ Fail(r)
        PROVE  UNCHANGED <<orders, counter, answers>>
    BY <1>5 DEF Send, Receive, Fail, db
  <1>6. ASSUME NEW n \in Negotiations, Recommend(n) \/ \E a \in Actors : Preview(n, a)
        PROVE  UNCHANGED <<orders, counter, answers>>
    BY <1>6 DEF Recommend, Preview, db
  <1>7. CASE Tick \/ UNCHANGED vars
    BY <1>3, <1>7 DEF Tick, vars, db
  <1> QED
    BY <1>1, <1>2, <1>3, <1>4, <1>5, <1>6, <1>7 DEF Next

\* Requests, locks, retries and failures together implement the ledger: orders
\* numbered without a gap, one per negotiation and key, and true answers.
THEOREM KeepsLedger == Spec => ImplementsLedger
PROOF
  <1>1. Init => Ledger!Init
    BY DEF Init, Ledger!Init
  <1>2. Inv /\ [Next]_vars => [Ledger!Next]_(Ledger!vars)
    BY LedgerStep
  <1> QED
    BY <1>1, <1>2, Invariant, PTL DEF Spec, ImplementsLedger, Ledger!Spec
==============================================================================
