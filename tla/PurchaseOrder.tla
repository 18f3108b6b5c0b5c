---------------------------- MODULE PurchaseOrder ----------------------------
(***************************************************************************)
(* Previewing and issuing the purchase orders of one brand.                *)
(*                                                                         *)
(* A preview and an issue are one transaction each, at READ COMMITTED; the *)
(* API runs any number of them at once.  Issuing is a sequence of actions, *)
(* one per statement another request can make wait or change the outcome   *)
(* of: the look-up of the idempotency key, the snapshot that locks the     *)
(* negotiation's row, the counter's row, the insert and the state change.  *)
(* What the preview shows of a recommended negotiation cannot change       *)
(* (Negotiation!FrozenAfterEvaluation), so the negotiation stands for the  *)
(* digest of its preview and for its selected offer.                       *)
(***************************************************************************)
EXTENDS Naturals, FiniteSets

CONSTANTS
    Negotiations,  \* each with its own winning offer, once it has one
    Actors,
    Keys,          \* idempotency keys, chosen by the client
    Requests,      \* issue requests the API can have in hand at once
    Lifetime,      \* how long a preview's confirmation token is good
    OfferExpiry,   \* when the winning offers expire
    MaxTime,       \* bound on the clock
    MaxTokens,     \* bound on the previews
    NoCall         \* a slot without a request

ASSUME PurchaseOrderAssumption ==
    /\ Lifetime \in Nat
    /\ OfferExpiry \in Nat
    /\ MaxTime \in Nat
    /\ MaxTokens \in Nat

\* A confirmation token: the claims its signature covers.
Tokens == [negotiation : Negotiations, actor : Actors, expires : Nat]

\* The body of an issue request.  previewDigest and token come from one
\* preview, which need not be of this negotiation nor by this actor.
Calls == [negotiation : Negotiations, actor : Actors, key : Keys, token : Tokens]

ASSUME NoCallAssumption == NoCall \notin Calls

VARIABLES
    state,         \* negotiation.state
    orders,        \* the rows of purchase_order
    counter,       \* purchase_order_counter.nextValue
    tokens,        \* confirmation tokens handed out
    clock,
    pc,            \* where each request stands
    call,          \* what it asks
    now,           \* the instant it read once it held the row
    number,        \* the order number it holds, 0 for none
    answers        \* history: what clients were told

db    == <<state, orders, counter>>
slots == <<pc, call, now, number>>
vars  == <<state, orders, counter, tokens, clock, pc, call, now, number, answers>>

States == {"EVALUATED", "RECOMMENDED", "PO_COMMITTED"}

\* Mutant: a request has the counter's lock before it waits for the row.
NumberingFirst == {"authorize", "insert", "mark", "commit"}

\* The steps that hold the row lock, and those that hold the counter's.
Holding   == {"allocate", "insert", "mark", "commit"}
Numbering == {"insert", "mark", "commit"}
Steps     == {"idle", "lookup", "authorize", "reply", "refused"} \cup Holding

\* Another transaction has the row of n FOR UPDATE.  (The row of the quotation,
\* locked with it, is shared by its negotiations: some requests wait longer.)
Locked(n, r) ==
    \E q \in Requests \ {r} : pc[q] \in Holding /\ call[q].negotiation = n

\* The columns of an order that its request's digest and key cover.
Identity(c, num) == [negotiation |-> c.negotiation, actor |-> c.actor,
                     key |-> c.key, number |-> num]
Issued(o) == Identity(o, o.number)

Goto(r, step) == pc' = [pc EXCEPT ![r] = step] /\ UNCHANGED <<call, now, number>>

Release(r) ==
    /\ pc' = [pc EXCEPT ![r] = "idle"]
    /\ call' = [call EXCEPT ![r] = NoCall]
    /\ now' = [now EXCEPT ![r] = 0]
    /\ number' = [number EXCEPT ![r] = 0]

------------------------------------------------------------------------------
(* The world around the requests *)

\* The decision worker commits a recommendation that names a winner.
Recommend(n) ==
    /\ state[n] = "EVALUATED"
    /\ state' = [state EXCEPT ![n] = "RECOMMENDED"]
    /\ UNCHANGED <<orders, counter, tokens, clock, slots, answers>>

Tick ==
    /\ clock < MaxTime
    /\ clock' = clock + 1
    /\ UNCHANGED <<db, tokens, slots, answers>>

------------------------------------------------------------------------------
(* PreparePurchaseOrderCommandHandler *)

\* assertIssuablePurchaseOrder: what both commands demand of the snapshot.
Issuable(n) == state[n] = "RECOMMENDED" /\ clock < OfferExpiry

\* The preview waits for the row, and hands out a token good for Lifetime.
Preview(n, a) ==
    /\ Cardinality(tokens) < MaxTokens
    /\ \A r \in Requests : ~(pc[r] \in Holding /\ call[r].negotiation = n)
    /\ Issuable(n)
    /\ tokens' = tokens \cup
           {[negotiation |-> n, actor |-> a, expires |-> clock + Lifetime]}
    /\ UNCHANGED <<db, clock, slots, answers>>

------------------------------------------------------------------------------
(* IssuePurchaseOrderCommandHandler *)

\* A client sends what a preview gave it, for the first time or again, under a
\* key it used before or not.
Receive(r, n, a, k, t) ==
    /\ pc[r] = "idle"
    /\ t \in tokens
    /\ pc' = [pc EXCEPT ![r] = "lookup"]
    /\ call' = [call EXCEPT ![r] =
                   [negotiation |-> n, actor |-> a, key |-> k, token |-> t]]
    /\ UNCHANGED <<db, tokens, clock, now, number, answers>>

\* Mutant: the key alone decides.
SameKeyOnly(o, c) == o.key = c.key

\* requestDigest covers the negotiation, its offer, the preview's digest and the
\* actor.  An order's preview is that of its negotiation.
SameCommand(o, c) ==
    /\ o.negotiation = c.negotiation
    /\ o.actor = c.actor
    /\ c.token.negotiation = o.negotiation

\* findByIdempotency, on what is committed: a replay, a conflict, or go on.
Lookup(r) ==
    LET same == {o \in orders : o.key = call[r].key} IN
    /\ pc[r] = "lookup"
    /\ \/ /\ same = {}
          /\ Goto(r, "authorize")
       \/ \E o \in same :
            /\ SameCommand(o, call[r])
            /\ pc' = [pc EXCEPT ![r] = "reply"]
            /\ number' = [number EXCEPT ![r] = o.number]
            /\ UNCHANGED <<call, now>>
       \/ \E o \in same : ~SameCommand(o, call[r]) /\ Goto(r, "refused")
    /\ UNCHANGED <<db, tokens, clock, answers>>

\* Mutant: the token's end is not compared.
ConfirmedForever(c) ==
    c.token.negotiation = c.negotiation /\ c.token.actor = c.actor

\* verifyConfirmation: the digest is the preview's, and the token covers it.
Confirmed(c) ==
    /\ c.token.negotiation = c.negotiation
    /\ c.token.actor = c.actor
    /\ c.token.expires >= clock

\* The snapshot is read FOR UPDATE: it waits for whoever holds the row, then sees
\* the row as that transaction left it.  The clock is read after the wait.
Authorize(r) ==
    /\ pc[r] = "authorize"
    /\ ~Locked(call[r].negotiation, r)
    /\ IF Issuable(call[r].negotiation) /\ Confirmed(call[r])
       THEN /\ pc' = [pc EXCEPT ![r] = "allocate"]
            /\ now' = [now EXCEPT ![r] = clock]
            /\ UNCHANGED <<call, number>>
       ELSE Goto(r, "refused")
    /\ UNCHANGED <<db, tokens, clock, answers>>

\* Mutant: the counter is written outside the transaction.
AllocateAhead(r) ==
    /\ pc[r] = "allocate"
    /\ \A q \in Requests : pc[q] \notin Numbering
    /\ pc' = [pc EXCEPT ![r] = "insert"]
    /\ number' = [number EXCEPT ![r] = counter]
    /\ counter' = counter + 1
    /\ UNCHANGED <<state, orders, tokens, clock, call, now, answers>>

\* nextNumber: the upsert locks the counter's row until the transaction ends.
Allocate(r) ==
    /\ pc[r] = "allocate"
    /\ \A q \in Requests : pc[q] \notin Numbering
    /\ pc' = [pc EXCEPT ![r] = "insert"]
    /\ number' = [number EXCEPT ![r] = counter]
    /\ UNCHANGED <<db, tokens, clock, call, now, answers>>

\* Mutant: the ledger has no index on the key.
InsertBlind(r) ==
    /\ pc[r] = "insert"
    /\ Goto(r, "mark")
    /\ UNCHANGED <<db, tokens, clock, answers>>

\* insert: the key may have been used since Lookup, for another negotiation; the
\* offer and the number have unique indexes too.  A conflict throws.
Insert(r) ==
    /\ pc[r] = "insert"
    /\ IF \E o \in orders : \/ o.key = call[r].key
                            \/ o.negotiation = call[r].negotiation
                            \/ o.number = number[r]
       THEN Release(r)
       ELSE Goto(r, "mark")
    /\ UNCHANGED <<db, tokens, clock, answers>>

\* markNegotiationCommitted: an UPDATE on the state, or an exception.
Mark(r) ==
    /\ pc[r] = "mark"
    /\ IF state[call[r].negotiation] = "RECOMMENDED"
       THEN Goto(r, "commit") ELSE Release(r)
    /\ UNCHANGED <<db, tokens, clock, answers>>

\* Mutant: the negotiation is not marked.
CommitUnmarked(r) ==
    /\ pc[r] = "commit"
    /\ orders' = orders \cup {[negotiation |-> call[r].negotiation,
                               actor |-> call[r].actor, key |-> call[r].key,
                               number |-> number[r], at |-> now[r]]}
    /\ counter' = number[r] + 1
    /\ Goto(r, "reply")
    /\ UNCHANGED <<state, tokens, clock, answers>>

\* The order, its number and the negotiation's state become visible together.
\* The field "at" is history: the instant its facts were checked.
Commit(r) ==
    /\ pc[r] = "commit"
    /\ orders' = orders \cup {[negotiation |-> call[r].negotiation,
                               actor |-> call[r].actor, key |-> call[r].key,
                               number |-> number[r], at |-> now[r]]}
    /\ counter' = number[r] + 1
    /\ state' = [state EXCEPT ![call[r].negotiation] = "PO_COMMITTED"]
    /\ Goto(r, "reply")
    /\ UNCHANGED <<tokens, clock, answers>>

Reply(r) ==
    /\ pc[r] = "reply"
    /\ answers' = answers \cup {Identity(call[r], number[r])}
    /\ Release(r)
    /\ UNCHANGED <<db, tokens, clock>>

\* An ApplicationError: nothing was written, and the client is told so.
Refuse(r) ==
    /\ pc[r] = "refused"
    /\ Release(r)
    /\ UNCHANGED <<db, tokens, clock, answers>>

\* The statement throws, the process dies, the connection or the answer is lost:
\* what was not committed is rolled back, and the client knows nothing.
Fail(r) ==
    /\ pc[r] # "idle"
    /\ Release(r)
    /\ UNCHANGED <<db, tokens, clock, answers>>

------------------------------------------------------------------------------

Init ==
    /\ state = [n \in Negotiations |-> "EVALUATED"]
    /\ orders = {}
    /\ counter = 1
    /\ tokens = {}
    /\ clock = 0
    /\ pc = [r \in Requests |-> "idle"]
    /\ call = [r \in Requests |-> NoCall]
    /\ now = [r \in Requests |-> 0]
    /\ number = [r \in Requests |-> 0]
    /\ answers = {}

Handle(r) ==
    \/ Lookup(r) \/ Authorize(r) \/ Allocate(r) \/ Insert(r) \/ Mark(r)
    \/ Commit(r) \/ Reply(r) \/ Refuse(r)

Send(r) == \E n \in Negotiations, a \in Actors, k \in Keys, t \in tokens :
               Receive(r, n, a, k, t)

Next ==
    \/ Tick
    \/ \E n \in Negotiations : Recommend(n)
    \/ \E n \in Negotiations, a \in Actors : Preview(n, a)
    \/ \E r \in Requests : Send(r) \/ Handle(r) \/ Fail(r)

Spec == Init /\ [][Next]_vars

\* PostgreSQL grants a row lock in the order it was asked for, so a request that
\* waits gets it however many others come and go.
Fairness == \A r \in Requests : SF_vars(Handle(r))

FairSpec == Spec /\ Fairness

------------------------------------------------------------------------------
(* What must hold *)

Orders == [negotiation : Negotiations, actor : Actors, key : Keys,
           number : Nat, at : Nat]

\* Every variable keeps its type.
TypeOK ==
    /\ state \in [Negotiations -> States]
    /\ orders \subseteq Orders
    /\ counter \in Nat
    /\ tokens \subseteq Tokens
    /\ clock \in Nat
    /\ pc \in [Requests -> Steps]
    /\ call \in [Requests -> Calls \cup {NoCall}]
    /\ now \in [Requests -> Nat]
    /\ number \in [Requests -> Nat]

\* A negotiation is committed exactly when it has an order, and never has two,
\* however many requests, keys and retries ask for it (issue-purchase-order.ts
\* persist and recordIssuance).
OneOrderPerCommitment ==
    /\ \A n \in Negotiations : state[n] = "PO_COMMITTED" <=>
           \E o \in orders : o.negotiation = n
    /\ \A o, p \in orders : o.negotiation = p.negotiation => o = p

\* Order numbers are 1 to counter - 1 with no gap and no number twice, whatever
\* requests fail after they took one (purchase-order.ts nextNumber).
NumbersGapless ==
    /\ {o.number : o \in orders} = 1 .. (counter - 1)
    /\ \A o, p \in orders : o.number = p.number => o = p

\* Clients that used one key were told one order, the one their command issued
\* (issue-purchase-order.ts issue).
KeyNamesOneOrder ==
    /\ answers \subseteq {Issued(o) : o \in orders}
    /\ \A x, y \in answers : x.key = y.key => x = y

\* Whoever issued an order had previewed that negotiation, and both the preview
\* and the offer were still good when the order's facts were checked
\* (issue-purchase-order.ts verifyConfirmation, system-adapters.ts verify).
ConfirmedInTime ==
    \A o \in orders :
        /\ o.at < OfferExpiry
        /\ \E t \in tokens : /\ t.negotiation = o.negotiation
                             /\ t.actor = o.actor
                             /\ o.at <= t.expires

\* Every request is answered: no two wait for each other, and none for ever.
EveryRequestEnds == \A r \in Requests : pc[r] # "idle" ~> pc[r] = "idle"

\* What the ledger promises, requests, locks and time left out.
Ledger ==
    INSTANCE OrderLedger WITH
        orders <- {Issued(o) : o \in orders}, next <- counter

ImplementsLedger == Ledger!Spec
==============================================================================
