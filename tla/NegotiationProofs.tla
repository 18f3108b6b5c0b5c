-------------------------- MODULE NegotiationProofs --------------------------
(***************************************************************************)
(* Theorems about Negotiation for every set of suppliers, any number of    *)
(* handlers, deliveries and faults.  All rest on one inductive invariant,  *)
(* Inv: what the committed rows say of each other (Committed) and what an  *)
(* open transaction knows and is about to write (Handler).                 *)
(***************************************************************************)
EXTENDS Negotiation, TLAPS

------------------------------------------------------------------------------
(* The invariant: committed rows *)

\* The states in which round r is over.
Past(r) == IF r = 1 THEN {"ROUND_2_RUNNING", "EVALUATED", "RECOMMENDED",
                          "PO_COMMITTED"}
                    ELSE {"EVALUATED", "RECOMMENDED", "PO_COMMITTED"}

\* The version at which the jobs of round r expect the row.
RoundVersion(r) == IF r = 1 THEN 1 ELSE 4

\* A job exists from the transition that enqueued it, and knows its version.
JobsInv ==
    /\ \A k \in TurnJobs(1) : jobs[k].status # "none" <=> row.state # "ABSENT"
    /\ \A k \in TurnJobs(2) : jobs[k].status # "none" <=> row.state \in Past(1)
    /\ jobs[DecisionJob].status # "none" <=> row.state \in Past(2)
    /\ \A k \in Keys :
           jobs[k].status # "none" => jobs[k].expected = RoundVersion(k[2])
    /\ jobs[DecisionJob].status # "none" => jobs[DecisionJob].expected = 5
    /\ \A j \in completions : jobs[j].status # "none"

RoundsInv ==
    /\ \A r \in Rounds : row.state \in Past(r) => TurnJobs(r) \subseteq turns
    /\ capacityEvent <=> row.state \in Past(1)

OffersInv ==
    /\ offers \subseteq turns
    /\ partial = IF capacityEvent THEN S2Offers(offers) ELSE {}

OneRecommendation == \A x, y \in recommendation : x = y

Committed ==
    /\ VersionCountsTransitions
    /\ ClaimedExactlyWithEffect
    /\ JobsInv /\ RoundsInv /\ OffersInv
    /\ WinnerCanFulfil /\ OneRecommendation

------------------------------------------------------------------------------
(* The invariant: open transactions *)

\* The turn is w's own, and the S2 offers it makes are marked if the capacity
\* event is in force when it commits.
TurnWrites(w) ==
    LET wr == tx[w].writes IN
    /\ wr.turns = {tx[w].job}
    /\ wr.offers \subseteq {tx[w].job}
    /\ wr.partial = IF wr.capacity THEN S2Offers(offers \cup wr.offers)
                    ELSE IF capacityEvent /\ S2Offers(wr.offers) # {}
                         THEN S2Offers(offers \cup wr.offers)
                         ELSE {}
    /\ wr.rec = {}

NoMove(w) ==
    /\ tx[w].writes.row = NoRow
    /\ ~tx[w].writes.capacity
    /\ tx[w].writes.jobs = {}

\* Every other turn of the round is committed: no other turn is in flight.
LastTurn(w) == TurnJobs(Round(w)) \ {tx[w].job} \subseteq turns

RoundMove(w) ==
    LET wr == tx[w].writes IN
    /\ LastTurn(w)
    /\ IF Round(w) = 1
       THEN /\ wr.row = [state |-> "ROUND_2_RUNNING", version |-> 4]
            /\ wr.capacity
            /\ wr.jobs = TurnJobs(2)
       ELSE /\ wr.row = [state |-> "EVALUATED", version |-> 5]
            /\ ~wr.capacity
            /\ wr.jobs = {DecisionJob}

CanWin == {k \in Latest(offers) : CapacityPercent(k) = 100 /\ k \notin partial}

DecisionWrites(w) ==
    LET wr == tx[w].writes IN
    /\ wr.turns = {} /\ wr.offers = {} /\ wr.partial = {}
    /\ ~wr.capacity /\ wr.jobs = {}
    /\ \E x \in CanWin \cup {NoOffer} : wr.rec = {x}

TurnSteps     == {"prepare", "submit", "count", "advance"}
DecisionSteps == {"decide", "recommend"}

Handler(w) ==
    /\ tx[w].pc # "idle" => /\ tx[w].job \in Queue(w)
                            /\ jobs[tx[w].job].status # "none"
    /\ Open(w) => tx[w].job \notin completions
    /\ tx[w].pc \in TurnSteps => tx[w].job \in Keys
    /\ tx[w].pc \in DecisionSteps => tx[w].job = DecisionJob
    /\ tx[w].pc \notin {"count", "advance", "recommend", "commit"} =>
           tx[w].writes = NoWrites
    /\ tx[w].pc \in {"count", "advance", "recommend"} =>
           tx[w].version = row.version /\ NoMove(w)
    /\ tx[w].pc \in {"count", "advance"} => TurnWrites(w)
    /\ tx[w].pc = "advance" => LastTurn(w)
    /\ tx[w].pc = "recommend" => DecisionWrites(w)
    /\ tx[w].pc = "commit" /\ tx[w].job \in Keys =>
           TurnWrites(w) /\ (NoMove(w) \/ RoundMove(w))
    /\ tx[w].pc = "commit" /\ tx[w].job = DecisionJob =>
           /\ DecisionWrites(w)
           /\ tx[w].writes.row = [state |-> "RECOMMENDED", version |-> 6]

\* The claim is exclusive while its transaction is open.
Exclusive ==
    \A v, w \in Slots : v # w /\ Open(v) /\ Open(w) => tx[v].job # tx[w].job

Inv ==
    /\ TypeOK
    /\ Committed
    /\ \A w \in Slots : Handler(w)
    /\ Exclusive

------------------------------------------------------------------------------
(* What the invariant says of an open transaction *)

\* The keys of jobs: the decision job is no turn, and a turn is one of its round.
LEMMA KeyFacts ==
    /\ DecisionJob \notin Keys
    /\ DecisionJob \in Jobs
    /\ \A r \in Rounds : TurnJobs(r) \subseteq Keys
    /\ \A k \in Keys : k \in Jobs /\ k[2] \in Rounds /\ k \in TurnJobs(k[2])
    /\ TurnJobs(1) \cap TurnJobs(2) = {}
  BY NegotiationAssumption DEF Keys, Jobs, Rounds, TurnJobs, DecisionJob

\* While a turn is open its round is running: nobody can have moved the
\* negotiation on without it.
LEMMA OpenTurn ==
  ASSUME Inv, NEW w \in Slots, Open(w), tx[w].job \in Keys
  PROVE  /\ tx[w].job \notin turns
         /\ Round(w) \in Rounds
         /\ row = [state   |-> RoundState(Round(w)),
                   version |-> RoundVersion(Round(w))]
         /\ jobs[tx[w].job].expected = row.version
         /\ capacityEvent <=> Round(w) = 2
PROOF
  <1> DEFINE k == tx[w].job
  <1>1. k \notin turns /\ jobs[k].status # "none"
    BY DEF Inv, Committed, ClaimedExactlyWithEffect, Handler, Open, OpenSteps
  <1>2. k \in TurnJobs(k[2]) /\ k[2] \in Rounds
    BY KeyFacts
  <1>3. row.state \notin Past(k[2])
    BY <1>1, <1>2 DEF Inv, Committed, RoundsInv
  <1>4. row.state \in States /\ row = [state |-> row.state, version |-> row.version]
    BY DEF Inv, TypeOK
  <1>5. row.state = RoundState(k[2])
    BY <1>1, <1>2, <1>3, <1>4
    DEF Inv, Committed, JobsInv, Past, RoundState, States, Rounds
  <1>6. row.version = RoundVersion(k[2])
    BY <1>2, <1>5 DEF Inv, Committed, VersionCountsTransitions, RoundState,
                      RoundVersion, Rounds
  <1>7. jobs[k].expected = RoundVersion(k[2])
    BY <1>1 DEF Inv, Committed, JobsInv
  <1>8. capacityEvent <=> k[2] = 2
    BY <1>2, <1>5 DEF Inv, Committed, RoundsInv, Past, RoundState, Rounds
  <1> QED
    BY <1>1, <1>2, <1>4, <1>5, <1>6, <1>7, <1>8 DEF Round

\* While the decision is open the negotiation is evaluated and undecided.
LEMMA OpenDecision ==
  ASSUME Inv, NEW w \in Slots, Open(w), tx[w].job = DecisionJob
  PROVE  /\ row = [state |-> "EVALUATED", version |-> 5]
         /\ recommendation = {}
         /\ jobs[DecisionJob].expected = 5
PROOF
  <1>1. DecisionJob \notin completions /\ jobs[DecisionJob].status # "none"
    BY DEF Inv, Handler, Open, OpenSteps
  <1>2. row.state \in Past(2) /\ jobs[DecisionJob].expected = 5
    BY <1>1 DEF Inv, Committed, JobsInv
  <1>3. recommendation = {} /\ row.state \notin {"RECOMMENDED", "PO_COMMITTED"}
    BY <1>1 DEF Inv, Committed, ClaimedExactlyWithEffect, VersionCountsTransitions
  <1>4. row = [state |-> row.state, version |-> row.version]
    BY DEF Inv, TypeOK
  <1>5. row.state = "EVALUATED"
    BY <1>2, <1>3 DEF Past
  <1>6. row.version = 5
    BY <1>5 DEF Inv, Committed, VersionCountsTransitions
  <1> QED
    BY <1>2, <1>3, <1>4, <1>5, <1>6

\* Every open transaction handles a turn or the decision.
LEMMA OpenJob ==
  ASSUME Inv, NEW w \in Slots, tx[w].pc # "idle"
  PROVE  /\ tx[w].job \in Jobs
         /\ tx[w].job \in Keys \/ tx[w].job = DecisionJob
  BY KeyFacts DEF Inv, Handler, Queue, Jobs

\* Whoever is about to move the row is alone: no other transaction is open.
LEMMA MoverIsAlone ==
  ASSUME Inv, NEW w \in Slots, NEW v \in Slots, v # w, Open(w), Open(v),
         \/ tx[w].pc = "advance"
         \/ tx[w].pc = "commit" /\ tx[w].writes.row # NoRow
         \/ tx[w].job = DecisionJob
  PROVE  FALSE
PROOF
  <1>1. tx[v].job # tx[w].job
    BY DEF Inv, Exclusive
  <1>2. /\ tx[v].job \in Keys \/ tx[v].job = DecisionJob
        /\ tx[w].job \in Keys \/ tx[w].job = DecisionJob
    BY OpenJob DEF Open, OpenSteps
  <1>3. CASE tx[w].job = DecisionJob
    <2>1. row.state = "EVALUATED"
      BY <1>3, OpenDecision
    <2>2. tx[v].job \in Keys
      BY <1>1, <1>2, <1>3
    <2>3. row.state = RoundState(Round(v))
      BY <2>2, OpenTurn
    <2> QED
      BY <2>1, <2>3 DEF RoundState
  <1>4. CASE tx[w].job \in Keys
    <2>1. row.state = RoundState(Round(w)) /\ Round(w) \in Rounds
      BY <1>4, OpenTurn
    <2>2. LastTurn(w)
      BY <1>4, KeyFacts DEF Inv, Handler, NoMove, RoundMove
    <2>3. CASE tx[v].job = DecisionJob
      BY <2>1, <2>3, OpenDecision DEF RoundState
    <2>4. CASE tx[v].job \in Keys
      <3>1. /\ tx[v].job \notin turns
            /\ row.state = RoundState(Round(v))
            /\ Round(v) \in Rounds
        BY <2>4, OpenTurn
      <3>2. Round(v) = Round(w)
        BY <2>1, <3>1 DEF RoundState, Rounds
      <3>3. tx[v].job \in TurnJobs(Round(w))
        BY <2>4, <3>2, KeyFacts DEF Round
      <3> QED
        BY <1>1, <2>2, <3>1, <3>3 DEF LastTurn
    <2> QED
      BY <1>2, <2>3, <2>4
  <1> QED
    BY <1>2, <1>3, <1>4

------------------------------------------------------------------------------
(* Steps of one handler: the rows stay as they are *)

\* A job's row may change its status and count its deliveries, no more.
SameJobs == \A j \in Jobs : /\ (jobs'[j].status = "none") = (jobs[j].status = "none")
                            /\ jobs'[j].expected = jobs[j].expected

\* What is committed, and what other handlers know, survives such a step.
LEMMA Frame ==
  ASSUME Inv, UNCHANGED <<db, completions>>, SameJobs
  PROVE  /\ Committed'
         /\ \A v \in Slots : tx'[v] = tx[v] => Handler(v)'
PROOF
  <1>1. VersionCountsTransitions' /\ ClaimedExactlyWithEffect'
        /\ RoundsInv' /\ OffersInv' /\ WinnerCanFulfil' /\ OneRecommendation'
    BY DEF Inv, Committed, db, VersionCountsTransitions, ClaimedExactlyWithEffect,
           RoundsInv, OffersInv, WinnerCanFulfil, OneRecommendation
  <1>2. JobsInv'
    <2>1. /\ completions \subseteq Jobs
          /\ \A r \in Rounds : \A k \in TurnJobs(r) : k \in Jobs
          /\ \A k \in Keys : k \in Jobs
          /\ DecisionJob \in Jobs
      BY KeyFacts DEF Inv, TypeOK
    <2> QED
      BY <2>1 DEF Inv, Committed, db, SameJobs, JobsInv, Rounds
  <1>3. ASSUME NEW v \in Slots, tx'[v] = tx[v]
        PROVE  Handler(v)'
    <2>1. Handler(v) /\ (tx[v].pc # "idle" => tx[v].job \in Jobs)
      BY OpenJob DEF Inv
    <2> QED
      BY <1>3, <2>1 DEF db, SameJobs, Handler, Open, TurnWrites, NoMove, LastTurn,
                        RoundMove, DecisionWrites, Round, CanWin
  <1>4. Committed'
    BY <1>1, <1>2 DEF Committed
  <1> QED
    BY <1>3, <1>4

\* A step of w's handler alone: what it must still show is its own part.
LEMMA LocalStep ==
  ASSUME Inv, UNCHANGED <<db, completions>>, SameJobs, TypeOK',
         NEW w \in Slots, \A v \in Slots \ {w} : tx'[v] = tx[v],
         Handler(w)',
         \/ ~Open(w)'
         \/ Open(w) /\ tx'[w].job = tx[w].job
         \/ \A v \in Slots \ {w} : Open(v) => tx[v].job # tx'[w].job
  PROVE  Inv'
PROOF
  <1>1. Committed' /\ \A v \in Slots \ {w} : Handler(v)'
    BY Frame
  <1>2. \A v \in Slots \ {w} : Open(v)' = Open(v)
    BY DEF Open
  <1>3. Exclusive'
    BY <1>2 DEF Inv, Exclusive, Open
  <1> QED
    BY <1>1, <1>3 DEF Inv

\* The queue's own steps only change the status of rows that exist.
LEMMA QueueKeepsJobs ==
  ASSUME Inv, NEW j \in Jobs, jobs[j].status # "none",
         NEW new \in [status : Statuses \ {"none"}, expected : {jobs[j].expected},
                      attempts : Nat],
         jobs' = [jobs EXCEPT ![j] = new]
  PROVE  /\ SameJobs
         /\ jobs' \in [Jobs -> [status : Statuses, expected : Nat, attempts : Nat]]
  BY DEF Inv, TypeOK, SameJobs

LEMMA RequeuedType ==
  ASSUME NEW job \in [status : Statuses, expected : Nat, attempts : Nat]
  PROVE  Requeued(job) \in [status : Statuses \ {"none"},
                            expected : {job.expected}, attempts : Nat]
  BY DEF Requeued, Statuses

LEMMA FetchStep ==
  ASSUME Inv, NEW w \in Slots, NEW j \in Jobs, Fetch(w, j)
  PROVE  Inv'
PROOF
  <1>1. UNCHANGED <<db, completions>> /\ UNCHANGED faults
    BY DEF Fetch
  <1>2. SameJobs /\ jobs' \in [Jobs -> [status : Statuses, expected : Nat,
                                       attempts : Nat]]
    BY DEF Fetch, SameJobs, Inv, TypeOK, Statuses
  <1>3. [Idle EXCEPT !.pc = "claim", !.job = j]
            \in [pc : {"claim"}, job : {j}, version : {0}, writes : {NoWrites}]
    BY DEF Idle
  <1>4. TypeOK'
    BY <1>1, <1>2, <1>3 DEF Fetch, Inv, TypeOK, db, Steps, WritesType, NoWrites,
                            NoRow, States
  <1>5. j \in Queue(w) /\ jobs'[j].status # "none"
    BY <1>2 DEF Fetch, SameJobs
  <1>6. tx'[w] \in [pc : {"claim"}, job : {j}, version : {0}, writes : {NoWrites}]
    BY <1>3 DEF Fetch, Inv, TypeOK
  <1>7. Handler(w)' /\ ~Open(w)'
    BY <1>5, <1>6 DEF Handler, Open, OpenSteps, TurnSteps, DecisionSteps, Queue
  <1> QED
    BY <1>1, <1>2, <1>4, <1>7, LocalStep DEF Fetch, Inv, TypeOK

LEMMA ClaimStep ==
  ASSUME Inv, NEW w \in Slots, Claim(w)
  PROVE  Inv'
PROOF
  <1> DEFINE pc == IF tx[w].job \in completions THEN "ack" ELSE FirstStep(tx[w].job)
  <1>1. /\ UNCHANGED <<db, completions>> /\ UNCHANGED <<jobs, faults>>
        /\ tx[w].pc = "claim" /\ SameJobs
        /\ tx' = [tx EXCEPT ![w].pc = pc]
    BY DEF Claim, Goto, SameJobs
  <1>2. pc \in {"ack", "decide", "prepare"}
    BY DEF FirstStep
  <1>3. TypeOK' /\ tx'[w] = [tx[w] EXCEPT !.pc = pc]
    BY <1>1, <1>2 DEF Inv, TypeOK, db, Steps, OpenSteps
  <1>4. tx[w].job \in Jobs /\ (tx[w].job \in Keys \/ tx[w].job = DecisionJob)
    BY <1>1, OpenJob
  <1>5. /\ tx'[w].job = tx[w].job /\ tx'[w].writes = NoWrites /\ tx'[w].pc = pc
        /\ tx[w].job \in Queue(w) /\ jobs'[tx[w].job].status # "none"
    BY <1>1, <1>3 DEF Inv, Handler, TypeOK
  <1>6. /\ pc # "ack" => tx[w].job \notin completions'
        /\ pc = "prepare" => tx[w].job \in Keys
        /\ pc = "decide" => tx[w].job = DecisionJob
    BY <1>1, <1>4 DEF FirstStep
  <1>7. Handler(w)'
    BY <1>2, <1>5, <1>6
    DEF Handler, Open, OpenSteps, TurnSteps, DecisionSteps, Queue
  <1>8. \A v \in Slots \ {w} : Open(v) => tx[v].job # tx'[w].job
    BY <1>5 DEF Claim
  <1> QED
    BY <1>1, <1>3, <1>7, <1>8, LocalStep DEF Inv, TypeOK

\* A handler that ends without a commit leaves its slot idle.
LEMMA EndStep ==
  ASSUME Inv, NEW w \in Slots, UNCHANGED <<db, completions>>, faults' \in Nat,
         tx' = [tx EXCEPT ![w] = Idle],
         SameJobs,
         jobs' \in [Jobs -> [status : Statuses, expected : Nat, attempts : Nat]]
  PROVE  Inv'
PROOF
  <1>1. TypeOK' /\ tx'[w] = Idle
    BY DEF Inv, TypeOK, db, Idle, Steps, WritesType, NoWrites, NoRow, States
  <1>2. Handler(w)' /\ ~Open(w)'
    BY <1>1 DEF Handler, Open, OpenSteps, TurnSteps, DecisionSteps, Idle
  <1> QED
    BY <1>1, <1>2, LocalStep DEF Inv, TypeOK

LEMMA AcknowledgeStep ==
  ASSUME Inv, NEW w \in Slots, Acknowledge(w)
  PROVE  Inv'
PROOF
  <1>1. /\ SameJobs
        /\ jobs' \in [Jobs -> [status : Statuses, expected : Nat, attempts : Nat]]
    <2>1. tx[w].job \in Jobs
      BY OpenJob DEF Acknowledge
    <2> QED
      BY <2>1 DEF Acknowledge, SameJobs, Inv, TypeOK, Statuses
  <1> QED
    BY <1>1, EndStep DEF Acknowledge, Inv, TypeOK

LEMMA FailStep ==
  ASSUME Inv, NEW w \in Slots, Fail(w)
  PROVE  Inv'
PROOF
  <1> DEFINE job == tx[w].job
  <1>1. job \in Jobs /\ jobs[job].status # "none"
    BY OpenJob DEF Fail, Open, OpenSteps, Inv, Handler
  <1>2. jobs[job] \in [status : Statuses, expected : Nat, attempts : Nat]
    BY <1>1 DEF Inv, TypeOK
  <1>3. jobs' = [jobs EXCEPT ![job] = IF jobs[job].status = "active"
                                      THEN Requeued(jobs[job]) ELSE jobs[job]]
    BY DEF Fail
  <1>4. /\ SameJobs
        /\ jobs' \in [Jobs -> [status : Statuses, expected : Nat, attempts : Nat]]
    <2>1. CASE jobs[job].status = "active"
      BY <1>1, <1>2, <1>3, <2>1, RequeuedType, QueueKeepsJobs
    <2>2. CASE jobs[job].status # "active"
      BY <1>1, <1>2, <1>3, <2>2 DEF SameJobs, Inv, TypeOK
    <2> QED
      BY <2>1, <2>2
  <1>5. faults' \in Nat
    BY DEF Fail, Fault, Inv, TypeOK
  <1> QED
    BY <1>4, <1>5, EndStep DEF Fail

LEMMA CrashStep ==
  ASSUME Inv, NEW w \in Slots, Crash(w)
  PROVE  Inv'
PROOF
  <1>1. /\ SameJobs /\ faults' \in Nat
        /\ jobs' \in [Jobs -> [status : Statuses, expected : Nat, attempts : Nat]]
    BY DEF Crash, Fault, Inv, TypeOK, SameJobs
  <1> QED
    BY <1>1, EndStep DEF Crash

LEMMA ExpireStep ==
  ASSUME Inv, NEW j \in Jobs, Lapse(j) \/ Outlive(j)
  PROVE  Inv'
PROOF
  <1>1. /\ jobs[j].status = "active"
        /\ jobs' = [jobs EXCEPT ![j] = Requeued(jobs[j])]
        /\ UNCHANGED <<db, completions, tx>>
        /\ faults' \in Nat
    BY DEF Lapse, Outlive, Fault, Inv, TypeOK
  <1>2. jobs[j] \in [status : Statuses, expected : Nat, attempts : Nat]
    BY DEF Inv, TypeOK
  <1>3. /\ SameJobs
        /\ jobs' \in [Jobs -> [status : Statuses, expected : Nat, attempts : Nat]]
    BY <1>1, <1>2, RequeuedType, QueueKeepsJobs
  <1>4. Committed' /\ \A v \in Slots : Handler(v)'
    BY <1>1, <1>3, Frame
  <1>5. TypeOK' /\ Exclusive'
    BY <1>1, <1>3 DEF Inv, TypeOK, db, Exclusive, Open
  <1> QED
    BY <1>4, <1>5 DEF Inv

------------------------------------------------------------------------------
(* Steps of a turn and of the decision before they commit *)

\* A handler's next statement only changes its own slot, within its types.
LEMMA StatementStep ==
  ASSUME Inv, NEW w \in Slots, Open(w),
         UNCHANGED <<db, jobs, completions, faults>>,
         tx' \in [Slots -> [pc : Steps, job : Jobs \cup {NoJob},
                            version : Nat, writes : WritesType]],
         \A v \in Slots \ {w} : tx'[v] = tx[v],
         tx'[w].job = tx[w].job,
         Handler(w)'
  PROVE  Inv'
PROOF
  <1>1. TypeOK'
    BY DEF Inv, TypeOK, db
  <1>2. SameJobs
    BY DEF SameJobs
  <1> QED
    BY <1>1, <1>2, LocalStep

\* A statement that only moves the handler on keeps the rest of its slot.
LEMMA GotoStep ==
  ASSUME Inv, NEW w \in Slots, NEW pc \in Steps, Goto(w, pc)
  PROVE  /\ tx' \in [Slots -> [pc : Steps, job : Jobs \cup {NoJob},
                               version : Nat, writes : WritesType]]
         /\ \A v \in Slots \ {w} : tx'[v] = tx[v]
         /\ tx'[w].pc = pc /\ tx'[w].job = tx[w].job
         /\ tx'[w].version = tx[w].version /\ tx'[w].writes = tx[w].writes
  BY DEF Goto, Inv, TypeOK

\* The round is always still running, so the job always applies.
LEMMA PrepareStep ==
  ASSUME Inv, NEW w \in Slots, Prepare(w)
  PROVE  Inv'
PROOF
  <1>1. /\ tx[w].pc = "prepare" /\ Open(w) /\ tx[w].job \in Keys
        /\ tx[w].writes = NoWrites
        /\ tx[w].job \notin completions /\ tx[w].job \in Queue(w)
        /\ jobs[tx[w].job].status # "none"
    BY DEF Prepare, Open, OpenSteps, Inv, Handler, TurnSteps
  <1>2. /\ row.state = RoundState(tx[w].job[2])
        /\ row.version = jobs[tx[w].job].expected
        /\ tx[w].job \notin turns
    BY <1>1, OpenTurn DEF Round
  <1>3. Goto(w, "submit") /\ UNCHANGED <<db, jobs, completions, faults>>
    BY <1>2 DEF Prepare
  <1>4. /\ tx' \in [Slots -> [pc : Steps, job : Jobs \cup {NoJob},
                              version : Nat, writes : WritesType]]
        /\ \A v \in Slots \ {w} : tx'[v] = tx[v]
        /\ tx'[w].pc = "submit" /\ tx'[w].job = tx[w].job
        /\ tx'[w].writes = NoWrites
    BY <1>1, <1>3, GotoStep DEF Steps, OpenSteps
  <1>5. Handler(w)'
    BY <1>1, <1>3, <1>4 DEF Handler, Open, TurnSteps, DecisionSteps, Queue
  <1> QED
    BY <1>1, <1>3, <1>4, <1>5, StatementStep

LEMMA SubmitStep ==
  ASSUME Inv, NEW w \in Slots, Submit(w)
  PROVE  Inv'
PROOF
  <1> DEFINE k == tx[w].job
  <1>1. /\ tx[w].pc = "submit" /\ Open(w) /\ k \in Keys
        /\ tx[w].writes = NoWrites
        /\ k \notin completions /\ k \in Queue(w)
        /\ jobs[k].status # "none"
    BY DEF Submit, Open, OpenSteps, Inv, Handler, TurnSteps
  <1>2. row.state = RoundState(k[2]) /\ k \notin turns /\ row.version \in Nat
    BY <1>1, OpenTurn DEF Round, Inv, TypeOK
  <1>3. PICK offered \in {{}, {k} \ turns} :
          tx' = [tx EXCEPT ![w] = [pc |-> "count", job |-> k,
                                   version |-> row.version,
                                   writes |-> AppendTurn(k, offered)]]
    BY <1>2 DEF Submit, Materialized
  <1>4. UNCHANGED <<db, jobs, completions, faults>>
    BY DEF Submit
  <1> DEFINE writes == AppendTurn(k, offered)
  <1>5. offered \subseteq {k} /\ {k} \ turns = {k}
    BY <1>2, <1>3
  <1>6. /\ writes.turns = {k} /\ writes.offers = offered
        /\ writes.partial = IF S2Offers(offered) # {} /\ capacityEvent
                            THEN S2Offers(offers \cup offered) ELSE {}
        /\ ~writes.capacity /\ writes.row = NoRow
        /\ writes.jobs = {} /\ writes.rec = {}
        /\ writes \in WritesType
    BY <1>1, <1>5 DEF AppendTurn, WritesType, NoWrites, NoRow, States, S2Offers, Inv, TypeOK
  <1> HIDE DEF writes
  <1>7. /\ tx' \in [Slots -> [pc : Steps, job : Jobs \cup {NoJob},
                              version : Nat, writes : WritesType]]
        /\ \A v \in Slots \ {w} : tx'[v] = tx[v]
    BY <1>1, <1>2, <1>3, <1>6 DEF writes, Inv, TypeOK, Keys, Jobs, Steps, OpenSteps
  <1>8. /\ tx'[w].pc = "count" /\ tx'[w].job = k
        /\ tx'[w].version = row.version /\ tx'[w].writes = writes
    BY <1>3 DEF Inv, TypeOK, writes
  <1>9. Handler(w)'
    <2>1. NoMove(w)'
      BY <1>6, <1>8 DEF NoMove
    <2>2. TurnWrites(w)'
      BY <1>4, <1>5, <1>6, <1>8 DEF TurnWrites, db
    <2> QED
      BY <1>1, <1>4, <1>8, <2>1, <2>2
      DEF Handler, Open, OpenSteps, TurnSteps, DecisionSteps, Queue, db
  <1> QED
    BY <1>1, <1>4, <1>7, <1>8, <1>9, StatementStep

LEMMA CountTurnsStep ==
  ASSUME Inv, NEW w \in Slots, CountTurns(w)
  PROVE  Inv'
PROOF
  <1> DEFINE all == TurnJobs(Round(w)) \subseteq SeenTurns(w)
             pc  == IF all THEN "advance" ELSE "commit"
  <1>1. /\ tx[w].pc = "count" /\ Open(w) /\ tx[w].job \in Keys
        /\ tx[w].job \notin completions /\ tx[w].job \in Queue(w)
        /\ jobs[tx[w].job].status # "none"
        /\ tx[w].version = row.version /\ NoMove(w) /\ TurnWrites(w)
    BY DEF CountTurns, Open, OpenSteps, Inv, Handler, TurnSteps
  <1>2. Goto(w, pc) /\ UNCHANGED <<db, jobs, completions, faults>>
    BY DEF CountTurns
  <1>3. pc \in Steps
    BY DEF Steps, OpenSteps
  <1>4. /\ tx' \in [Slots -> [pc : Steps, job : Jobs \cup {NoJob},
                              version : Nat, writes : WritesType]]
        /\ \A v \in Slots \ {w} : tx'[v] = tx[v]
        /\ tx'[w].pc = pc /\ tx'[w].job = tx[w].job
        /\ tx'[w].version = tx[w].version /\ tx'[w].writes = tx[w].writes
    BY <1>2, <1>3, GotoStep
  <1>5. NoMove(w)' /\ TurnWrites(w)'
    BY <1>1, <1>2, <1>4 DEF NoMove, TurnWrites, db
  <1>6. all => LastTurn(w)'
    BY <1>1, <1>2, <1>4 DEF TurnWrites, LastTurn, SeenTurns, Round, db
  <1>7. tx[w].job # DecisionJob
    BY <1>1, KeyFacts
  <1>8. Handler(w)'
    BY <1>1, <1>2, <1>4, <1>5, <1>6, <1>7
    DEF Handler, Open, OpenSteps, TurnSteps, DecisionSteps, Queue, db
  <1> QED
    BY <1>1, <1>2, <1>4, <1>8, StatementStep

\* What a statement that leaves a slot at its commit makes of the slots.
LEMMA SlotAtCommit ==
  ASSUME Inv, NEW w \in Slots, NEW wr \in WritesType,
         tx' = [tx EXCEPT ![w].pc = "commit", ![w].writes = wr]
  PROVE  /\ tx' \in [Slots -> [pc : Steps, job : Jobs \cup {NoJob},
                               version : Nat, writes : WritesType]]
         /\ \A v \in Slots \ {w} : tx'[v] = tx[v]
         /\ tx'[w].pc = "commit" /\ tx'[w].job = tx[w].job
         /\ tx'[w].writes = wr
PROOF
  <1> DEFINE first == [tx[w] EXCEPT !.pc = "commit"]
             slot == [first EXCEPT !.writes = wr]
  <1>1. tx \in [Slots -> [pc : Steps, job : Jobs \cup {NoJob},
                          version : Nat, writes : WritesType]]
    BY DEF Inv, TypeOK
  <1>2. tx[w] \in [pc : Steps, job : Jobs \cup {NoJob},
                   version : Nat, writes : WritesType]
    BY <1>1
  <1>3. /\ first \in [pc : Steps, job : Jobs \cup {NoJob},
                       version : Nat, writes : WritesType]
        /\ first.pc = "commit" /\ first.job = tx[w].job
    <2>1. "commit" \in Steps
      BY DEF Steps, OpenSteps
    <2> QED
      BY <1>2, <2>1
  <1>4. tx' = [tx EXCEPT ![w] = slot]
    BY <1>1
  <1> HIDE DEF first
  <1>5. /\ slot \in [pc : Steps, job : Jobs \cup {NoJob},
                     version : Nat, writes : WritesType]
        /\ slot.pc = "commit" /\ slot.job = tx[w].job /\ slot.writes = wr
    BY <1>3
  <1> HIDE DEF slot
  <1>6. tx'[w] = slot
    BY <1>1, <1>4
  <1> QED
    BY <1>1, <1>4, <1>5, <1>6

\* Updated writes are writes.
LEMMA WritesRow ==
  ASSUME NEW wr \in WritesType, NEW r \in [state : States, version : Nat]
  PROVE  [wr EXCEPT !.row = r] \in WritesType
  BY DEF WritesType

LEMMA WritesMove ==
  ASSUME NEW wr \in WritesType, NEW r \in [state : States, version : Nat],
         NEW j \in SUBSET Jobs
  PROVE  [wr EXCEPT !.row = r, !.jobs = j] \in WritesType
  BY DEF WritesType

LEMMA WritesEvent ==
  ASSUME NEW wr \in WritesType, NEW r \in [state : States, version : Nat],
         NEW c \in BOOLEAN, NEW p \in SUBSET Keys, NEW j \in SUBSET Jobs
  PROVE  [wr EXCEPT !.row = r, !.capacity = c, !.partial = p, !.jobs = j]
              \in WritesType
  BY DEF WritesType

\* The compare-and-set of the last turn never misses: the version it read is
\* the row's, and no other transaction has the row.
LEMMA AdvanceStep ==
  ASSUME Inv, NEW w \in Slots, AdvanceToRoundTwo(w) \/ AdvanceToDecision(w)
  PROVE  Inv'
PROOF
  <1> DEFINE wr == tx[w].writes
             k  == tx[w].job
             v1 == [wr EXCEPT !.row = [state |-> "ROUND_2_RUNNING",
                                       version |-> tx[w].version + 3],
                              !.capacity = TRUE,
                              !.partial = IF capacityEvent THEN @
                                          ELSE S2Offers(SeenOffers(w)),
                              !.jobs = TurnJobs(2)]
             v2 == [wr EXCEPT !.row = [state |-> "EVALUATED",
                                       version |-> tx[w].version + 1],
                              !.jobs = {DecisionJob}]
  <1>1. /\ tx[w].pc = "advance" /\ Open(w) /\ k \in Keys
        /\ k \notin completions /\ k \in Queue(w)
        /\ jobs[k].status # "none"
        /\ tx[w].version = row.version
        /\ NoMove(w) /\ TurnWrites(w) /\ LastTurn(w)
    BY DEF AdvanceToRoundTwo, AdvanceToDecision, Open, OpenSteps, Inv, Handler, TurnSteps
  <1>2. /\ Round(w) \in Rounds
        /\ row = [state |-> RoundState(Round(w)), version |-> RoundVersion(Round(w))]
        /\ capacityEvent <=> Round(w) = 2
    BY <1>1, OpenTurn
  <1>3. /\ wr \in WritesType /\ tx[w].version = RoundVersion(Round(w))
        /\ row.version = RoundVersion(Round(w))
    BY <1>1, <1>2 DEF Inv, TypeOK
  <1>4. PICK writes \in {v1, v2} :
          /\ tx' = [tx EXCEPT ![w].pc = "commit", ![w].writes = writes]
          /\ Round(w) = 1 => writes = v1
          /\ Round(w) = 2 => writes = v2
    BY <1>1, <1>2, <1>3
    DEF AdvanceToRoundTwo, AdvanceToDecision, Transition, RoundState, RoundVersion
  <1>5. UNCHANGED <<db, jobs, completions, faults>>
    BY DEF AdvanceToRoundTwo, AdvanceToDecision
  <1>6. /\ writes \in WritesType
        /\ writes.turns = wr.turns /\ writes.offers = wr.offers
        /\ writes.rec = wr.rec
        /\ Round(w) = 1 =>
              /\ writes.row = [state |-> "ROUND_2_RUNNING", version |-> 4]
              /\ writes.capacity /\ writes.jobs = TurnJobs(2)
              /\ writes.partial = S2Offers(offers \cup wr.offers)
        /\ Round(w) = 2 =>
              /\ writes.row = [state |-> "EVALUATED", version |-> 5]
              /\ ~writes.capacity /\ writes.jobs = {DecisionJob}
              /\ writes.partial = wr.partial
    <2>1. CASE Round(w) = 1
      <3>1. writes = v1 /\ ~capacityEvent /\ tx[w].version = 1
        BY <1>2, <1>3, <1>4, <2>1 DEF RoundVersion
      <3>2. TurnJobs(2) \subseteq Jobs
        BY KeyFacts DEF Rounds
      <3>3. S2Offers(offers \cup wr.offers) \subseteq Keys
        BY <1>3 DEF S2Offers, Inv, TypeOK, WritesType
      <3>4. v1 \in WritesType
        <4>1. [state |-> "ROUND_2_RUNNING", version |-> tx[w].version + 3]
                \in [state : States, version : Nat]
          BY <3>1 DEF States
        <4>2. (IF capacityEvent THEN wr.partial ELSE S2Offers(SeenOffers(w)))
                \in SUBSET Keys
          BY <3>1, <3>3 DEF SeenOffers
        <4> QED
          BY <1>3, <3>2, <4>1, <4>2, WritesEvent
      <3>5. /\ v1.turns = wr.turns /\ v1.offers = wr.offers /\ v1.rec = wr.rec
            /\ v1.row = [state |-> "ROUND_2_RUNNING", version |-> 4]
            /\ v1.capacity /\ v1.jobs = TurnJobs(2)
            /\ v1.partial = S2Offers(offers \cup wr.offers)
        BY <1>3, <3>1 DEF WritesType, SeenOffers
      <3> QED
        BY <2>1, <3>1, <3>4, <3>5
    <2>2. CASE Round(w) = 2
      <3>1. writes = v2 /\ tx[w].version = 4
        BY <1>2, <1>3, <1>4, <2>2 DEF RoundVersion
      <3>2. wr.capacity = FALSE /\ DecisionJob \in Jobs
        BY <1>1, <1>3, KeyFacts DEF NoMove, WritesType
      <3>3. v2 \in WritesType
        <4>1. [state |-> "EVALUATED", version |-> tx[w].version + 1]
                \in [state : States, version : Nat]
          BY <3>1 DEF States
        <4>2. {DecisionJob} \in SUBSET Jobs
          BY <3>2
        <4> QED
          BY <1>3, <3>1, <4>1, <4>2, WritesMove
      <3>4. /\ v2.turns = wr.turns /\ v2.offers = wr.offers /\ v2.rec = wr.rec
            /\ v2.row = [state |-> "EVALUATED", version |-> 5]
            /\ v2.capacity = FALSE /\ v2.jobs = {DecisionJob}
            /\ v2.partial = wr.partial
        BY <1>3, <3>1, <3>2 DEF WritesType
      <3> QED
        BY <2>2, <3>1, <3>3, <3>4
    <2> QED
      BY <1>2, <2>1, <2>2 DEF Rounds
  <1> HIDE DEF v1, v2
  <1>7. /\ tx' \in [Slots -> [pc : Steps, job : Jobs \cup {NoJob},
                              version : Nat, writes : WritesType]]
        /\ \A v \in Slots \ {w} : tx'[v] = tx[v]
        /\ tx'[w].pc = "commit" /\ tx'[w].job = k /\ tx'[w].writes = writes
    <2>1. tx' = [tx EXCEPT ![w].pc = "commit", ![w].writes = writes]
      BY <1>4
    <2>2. writes \in WritesType
      BY <1>6
    <2> QED
      BY <2>1, <2>2, SlotAtCommit
  <1>8. Handler(w)'
    <2>1. Round(w)' = Round(w)
      BY <1>7 DEF Round
    <2>2. RoundMove(w)'
      BY <1>1, <1>2, <1>5, <1>6, <1>7, <2>1 DEF RoundMove, LastTurn, Rounds, db
    <2>3. TurnWrites(w)'
      <3>1. CASE Round(w) = 1
        BY <1>1, <1>5, <1>6, <1>7, <3>1 DEF TurnWrites, db
      <3>2. CASE Round(w) = 2
        BY <1>1, <1>5, <1>6, <1>7, <3>2 DEF TurnWrites, NoMove, db
      <3> QED
        BY <1>2, <3>1, <3>2 DEF Rounds
    <2>4. k # DecisionJob
      BY <1>1, KeyFacts
    <2> QED
      BY <1>1, <1>5, <1>7, <2>2, <2>3, <2>4
      DEF Handler, Open, OpenSteps, TurnSteps, DecisionSteps, Queue, db
  <1> QED
    BY <1>1, <1>5, <1>7, <1>8, StatementStep

LEMMA DecideStep ==
  ASSUME Inv, NEW w \in Slots, Decide(w)
  PROVE  Inv'
PROOF
  <1>1. /\ tx[w].pc = "decide" /\ Open(w) /\ tx[w].job = DecisionJob
        /\ tx[w].writes = NoWrites
        /\ DecisionJob \notin completions /\ DecisionJob \in Queue(w)
        /\ jobs[DecisionJob].status # "none"
    BY DEF Decide, Open, OpenSteps, Inv, Handler, DecisionSteps
  <1>2. /\ row = [state |-> "EVALUATED", version |-> 5] /\ recommendation = {}
        /\ jobs[DecisionJob].expected = 5
    BY <1>1, OpenDecision
  <1>3. PICK winner \in Eligible(w) \cup {NoOffer} :
          tx' = [tx EXCEPT ![w] =
                     [pc |-> "recommend", job |-> DecisionJob,
                      version |-> row.version,
                      writes |-> [NoWrites EXCEPT !.rec = {winner}]]]
    BY <1>2 DEF Decide
  <1>4. UNCHANGED <<db, jobs, completions, faults>>
    BY DEF Decide
  <1>5. winner \in CanWin \cup {NoOffer}
    BY <1>1 DEF Eligible, CanWin, SeenOffers, SeenPartial, NoWrites
  <1>6. winner \in Keys \cup {NoOffer}
    BY <1>5 DEF CanWin, Latest, Inv, TypeOK
  <1>7. /\ tx' \in [Slots -> [pc : Steps, job : Jobs \cup {NoJob},
                              version : Nat, writes : WritesType]]
        /\ \A v \in Slots \ {w} : tx'[v] = tx[v]
    <2>1. [NoWrites EXCEPT !.rec = {winner}] \in WritesType
      BY <1>6 DEF NoWrites, NoRow, WritesType, States
    <2>2. DecisionJob \in Jobs
      BY KeyFacts
    <2> QED
      BY <1>2, <1>3, <2>1, <2>2 DEF Inv, TypeOK, Steps, OpenSteps
  <1>8. /\ tx'[w].pc = "recommend" /\ tx'[w].job = DecisionJob
        /\ tx'[w].version = row.version
        /\ tx'[w].writes.rec = {winner} /\ tx'[w].writes.turns = {}
        /\ tx'[w].writes.offers = {} /\ tx'[w].writes.partial = {}
        /\ ~tx'[w].writes.capacity /\ tx'[w].writes.row = NoRow
        /\ tx'[w].writes.jobs = {}
    BY <1>1, <1>3 DEF Inv, TypeOK, WritesType, NoWrites
  <1>9. Handler(w)'
    <2>1. NoMove(w)' /\ CanWin' = CanWin
      BY <1>4, <1>8 DEF NoMove, CanWin, db
    <2>2. DecisionWrites(w)'
      BY <1>5, <1>8, <2>1 DEF DecisionWrites
    <2> QED
      BY <1>1, <1>4, <1>8, <2>1, <2>2
      DEF Handler, Open, OpenSteps, TurnSteps, DecisionSteps, Queue, db
  <1> QED
    BY <1>1, <1>4, <1>7, <1>8, <1>9, StatementStep

LEMMA RecommendStep ==
  ASSUME Inv, NEW w \in Slots, Recommend(w)
  PROVE  Inv'
PROOF
  <1>1. /\ tx[w].pc = "recommend" /\ Open(w) /\ tx[w].job = DecisionJob
        /\ DecisionJob \notin completions /\ DecisionJob \in Queue(w)
        /\ jobs[DecisionJob].status # "none"
        /\ tx[w].version = row.version /\ DecisionWrites(w)
    BY DEF Recommend, Open, OpenSteps, Inv, Handler, DecisionSteps
  <1>2. row.version = 5 /\ tx[w].version + 1 = 6
    BY <1>1, OpenDecision
  <1>3. tx' = [tx EXCEPT ![w].pc = "commit",
                         ![w].writes = [@ EXCEPT !.row =
                             [state |-> "RECOMMENDED", version |-> 6]]]
    BY <1>2 DEF Recommend
  <1>4. UNCHANGED <<db, jobs, completions, faults>>
    BY DEF Recommend
  <1>5. /\ tx' \in [Slots -> [pc : Steps, job : Jobs \cup {NoJob},
                              version : Nat, writes : WritesType]]
        /\ \A v \in Slots \ {w} : tx'[v] = tx[v]
    <2>1. [tx[w].writes EXCEPT !.row = [state |-> "RECOMMENDED", version |-> 6]]
            \in WritesType
      <3>1. [state |-> "RECOMMENDED", version |-> 6] \in [state : States, version : Nat]
        BY DEF States
      <3>2. tx[w].writes \in WritesType
        BY DEF Inv, TypeOK
      <3> QED
        BY <3>1, <3>2, WritesRow
    <2> DEFINE wr == [tx[w].writes EXCEPT !.row =
                        [state |-> "RECOMMENDED", version |-> 6]]
    <2>2. tx' = [tx EXCEPT ![w].pc = "commit", ![w].writes = wr]
      BY <1>3
    <2>3. wr \in WritesType
      BY <2>1
    <2> HIDE DEF wr
    <2> QED
      BY <2>2, <2>3, SlotAtCommit
  <1>6. /\ tx'[w].pc = "commit" /\ tx'[w].job = DecisionJob
        /\ tx'[w].writes.row = [state |-> "RECOMMENDED", version |-> 6]
        /\ tx'[w].writes.rec = tx[w].writes.rec
        /\ tx'[w].writes.turns = tx[w].writes.turns
        /\ tx'[w].writes.offers = tx[w].writes.offers
        /\ tx'[w].writes.partial = tx[w].writes.partial
        /\ tx'[w].writes.capacity = tx[w].writes.capacity
        /\ tx'[w].writes.jobs = tx[w].writes.jobs
    BY <1>1, <1>3 DEF Inv, TypeOK, WritesType
  <1>7. Handler(w)'
    <2>1. CanWin' = CanWin
      BY <1>4 DEF CanWin, db
    <2>2. DecisionWrites(w)'
      BY <1>1, <1>6, <2>1 DEF DecisionWrites
    <2>3. DecisionJob \notin Keys
      BY KeyFacts
    <2> QED
      BY <1>1, <1>4, <1>6, <2>2, <2>3
      DEF Handler, Open, OpenSteps, TurnSteps, DecisionSteps, Queue, db
  <1> QED
    BY <1>1, <1>4, <1>5, <1>6, <1>7, StatementStep

------------------------------------------------------------------------------
(* Commits *)

LEMMA S2OffersUnion ==
  /\ \A a, b : S2Offers(a \cup b) = S2Offers(a) \cup S2Offers(b)
  /\ S2Offers({}) = {}
  BY DEF S2Offers

\* What every commit does, whatever it wrote.
LEMMA CommitFacts ==
  ASSUME Inv, NEW w \in Slots, Commit(w)
  PROVE  /\ tx[w].pc = "commit" /\ Open(w)
         /\ tx[w].job \in Jobs /\ tx[w].job \notin completions
         /\ tx[w].job \in Queue(w) /\ jobs[tx[w].job].status # "none"
         /\ completions' = completions \cup {tx[w].job}
         /\ turns' = turns \cup tx[w].writes.turns
         /\ offers' = offers \cup tx[w].writes.offers
         /\ partial' = partial \cup tx[w].writes.partial
         /\ capacityEvent' = (capacityEvent \/ tx[w].writes.capacity)
         /\ recommendation' = recommendation \cup tx[w].writes.rec
         /\ row' = IF tx[w].writes.row = NoRow THEN row ELSE tx[w].writes.row
         /\ \A j \in Jobs : jobs'[j] = IF j \in tx[w].writes.jobs
                                      THEN Created(tx[w].writes.row.version)
                                      ELSE jobs[j]
         /\ \A j \in Jobs : jobs[j].status # "none" => jobs'[j].status # "none"
         /\ TypeOK'
         /\ \A v \in Slots \ {w} : tx'[v] = tx[v]
         /\ Handler(w)' /\ Exclusive'
PROOF
  <1>1. /\ tx[w].pc = "commit" /\ Open(w) /\ tx[w].job \in Jobs
        /\ tx[w].job \notin completions /\ tx[w].job \in Queue(w)
        /\ jobs[tx[w].job].status # "none"
    BY OpenJob DEF Commit, Open, OpenSteps, Inv, Handler
  <1>2. /\ tx[w].writes \in WritesType
        /\ tx[w].writes.row \in [state : States, version : Nat]
        /\ tx[w].writes.row.version \in Nat
    BY DEF Inv, TypeOK, WritesType
  <1>3. jobs' = [j \in Jobs |-> IF j \in tx[w].writes.jobs
                                THEN Created(tx[w].writes.row.version)
                                ELSE jobs[j]]
    BY DEF Commit, Enqueued
  <1>4. /\ jobs' \in [Jobs -> [status : Statuses, expected : Nat, attempts : Nat]]
        /\ \A j \in Jobs : jobs[j].status # "none" => jobs'[j].status # "none"
    BY <1>2, <1>3 DEF Inv, TypeOK, Created, Statuses
  <1>5. /\ tx' \in [Slots -> [pc : Steps, job : Jobs \cup {NoJob}, version : Nat,
                              writes : WritesType]]
        /\ \A v \in Slots \ {w} : tx'[v] = tx[v]
        /\ tx'[w].pc = "ack" /\ tx'[w].job = tx[w].job /\ tx'[w].writes = NoWrites
    <2>1. NoWrites \in WritesType
      BY DEF WritesType, NoWrites, NoRow, States
    <2>2. tx' = [tx EXCEPT ![w] = [Idle EXCEPT !.pc = "ack", !.job = tx[w].job]]
      BY DEF Commit
    <2> DEFINE slot == [Idle EXCEPT !.pc = "ack", !.job = tx[w].job]
    <2>3. /\ slot \in [pc : Steps, job : Jobs \cup {NoJob}, version : Nat,
                       writes : WritesType]
          /\ slot.pc = "ack" /\ slot.job = tx[w].job /\ slot.writes = NoWrites
      BY <1>1, <2>1 DEF Idle, Steps
    <2> HIDE DEF slot
    <2> QED
      BY <2>2, <2>3 DEF Inv, TypeOK, slot
  <1>6. TypeOK'
    <2>1. /\ row' \in [state : States, version : Nat]
          /\ turns' \subseteq Keys /\ offers' \subseteq Keys /\ partial' \subseteq Keys
          /\ recommendation' \subseteq Keys \cup {NoOffer}
          /\ completions' \subseteq Jobs /\ faults' \in Nat
      BY <1>1, <1>2 DEF Commit, Inv, TypeOK, WritesType
    <2>2. capacityEvent' \in BOOLEAN
      BY DEF Commit
    <2> QED
      BY <1>4, <1>5, <2>1, <2>2 DEF TypeOK
  <1>7. Handler(w)'
    BY <1>1, <1>4, <1>5 DEF Handler, Open, OpenSteps, TurnSteps, DecisionSteps, Queue
  <1>8. Exclusive'
    BY <1>5 DEF Inv, Exclusive, Open, OpenSteps
  <1> QED
    BY <1>1, <1>3, <1>4, <1>5, <1>6, <1>7, <1>8 DEF Commit

\* The turn that leaves its round open.
LEMMA CommitTurnStep ==
  ASSUME Inv, NEW w \in Slots, Commit(w), tx[w].job \in Keys, NoMove(w)
  PROVE  Inv'
PROOF
  <1> DEFINE k == tx[w].job
  <1>1. /\ tx[w].pc = "commit" /\ Open(w) /\ TurnWrites(w) /\ k # DecisionJob
        /\ k \notin completions /\ jobs[k].status # "none"
    BY CommitFacts, KeyFacts DEF Inv, Handler
  <1>2. /\ k \notin turns /\ Round(w) \in Rounds
        /\ row.state = RoundState(Round(w))
    BY <1>1, OpenTurn
  <1>3. /\ row' = row /\ turns' = turns \cup {k} /\ capacityEvent' = capacityEvent
        /\ offers' = offers \cup tx[w].writes.offers
        /\ partial' = partial \cup tx[w].writes.partial
        /\ recommendation' = recommendation /\ completions' = completions \cup {k}
        /\ \A j \in Jobs : jobs'[j] = jobs[j]
    <2>1. /\ tx[w].writes.row = NoRow /\ tx[w].writes.turns = {k}
      BY <1>1 DEF NoMove, TurnWrites
    <2>6. row' = row /\ turns' = turns \cup {k} /\ completions' = completions \cup {k}
      BY <2>1, CommitFacts
    <2>2. capacityEvent' = capacityEvent
      <3>1. capacityEvent' = (capacityEvent \/ tx[w].writes.capacity)
        BY CommitFacts
      <3>2. capacityEvent \in BOOLEAN /\ ~tx[w].writes.capacity
        BY DEF NoMove, Inv, TypeOK
      <3> QED
        BY <3>1, <3>2
    <2>3. recommendation' = recommendation
      BY <1>1, CommitFacts DEF TurnWrites
    <2>4. \A j \in Jobs : jobs'[j] = jobs[j]
      BY <1>1, CommitFacts DEF NoMove
    <2>5. /\ offers' = offers \cup tx[w].writes.offers
          /\ partial' = partial \cup tx[w].writes.partial
      BY CommitFacts
    <2> QED
      BY <2>2, <2>3, <2>4, <2>5, <2>6
  <1>4. recommendation = {}
    BY <1>2 DEF Inv, Committed, VersionCountsTransitions, RoundState
  <1>5. VersionCountsTransitions' /\ WinnerCanFulfil' /\ OneRecommendation'
    BY <1>3, <1>4 DEF Inv, Committed, VersionCountsTransitions, WinnerCanFulfil,
                      OneRecommendation
  <1>6. ClaimedExactlyWithEffect'
    BY <1>1, <1>3 DEF Inv, Committed, ClaimedExactlyWithEffect
  <1>7. JobsInv'
    <2>1. /\ k \in Jobs /\ completions \subseteq Jobs /\ DecisionJob \in Jobs
          /\ \A j \in Keys : j \in Jobs
          /\ TurnJobs(1) \subseteq Jobs /\ TurnJobs(2) \subseteq Jobs
      BY KeyFacts DEF Inv, TypeOK, Rounds
    <2> QED
      BY <1>1, <1>3, <2>1 DEF Inv, Committed, JobsInv
  <1>8. RoundsInv'
    BY <1>3 DEF Inv, Committed, RoundsInv
  <1>9. OffersInv'
    <2>1. offers' \subseteq turns'
      BY <1>1, <1>3 DEF Inv, Committed, OffersInv, TurnWrites
    <2>2. partial' = IF capacityEvent' THEN S2Offers(offers') ELSE {}
      BY <1>1, <1>3, S2OffersUnion
      DEF Inv, Committed, OffersInv, TurnWrites, NoMove
    <2> QED
      BY <2>1, <2>2 DEF OffersInv
  <1>10. ASSUME NEW v \in Slots \ {w}
         PROVE  Handler(v)'
    <2>1. /\ tx'[v] = tx[v] /\ Handler(v)
          /\ tx[v].pc # "idle" => tx[v].job \in Jobs
      BY CommitFacts, OpenJob DEF Inv
    <2>2. CASE ~Open(v)
      BY <1>3, <2>1, <2>2
      DEF Handler, Open, OpenSteps, TurnSteps, DecisionSteps, Queue
    <2>3. CASE Open(v)
      <3>1. /\ tx[v].pc # "advance" /\ tx[v].job \in Keys /\ tx[v].job # k
            /\ tx[v].pc = "commit" => NoMove(v)
            /\ tx[v].job # DecisionJob /\ tx[v].pc # "idle"
        <4>1. tx[v].pc # "advance" /\ tx[v].job # DecisionJob
          BY <1>1, <2>3, MoverIsAlone
        <4>2. tx[v].pc # "idle" /\ tx[v].job \in Keys
          BY <2>3, <4>1, OpenJob DEF Open, OpenSteps
        <4>3. tx[v].pc = "commit" => tx[v].writes.row = NoRow
          BY <1>1, <2>3, MoverIsAlone
        <4>4. tx[v].pc = "commit" => NoMove(v)
          BY <2>1, <4>2, <4>3 DEF Handler, RoundMove, NoRow
        <4>5. tx[v].job # k
          BY <1>1, <2>3 DEF Inv, Exclusive
        <4> QED
          BY <4>1, <4>2, <4>4, <4>5
      <3>2. Round(v) = Round(w)
        <4>1. row.state = RoundState(Round(v)) /\ Round(v) \in Rounds
          BY <2>3, <3>1, OpenTurn
        <4> QED
          BY <1>2, <4>1 DEF RoundState, Rounds
      <3>3. ASSUME TurnWrites(v)
            PROVE  TurnWrites(v)'
        <4>1. ~tx[v].writes.capacity
          <5>1. tx[v].writes # NoWrites
            BY <3>3 DEF TurnWrites, NoWrites
          <5>2. tx[v].pc \in {"count", "commit"}
            BY <2>1, <2>3, <3>1, <5>1 DEF Handler, Open, OpenSteps, DecisionSteps
          <5> QED
            BY <2>1, <3>1, <5>2 DEF Handler, NoMove
        <4>2. CASE S2Offers(tx[v].writes.offers) = {}
          BY <1>3, <2>1, <3>3, <4>1, <4>2 DEF TurnWrites
        <4>3. CASE S2Offers(tx[v].writes.offers) # {}
          <5>1. tx[v].job \in Keys /\ tx[v].job[1] = S2
            BY <3>1, <3>3, <4>3 DEF TurnWrites, S2Offers
          <5>2. k[1] # S2
            BY <3>1, <3>2, <5>1 DEF Round, Keys
          <5>3. S2Offers(tx[w].writes.offers) = {}
            BY <1>1, <5>2 DEF TurnWrites, S2Offers
          <5>4. S2Offers(offers' \cup tx[v].writes.offers)
                  = S2Offers(offers \cup tx[v].writes.offers)
            <6>1. S2Offers(offers') = S2Offers(offers) \cup S2Offers(tx[w].writes.offers)
              BY <1>3, S2OffersUnion
            <6>2. S2Offers(offers') = S2Offers(offers)
              BY <5>3, <6>1
            <6>3. /\ S2Offers(offers' \cup tx[v].writes.offers)
                       = S2Offers(offers') \cup S2Offers(tx[v].writes.offers)
                  /\ S2Offers(offers \cup tx[v].writes.offers)
                       = S2Offers(offers) \cup S2Offers(tx[v].writes.offers)
              BY S2OffersUnion
            <6> QED
              BY <6>2, <6>3
          <5> QED
            BY <1>3, <2>1, <3>3, <4>1, <4>3, <5>4 DEF TurnWrites
        <4> QED
          BY <4>2, <4>3
      <3>4. NoMove(v) => NoMove(v)'
        BY <2>1 DEF NoMove
      <3> QED
        BY <1>3, <2>1, <2>3, <3>1, <3>3, <3>4
        DEF Handler, Open, OpenSteps, TurnSteps, DecisionSteps, Queue
    <2> QED
      BY <2>2, <2>3
  <1>11. Committed'
    BY <1>5, <1>6, <1>7, <1>8, <1>9 DEF Committed
  <1> QED
    BY <1>10, <1>11, CommitFacts DEF Inv

\* A transaction that is not open says nothing about the rows.
LEMMA ClosedHandler ==
  ASSUME Inv, NEW v \in Slots, ~Open(v), tx'[v] = tx[v],
         \A j \in Jobs : jobs[j].status # "none" => jobs'[j].status # "none"
  PROVE  Handler(v)'
PROOF
  <1>1. Handler(v) /\ (tx[v].pc # "idle" => tx[v].job \in Jobs)
    BY OpenJob DEF Inv
  <1> QED
    BY <1>1 DEF Handler, Open, OpenSteps, TurnSteps, DecisionSteps, Queue

\* The turn that closes its round: every other transaction has ended.
LEMMA CommitMoveStep ==
  ASSUME Inv, NEW w \in Slots, Commit(w), tx[w].job \in Keys, RoundMove(w)
  PROVE  Inv'
PROOF
  <1> DEFINE k  == tx[w].job
             wr == tx[w].writes
  <1>1. /\ tx[w].pc = "commit" /\ Open(w) /\ TurnWrites(w) /\ k # DecisionJob
        /\ k \notin completions /\ jobs[k].status # "none"
    BY CommitFacts, KeyFacts DEF Inv, Handler
  <1>2. /\ k \notin turns /\ Round(w) \in Rounds
        /\ row.state = RoundState(Round(w))
        /\ capacityEvent <=> Round(w) = 2
    BY <1>1, OpenTurn
  <1>3. /\ row' = wr.row /\ turns' = turns \cup {k}
        /\ offers' = offers \cup wr.offers /\ partial' = partial \cup wr.partial
        /\ recommendation' = recommendation /\ completions' = completions \cup {k}
    <2>1. wr.row # NoRow
      BY DEF RoundMove, NoRow
    <2>2. wr.turns = {k} /\ wr.rec = {}
      BY <1>1 DEF TurnWrites
    <2>3. row' = wr.row
      BY <2>1, CommitFacts
    <2>4. turns' = turns \cup {k} /\ recommendation' = recommendation
      BY <2>2, CommitFacts
    <2>5. /\ offers' = offers \cup wr.offers /\ partial' = partial \cup wr.partial
          /\ completions' = completions \cup {k}
      BY CommitFacts
    <2> QED
      BY <2>3, <2>4, <2>5
  <1>4. recommendation = {} /\ DecisionJob \notin completions
    BY <1>2 DEF Inv, Committed, VersionCountsTransitions, ClaimedExactlyWithEffect,
                RoundState
  <1>5. TurnJobs(Round(w)) \subseteq turns'
    BY <1>3 DEF RoundMove, LastTurn
  <1>6. /\ capacityEvent' = TRUE
        /\ Round(w) = 1 => row' = [state |-> "ROUND_2_RUNNING", version |-> 4]
        /\ Round(w) = 2 => row' = [state |-> "EVALUATED", version |-> 5]
    <2>1. /\ Round(w) = 1 => row' = [state |-> "ROUND_2_RUNNING", version |-> 4]
          /\ Round(w) = 2 => row' = [state |-> "EVALUATED", version |-> 5]
      BY <1>3 DEF RoundMove
    <2>2. capacityEvent \/ wr.capacity
      BY <1>2 DEF RoundMove, Rounds
    <2>3. capacityEvent' = (capacityEvent \/ wr.capacity)
      BY CommitFacts
    <2> QED
      BY <2>1, <2>2, <2>3
  <1>7. VersionCountsTransitions' /\ WinnerCanFulfil' /\ OneRecommendation'
    BY <1>2, <1>3, <1>4, <1>6
    DEF VersionCountsTransitions, WinnerCanFulfil, OneRecommendation, Rounds
  <1>8. ClaimedExactlyWithEffect'
    BY <1>1, <1>3 DEF Inv, Committed, ClaimedExactlyWithEffect
  <1>9. RoundsInv'
    <2>1. Round(w) = 2 => TurnJobs(1) \subseteq turns
      BY <1>2 DEF Inv, Committed, RoundsInv, RoundState, Past, Rounds
    <2> QED
      BY <1>2, <1>3, <1>5, <1>6, <2>1 DEF RoundsInv, Past, Rounds
  <1>10. OffersInv'
    <2>1. offers' \subseteq turns'
      BY <1>1, <1>3 DEF Inv, Committed, OffersInv, TurnWrites
    <2>2. partial' = S2Offers(offers')
      BY <1>1, <1>2, <1>3, S2OffersUnion
      DEF Inv, Committed, OffersInv, TurnWrites, RoundMove, Rounds
    <2> QED
      BY <1>6, <2>1, <2>2 DEF OffersInv
  <1>11. JobsInv'
    <2>1. /\ k \in Jobs /\ completions \subseteq Jobs /\ DecisionJob \in Jobs
          /\ \A j \in Keys : j \in Jobs /\ j[2] \in Rounds /\ j \in TurnJobs(j[2])
          /\ TurnJobs(1) \subseteq Keys /\ TurnJobs(2) \subseteq Keys
          /\ TurnJobs(1) \cap TurnJobs(2) = {} /\ DecisionJob \notin Keys
      BY KeyFacts DEF Inv, TypeOK, Rounds
    <2>2. \A j \in Jobs : jobs'[j] = IF j \in wr.jobs THEN Created(wr.row.version)
                                                     ELSE jobs[j]
      BY CommitFacts
    <2>3. \A j \in completions' : jobs'[j].status # "none"
      BY <1>1, <1>3, <2>1, CommitFacts DEF Inv, Committed, JobsInv
    <2>4. CASE Round(w) = 1
      <3>1. /\ wr.jobs = TurnJobs(2) /\ wr.row.version = 4
            /\ row'.state = "ROUND_2_RUNNING" /\ row.state = "ROUND_1_RUNNING"
        BY <1>2, <1>3, <1>6, <2>4 DEF RoundMove, RoundState
      <3>2. \A j \in TurnJobs(2) : /\ jobs'[j].status = "created"
                                   /\ jobs'[j].expected = 4 /\ j[2] = 2
        BY <2>1, <2>2, <3>1 DEF Created, TurnJobs
      <3>3. \A j \in TurnJobs(1) \cup {DecisionJob} : jobs'[j] = jobs[j]
        BY <2>1, <2>2, <3>1
      <3>4. \A j \in TurnJobs(1) : jobs[j].status # "none" /\ j[2] = 1
        BY <3>1 DEF Inv, Committed, JobsInv, TurnJobs
      <3>5. jobs[DecisionJob].status = "none"
        BY <3>1 DEF Inv, Committed, JobsInv, Past
      <3>6. \A j \in Keys : jobs'[j].status # "none" =>
                              jobs'[j].expected = RoundVersion(j[2])
        <4>1. \A j \in Keys : j \in TurnJobs(1) \/ j \in TurnJobs(2)
          BY <2>1 DEF Rounds
        <4> QED
          BY <3>2, <3>3, <4>1 DEF Inv, Committed, JobsInv, RoundVersion
      <3> QED
        BY <2>3, <3>1, <3>2, <3>3, <3>4, <3>5, <3>6 DEF JobsInv, Past
    <2>5. CASE Round(w) = 2
      <3>1. /\ wr.jobs = {DecisionJob} /\ wr.row.version = 5
            /\ row'.state = "EVALUATED" /\ row.state = "ROUND_2_RUNNING"
        BY <1>2, <1>3, <1>6, <2>5 DEF RoundMove, RoundState
      <3>2. /\ jobs'[DecisionJob].status = "created"
            /\ jobs'[DecisionJob].expected = 5
        BY <2>1, <2>2, <3>1 DEF Created
      <3>3. \A j \in Keys : jobs'[j] = jobs[j]
        BY <2>1, <2>2, <3>1
      <3>4. \A j \in TurnJobs(1) \cup TurnJobs(2) : jobs[j].status # "none"
        BY <3>1 DEF Inv, Committed, JobsInv, Past
      <3>5. \A j \in Keys : jobs'[j].status # "none" =>
                              jobs'[j].expected = RoundVersion(j[2])
        BY <3>3 DEF Inv, Committed, JobsInv
      <3> QED
        BY <2>1, <2>3, <3>1, <3>2, <3>3, <3>4, <3>5 DEF JobsInv, Past
    <2> QED
      BY <1>2, <2>4, <2>5 DEF Rounds
  <1>12. ASSUME NEW v \in Slots \ {w}
         PROVE  Handler(v)'
    <2>1. wr.row # NoRow
      BY <1>2 DEF RoundMove, NoRow, Rounds
    <2>2. ~Open(v)
      BY <1>1, <2>1, MoverIsAlone
    <2> QED
      BY <2>2, CommitFacts, ClosedHandler
  <1>13. Committed'
    BY <1>7, <1>8, <1>9, <1>10, <1>11 DEF Committed
  <1> QED
    BY <1>12, <1>13, CommitFacts DEF Inv

LEMMA CommitDecisionStep ==
  ASSUME Inv, NEW w \in Slots, Commit(w), tx[w].job = DecisionJob
  PROVE  Inv'
PROOF
  <1> DEFINE wr == tx[w].writes
  <1>1. /\ tx[w].pc = "commit" /\ Open(w) /\ DecisionWrites(w)
        /\ wr.row = [state |-> "RECOMMENDED", version |-> 6]
        /\ jobs[DecisionJob].status # "none"
    BY CommitFacts DEF Inv, Handler
  <1>2. row = [state |-> "EVALUATED", version |-> 5] /\ recommendation = {}
    BY <1>1, OpenDecision
  <1>3. /\ row' = [state |-> "RECOMMENDED", version |-> 6]
        /\ turns' = turns /\ offers' = offers /\ partial' = partial
        /\ recommendation' = wr.rec /\ completions' = completions \cup {DecisionJob}
        /\ \A j \in Jobs : jobs'[j] = jobs[j]
    <2>1. /\ wr.turns = {} /\ wr.offers = {} /\ wr.partial = {}
          /\ wr.jobs = {} /\ wr.row # NoRow
      BY <1>1 DEF DecisionWrites, NoRow
    <2>2. row' = [state |-> "RECOMMENDED", version |-> 6]
      BY <1>1, <2>1, CommitFacts
    <2>3. /\ turns' = turns /\ offers' = offers /\ partial' = partial
          /\ recommendation' = wr.rec
      BY <1>2, <2>1, CommitFacts
    <2>4. /\ completions' = completions \cup {DecisionJob}
          /\ \A j \in Jobs : jobs'[j] = jobs[j]
      BY <2>1, CommitFacts
    <2> QED
      BY <2>2, <2>3, <2>4
  <1>4. capacityEvent' = capacityEvent
    BY <1>1, CommitFacts DEF DecisionWrites, Inv, TypeOK
  <1>5. PICK x \in CanWin \cup {NoOffer} : recommendation' = {x}
    BY <1>1, <1>3 DEF DecisionWrites
  <1>6. VersionCountsTransitions'
    BY <1>3, <1>5 DEF VersionCountsTransitions
  <1>7. WinnerCanFulfil' /\ OneRecommendation'
    BY <1>3, <1>5 DEF WinnerCanFulfil, CanWin, OneRecommendation
  <1>8. ClaimedExactlyWithEffect'
    BY <1>3, <1>5, KeyFacts DEF Inv, Committed, ClaimedExactlyWithEffect
  <1>9. RoundsInv' /\ OffersInv'
    BY <1>2, <1>3, <1>4 DEF Inv, Committed, RoundsInv, OffersInv, Past, Rounds
  <1>10. JobsInv'
    <2>1. /\ completions \subseteq Jobs /\ DecisionJob \in Jobs
          /\ \A j \in Keys : j \in Jobs
          /\ TurnJobs(1) \subseteq Jobs /\ TurnJobs(2) \subseteq Jobs
      BY KeyFacts DEF Inv, TypeOK, Rounds
    <2> QED
      BY <1>1, <1>2, <1>3, <2>1 DEF Inv, Committed, JobsInv, Past
  <1>11. ASSUME NEW v \in Slots \ {w}
         PROVE  Handler(v)'
    <2>1. ~Open(v)
      BY <1>1, MoverIsAlone
    <2> QED
      BY <2>1, CommitFacts, ClosedHandler
  <1>12. Committed'
    BY <1>6, <1>7, <1>8, <1>9, <1>10 DEF Committed
  <1> QED
    BY <1>11, <1>12, CommitFacts DEF Inv

LEMMA CommitStep ==
  ASSUME Inv, NEW w \in Slots, Commit(w)
  PROVE  Inv'
PROOF
  <1>1. tx[w].job \in Keys \/ tx[w].job = DecisionJob
    BY OpenJob DEF Commit
  <1>2. tx[w].job \in Keys => NoMove(w) \/ RoundMove(w)
    BY DEF Commit, Inv, Handler
  <1> QED
    BY <1>1, <1>2, CommitTurnStep, CommitMoveStep, CommitDecisionStep

------------------------------------------------------------------------------
(* The two requests *)

LEMMA StartStep ==
  ASSUME Inv, StartNegotiation
  PROVE  Inv'
PROOF
  <1>1. /\ row.state = "ABSENT" /\ row' = [state |-> "ROUND_1_RUNNING", version |-> 1]
        /\ UNCHANGED <<turns, offers, partial, capacityEvent, recommendation,
                       completions, tx, faults>>
        /\ \A j \in Jobs : jobs'[j] = IF j \in TurnJobs(1) THEN Created(1) ELSE jobs[j]
        /\ jobs' \in [Jobs -> [status : Statuses, expected : Nat, attempts : Nat]]
    BY DEF StartNegotiation, Created, Statuses, Inv, TypeOK
  <1>2. TypeOK'
    BY <1>1 DEF Inv, TypeOK, States
  <1>3. \A j \in Jobs : jobs[j].status = "none"
    <2>1. \A j \in Jobs : j \in TurnJobs(1) \/ j \in TurnJobs(2) \/ j = DecisionJob
      BY KeyFacts DEF Jobs, Rounds
    <2> QED
      BY <1>1, <2>1 DEF Inv, Committed, JobsInv, Past
  <1>4. completions = {} /\ turns = {} /\ recommendation = {}
    BY <1>3 DEF Inv, Committed, JobsInv, ClaimedExactlyWithEffect, TypeOK
  <1>5. \A v \in Slots : ~Open(v)
    BY <1>3, OpenJob DEF Inv, Handler, Open, OpenSteps
  <1>6. \A v \in Slots : Handler(v)'
    <2>1. \A j \in Jobs : jobs[j].status # "none" => jobs'[j].status # "none"
      BY <1>3
    <2> QED
      BY <1>1, <1>5, <2>1, ClosedHandler
  <1>7. Exclusive'
    BY <1>1, <1>5 DEF Exclusive, Open
  <1>8. /\ VersionCountsTransitions' /\ WinnerCanFulfil'
        /\ ClaimedExactlyWithEffect' /\ RoundsInv' /\ OffersInv'
        /\ OneRecommendation'
    BY <1>1, <1>4
    DEF Inv, Committed, VersionCountsTransitions, WinnerCanFulfil,
        ClaimedExactlyWithEffect, RoundsInv, OffersInv, OneRecommendation, Past, Rounds
  <1>9. JobsInv'
    <2>1. /\ TurnJobs(1) \subseteq Jobs /\ TurnJobs(2) \subseteq Jobs
          /\ TurnJobs(1) \cap TurnJobs(2) = {}
          /\ \A j \in Keys : j \in Jobs
          /\ DecisionJob \in Jobs /\ DecisionJob \notin TurnJobs(1)
      BY KeyFacts DEF Rounds
    <2>2. \A j \in TurnJobs(1) : jobs'[j].status = "created" /\ jobs'[j].expected = 1
                                 /\ j[2] = 1
      BY <1>1, <2>1 DEF Created, TurnJobs
    <2>3. \A j \in Jobs \ TurnJobs(1) : jobs'[j].status = "none"
      BY <1>1, <1>3
    <2> QED
      BY <1>1, <1>4, <2>1, <2>2, <2>3 DEF JobsInv, Past, RoundVersion
  <1> QED
    BY <1>2, <1>6, <1>7, <1>8, <1>9 DEF Inv, Committed

LEMMA IssueStep ==
  ASSUME Inv, IssuePurchaseOrder
  PROVE  Inv'
PROOF
  <1>1. /\ row.state = "RECOMMENDED"
        /\ row' = [state |-> "PO_COMMITTED", version |-> row.version + 1]
        /\ UNCHANGED <<turns, offers, partial, capacityEvent, recommendation,
                       jobs, completions, tx, faults>>
    BY DEF IssuePurchaseOrder
  <1>2. row.version = 6 /\ recommendation # {} /\ row'.version = 7
    BY <1>1 DEF Inv, Committed, VersionCountsTransitions
  <1>3. TypeOK'
    BY <1>1, <1>2 DEF Inv, TypeOK, States
  <1>4. \A v \in Slots : ~Open(v)
    <2> SUFFICES ASSUME NEW v \in Slots, Open(v) PROVE FALSE
      OBVIOUS
    <2>1. CASE tx[v].job \in Keys
      BY <1>1, <2>1, OpenTurn DEF RoundState
    <2>2. CASE tx[v].job = DecisionJob
      BY <1>1, <2>2, OpenDecision
    <2> QED
      BY <2>1, <2>2, OpenJob DEF Open, OpenSteps
  <1>5. \A v \in Slots : Handler(v)'
    BY <1>1, <1>4, ClosedHandler
  <1>6. Exclusive'
    BY <1>1, <1>4 DEF Exclusive, Open
  <1>7. VersionCountsTransitions'
    BY <1>1, <1>2 DEF VersionCountsTransitions
  <1>8. /\ ClaimedExactlyWithEffect' /\ OffersInv'
        /\ WinnerCanFulfil' /\ OneRecommendation'
    BY <1>1 DEF Inv, Committed, ClaimedExactlyWithEffect, OffersInv, WinnerCanFulfil,
                OneRecommendation
  <1>9. RoundsInv' /\ JobsInv'
    BY <1>1 DEF Inv, Committed, RoundsInv, JobsInv, Past, Rounds
  <1> QED
    BY <1>3, <1>5, <1>6, <1>7, <1>8, <1>9 DEF Inv, Committed

------------------------------------------------------------------------------
(* The theorems *)

LEMMA InitInv == Init => Inv
PROOF
  <1> SUFFICES ASSUME Init PROVE Inv
    OBVIOUS
  <1>1. TypeOK
    BY DEF Init, TypeOK, NoRow, States, NoSuchJob, Statuses, Idle, Steps,
           WritesType, NoWrites
  <1>2. Committed
    <2>1. /\ TurnJobs(1) \subseteq Jobs /\ TurnJobs(2) \subseteq Jobs
          /\ DecisionJob \in Jobs /\ \A k \in Keys : k \in Jobs
      BY KeyFacts DEF Rounds
    <2> QED
      BY <2>1 DEF Init, Committed, NoRow, NoSuchJob, VersionCountsTransitions,
             ClaimedExactlyWithEffect, JobsInv, RoundsInv, OffersInv,
             WinnerCanFulfil, OneRecommendation, Past, Rounds
  <1>3. \A w \in Slots : Handler(w) /\ ~Open(w)
    BY DEF Init, Idle, Handler, Open, OpenSteps, TurnSteps, DecisionSteps
  <1> QED
    BY <1>1, <1>2, <1>3 DEF Inv, Exclusive

LEMMA NextInv == Inv /\ [Next]_vars => Inv'
PROOF
  <1> SUFFICES ASSUME Inv, [Next]_vars PROVE Inv'
    OBVIOUS
  <1>1. CASE StartNegotiation
    BY <1>1, StartStep
  <1>2. CASE IssuePurchaseOrder
    BY <1>2, IssueStep
  <1>3. ASSUME NEW w \in Slots, Deliver(w) \/ Handle(w) \/ Fail(w) \/ Crash(w)
        PROVE  Inv'
    <2>1. CASE Deliver(w)
      BY <2>1, FetchStep DEF Deliver
    <2>2. CASE Handle(w)
      BY <2>2, ClaimStep, CommitStep, AcknowledgeStep, PrepareStep, SubmitStep,
         CountTurnsStep, AdvanceStep, DecideStep, RecommendStep DEF Handle
    <2>3. CASE Fail(w)
      BY <2>3, FailStep
    <2>4. CASE Crash(w)
      BY <2>4, CrashStep
    <2> QED
      BY <1>3, <2>1, <2>2, <2>3, <2>4
  <1>4. ASSUME NEW j \in Jobs, Lapse(j) \/ Outlive(j)
        PROVE  Inv'
    BY <1>4, ExpireStep
  <1>5. CASE UNCHANGED vars
    <2>1. UNCHANGED <<db, completions>> /\ tx' = tx /\ SameJobs
      BY <1>5 DEF vars, db, SameJobs
    <2>2. Committed' /\ \A v \in Slots : Handler(v)'
      BY <2>1, Frame
    <2>3. TypeOK' /\ Exclusive'
      BY <1>5 DEF vars, Inv, TypeOK, Exclusive, Open
    <2> QED
      BY <2>2, <2>3 DEF Inv
  <1> QED
    BY <1>1, <1>2, <1>3, <1>4, <1>5 DEF Next

\* The invariant holds in every reachable state.
THEOREM Invariant == Spec => []Inv
PROOF
  <1>1. Init => Inv
    BY InitInv
  <1>2. Inv /\ [Next]_vars => Inv'
    BY NextInv
  <1> QED
    BY <1>1, <1>2, PTL DEF Spec

\* Every variable keeps its type (all of Negotiation's state).
THEOREM TypeCorrect == Spec => []TypeOK
PROOF
  <1>1. Inv => TypeOK
    BY DEF Inv
  <1> QED
    BY <1>1, Invariant, PTL

\* A turn or a recommendation is committed with its claim and only with it, so
\* every job takes effect at most once (worker-execution.ts).
THEOREM ExactlyOnce == Spec => []ClaimedExactlyWithEffect
PROOF
  <1>1. Inv => ClaimedExactlyWithEffect
    BY DEF Inv, Committed
  <1> QED
    BY <1>1, Invariant, PTL

\* Each transition of the negotiation row happens exactly once
\* (negotiation-lifecycle.ts transition).
THEOREM TransitionsOnce == Spec => []VersionCountsTransitions
PROOF
  <1>1. Inv => VersionCountsTransitions
    BY DEF Inv, Committed
  <1> QED
    BY <1>1, Invariant, PTL

\* The capacity event falls between the rounds: no turn of round 2 is enqueued
\* or recorded before it and all of round 1 are (advanceToRoundTwo).
THEOREM Curveball == Spec => []CurveballBetweenRounds
PROOF
  <1>1. Inv => CurveballBetweenRounds
    <2> SUFFICES ASSUME Inv, NEW k \in TurnJobs(2),
                        k \in turns \/ jobs[k].status # "none"
                 PROVE  capacityEvent /\ TurnJobs(1) \subseteq turns
      BY DEF CurveballBetweenRounds
    <2>1. jobs[k].status # "none"
      BY DEF Inv, Committed, ClaimedExactlyWithEffect, JobsInv
    <2> QED
      BY <2>1 DEF Inv, Committed, JobsInv, RoundsInv, Rounds
  <1> QED
    BY <1>1, Invariant, PTL

\* Once capacity has dropped every committed offer of S2 is marked ineligible
\* (negotiation-offers.ts materializeS2Fulfillment).
THEOREM CapacityApplied == Spec => []CapacityReachesEveryS2Offer
PROOF
  <1>1. Inv => CapacityReachesEveryS2Offer
    BY DEF Inv, Committed, OffersInv, CapacityReachesEveryS2Offer
  <1> QED
    BY <1>1, Invariant, PTL

\* Whatever wins is the latest offer of its supplier and covers the whole order
\* (negotiation-decision.ts loadDecisionInputs, saveRecommendation).
THEOREM WinnerFulfils == Spec => []WinnerCanFulfil
PROOF
  <1>1. Inv => WinnerCanFulfil
    BY DEF Inv, Committed
  <1> QED
    BY <1>1, Invariant, PTL

\* Every state is committed together with the jobs that will leave it, at the
\* version they expect (pg-boss-bridge.ts enqueue).
THEOREM JobsFollowState == Spec => []JobsMatchState
PROOF
  <1>1. Inv => JobsMatchState
    <2> SUFFICES ASSUME Inv PROVE JobsMatchState
      OBVIOUS
    <2>1. ASSUME NEW r \in Rounds, row.state = RoundState(r), NEW k \in TurnJobs(r)
          PROVE  jobs[k].status # "none" /\ jobs[k].expected = row.version
      <3>1. k \in Keys /\ k[2] = r
        BY KeyFacts DEF TurnJobs
      <3>2. jobs[k].status # "none"
        BY <2>1 DEF Inv, Committed, JobsInv, RoundState, Past, Rounds
      <3>3. row.version = RoundVersion(r)
        BY <2>1 DEF Inv, Committed, VersionCountsTransitions, RoundState,
                    RoundVersion, Rounds
      <3> QED
        BY <3>1, <3>2, <3>3 DEF Inv, Committed, JobsInv
    <2>2. row.state = "EVALUATED" => /\ jobs[DecisionJob].status # "none"
                                     /\ jobs[DecisionJob].expected = row.version
      BY DEF Inv, Committed, JobsInv, VersionCountsTransitions, Past
    <2>3. jobs[DecisionJob].status # "none" => TurnJobs(2) \subseteq turns
      BY DEF Inv, Committed, JobsInv, RoundsInv, Rounds
    <2> QED
      BY <2>1, <2>2, <2>3 DEF JobsMatchState
  <1> QED
    BY <1>1, Invariant, PTL

\* From EVALUATED on no turn, offer or fulfilment row is written any more: the
\* decision and the purchase order read what was evaluated.
THEOREM Frozen == Spec => FrozenAfterEvaluation
PROOF
  <1> DEFINE Kept == row.state \in {"EVALUATED", "RECOMMENDED", "PO_COMMITTED"} =>
                       UNCHANGED <<turns, offers, partial>>
  <1>1. Inv /\ [Next]_vars => Kept
    <2> SUFFICES ASSUME Inv, [Next]_vars,
                        row.state \in {"EVALUATED", "RECOMMENDED", "PO_COMMITTED"}
                 PROVE  UNCHANGED <<turns, offers, partial>>
      OBVIOUS
    <2>1. ASSUME NEW w \in Slots, Commit(w)
          PROVE  UNCHANGED <<turns, offers, partial>>
      <3>1. tx[w].job \notin Keys
        BY <2>1, CommitFacts, OpenTurn DEF RoundState
      <3>2. DecisionWrites(w)
        BY <2>1, <3>1, OpenJob DEF Commit, Inv, Handler
      <3> QED
        BY <2>1, <3>2 DEF Commit, DecisionWrites
    <2>2. ASSUME NEW w \in Slots, Handle(w), ~Commit(w)
          PROVE  UNCHANGED <<turns, offers, partial>>
      BY <2>2 DEF Handle, Claim, Acknowledge, Prepare, Submit, CountTurns,
                  AdvanceToRoundTwo, AdvanceToDecision, Decide, Recommend, db
    <2>3. ASSUME NEW w \in Slots, Deliver(w) \/ Fail(w) \/ Crash(w)
          PROVE  UNCHANGED <<turns, offers, partial>>
      BY <2>3 DEF Deliver, Fetch, Fail, Crash, db
    <2>4. ASSUME NEW j \in Jobs, Lapse(j) \/ Outlive(j)
          PROVE  UNCHANGED <<turns, offers, partial>>
      BY <2>4 DEF Lapse, Outlive, db
    <2>5. CASE StartNegotiation \/ IssuePurchaseOrder \/ UNCHANGED vars
      BY <2>5 DEF StartNegotiation, IssuePurchaseOrder, vars
    <2> QED
      BY <2>1, <2>2, <2>3, <2>4, <2>5 DEF Next
  <1>2. Inv /\ [Next]_vars => [Kept]_vars
    BY <1>1
  <1> QED
    BY <1>2, Invariant, PTL DEF Spec, FrozenAfterEvaluation

------------------------------------------------------------------------------
(* One handler of turns at a time *)

\* Handlers of turns do not overlap: there is one worker process, and they end
\* before their jobs expire (pg-boss then fetches on while the handler runs).
OneTurnSlot == \A v, w \in TurnSlots : v = w

\* A turn about to commit without moving the row is not the last of its round.
LeavesRoundOpen(w) ==
    tx[w].pc = "commit" /\ tx[w].job \in Keys /\ NoMove(w) => ~LastTurn(w)

Closes == RoundCloses /\ \A w \in Slots : LeavesRoundOpen(w)

\* No round has its turns before it has begun.
LEMMA RoundEmpty ==
  ASSUME Inv, NEW r \in Rounds,
         row.state = "ABSENT" \/ (r = 2 /\ row.state = "ROUND_1_RUNNING")
  PROVE  TurnJobs(r) \cap turns = {} /\ TurnJobs(r) # {}
PROOF
  <1>1. \A k \in TurnJobs(r) : jobs[k].status = "none"
    BY DEF Inv, Committed, JobsInv, Past, Rounds
  <1>2. \A k \in turns : jobs[k].status # "none"
    BY DEF Inv, Committed, JobsInv, ClaimedExactlyWithEffect
  <1>3. TurnJobs(r) # {}
    BY NegotiationAssumption DEF TurnJobs
  <1> QED
    BY <1>1, <1>2, <1>3

\* What a statement of w makes of the promise of w itself.
LEMMA OwnStatement ==
  ASSUME Inv, NEW w \in Slots, LeavesRoundOpen(w), ~Commit(w),
         Deliver(w) \/ Handle(w) \/ Fail(w) \/ Crash(w)
  PROVE  LeavesRoundOpen(w)'
PROOF
  <1> SUFFICES ASSUME tx'[w].pc = "commit", tx'[w].job \in Keys, NoMove(w)'
               PROVE  ~LastTurn(w)'
    BY DEF LeavesRoundOpen
  <1>1. /\ tx \in [Slots -> [pc : Steps, job : Jobs \cup {NoJob},
                             version : Nat, writes : WritesType]]
        /\ tx[w] \in [pc : Steps, job : Jobs \cup {NoJob},
                      version : Nat, writes : WritesType]
    BY DEF Inv, TypeOK
  <1>2. CASE Deliver(w) \/ Fail(w) \/ Crash(w) \/ Claim(w) \/ Acknowledge(w)
    <2>1. Deliver(w) => tx'[w].pc = "claim"
      <3>1. ASSUME NEW j \in Jobs, Fetch(w, j)
            PROVE  tx'[w].pc = "claim"
        <4> DEFINE slot == [Idle EXCEPT !.pc = "claim", !.job = j]
        <4>1. slot.pc = "claim"
          BY DEF Idle
        <4>2. tx' = [tx EXCEPT ![w] = slot]
          BY <3>1 DEF Fetch
        <4> HIDE DEF slot
        <4> QED
          BY <1>1, <4>1, <4>2
      <3> QED
        BY <3>1 DEF Deliver
    <2>2. Fail(w) \/ Crash(w) \/ Acknowledge(w) => tx'[w].pc = "idle"
      BY <1>1 DEF Fail, Crash, Acknowledge, Idle
    <2>3. Claim(w) => tx'[w].pc \in {"ack", "decide", "prepare"}
      BY <1>1 DEF Claim, Goto, FirstStep
    <2> QED
      BY <1>2, <2>1, <2>2, <2>3
  <1>3. CASE Prepare(w)
    <2>1. tx[w].job \in Keys /\ Open(w)
      BY <1>3 DEF Prepare, Open, OpenSteps, Inv, Handler, TurnSteps
    <2>2. row.state = RoundState(Round(w)) /\ row.version = jobs[tx[w].job].expected
          /\ tx[w].job \notin turns
      BY <2>1, OpenTurn
    <2>3. tx'[w].pc = "submit"
      BY <1>1, <1>3, <2>2 DEF Prepare, Goto, Round
    <2> QED
      BY <2>3
  <1>4. CASE Submit(w)
    <2>1. tx[w].job \in Keys /\ Open(w)
      BY <1>4 DEF Submit, Open, OpenSteps, Inv, Handler, TurnSteps
    <2>2. row.state = RoundState(Round(w))
      BY <2>1, OpenTurn
    <2>3. tx'[w].pc = "count"
      BY <1>1, <1>4, <2>2 DEF Submit, Round
    <2> QED
      BY <2>3
  <1>5. CASE CountTurns(w)
    <2>1. tx[w].job \in Keys /\ tx[w].writes.turns = {tx[w].job}
      BY <1>5 DEF CountTurns, Inv, Handler, TurnSteps, TurnWrites
    <2>2. ~(TurnJobs(Round(w)) \subseteq SeenTurns(w)) /\ tx'[w].job = tx[w].job
          /\ turns' = turns
      BY <1>1, <1>5 DEF CountTurns, Goto, db
    <2> QED
      BY <2>1, <2>2 DEF SeenTurns, LastTurn, Round
  <1>6. CASE AdvanceToRoundTwo(w) \/ AdvanceToDecision(w)
    <2>1. tx[w].job \in Keys /\ Open(w) /\ tx[w].version = row.version
      BY <1>6 DEF AdvanceToRoundTwo, AdvanceToDecision, Open, OpenSteps, Inv, Handler,
                  TurnSteps
    <2>2. row = [state |-> RoundState(Round(w)), version |-> tx[w].version]
      BY <2>1, OpenTurn
    <2>3. ASSUME NEW moved, moved.row # NoRow, Transition(w, RoundState(Round(w)), moved)
          PROVE  tx'[w].writes.row # NoRow
      BY <1>1, <2>2, <2>3 DEF Transition
    <2> DEFINE toTwo == [tx[w].writes EXCEPT
                            !.row = [state |-> "ROUND_2_RUNNING",
                                     version |-> tx[w].version + 3],
                            !.capacity = TRUE,
                            !.partial = IF capacityEvent THEN @ ELSE S2Offers(SeenOffers(w)),
                            !.jobs = TurnJobs(2)]
               toDecision == [tx[w].writes EXCEPT
                                 !.row = [state |-> "EVALUATED", version |-> tx[w].version + 1],
                                 !.jobs = {DecisionJob}]
    <2>4. toTwo.row # NoRow /\ toDecision.row # NoRow
      BY <1>1 DEF NoRow, WritesType
    <2>5. \/ Transition(w, RoundState(Round(w)), toTwo)
          \/ Transition(w, RoundState(Round(w)), toDecision)
      BY <1>6 DEF AdvanceToRoundTwo, AdvanceToDecision, RoundState
    <2> HIDE DEF toTwo, toDecision
    <2>6. tx'[w].writes.row # NoRow
      BY <2>3, <2>4, <2>5
    <2> QED
      BY <2>6 DEF NoMove
  <1>7. CASE Decide(w) \/ Recommend(w)
    <2>1. tx[w].job = DecisionJob
      BY <1>7 DEF Decide, Recommend, Inv, Handler, DecisionSteps
    <2>2. tx'[w].job = DecisionJob
      BY <1>1, <1>7, <2>1 DEF Decide, Recommend, Goto
    <2> QED
      BY <2>2, KeyFacts
  <1> QED
    BY <1>2, <1>3, <1>4, <1>5, <1>6, <1>7 DEF Handle

\* Another slot's step leaves the promise of w: with one slot of turns it is
\* the decision's, and commits no turn.
LEMMA OthersStatement ==
  ASSUME Inv, OneTurnSlot, NEW w \in Slots, LeavesRoundOpen(w), tx'[w] = tx[w],
         \/ turns' = turns
         \/ \E v \in Slots \ {w} : Commit(v)
  PROVE  LeavesRoundOpen(w)'
PROOF
  <1> SUFFICES ASSUME tx[w].pc = "commit", tx[w].job \in Keys
               PROVE  turns' = turns
    BY DEF LeavesRoundOpen, NoMove, LastTurn, Round
  <1>1. w \in TurnSlots
    BY KeyFacts DEF Inv, Handler, Queue
  <1>2. ASSUME NEW v \in Slots \ {w}, Commit(v)
        PROVE  turns' = turns
    <2>1. tx[v].job \in Queue(v) /\ v \notin TurnSlots /\ turns' = turns \cup tx[v].writes.turns
      BY <1>1, <1>2, CommitFacts DEF OneTurnSlot
    <2>2. tx[v].job = DecisionJob /\ tx[v].pc = "commit"
      BY <1>2, <2>1 DEF Queue, Commit
    <2>3. tx[v].writes.turns = {}
      BY <2>2 DEF Inv, Handler, DecisionWrites
    <2> QED
      BY <2>1, <2>3
  <1> QED
    BY <1>2

\* A commit closes the round whose last turn it has.
LEMMA CommitCloses ==
  ASSUME Inv, Closes, NEW w \in Slots, Commit(w)
  PROVE  RoundCloses'
PROOF
  <1> DEFINE wr == tx[w].writes
  <1>1. /\ tx[w].pc = "commit" /\ Open(w) /\ tx[w].job \in Jobs
        /\ turns' = turns \cup wr.turns
        /\ row' = IF wr.row = NoRow THEN row ELSE wr.row
    BY CommitFacts
  <1>2. CASE tx[w].job = DecisionJob
    <2>1. row'.state = "RECOMMENDED"
      BY <1>1, <1>2 DEF Inv, Handler, NoRow
    <2> QED
      BY <2>1 DEF RoundCloses, RoundState
  <1>3. CASE tx[w].job \in Keys
    <2>1. /\ row = [state |-> RoundState(Round(w)), version |-> RoundVersion(Round(w))]
          /\ Round(w) \in Rounds /\ tx[w].job \in TurnJobs(Round(w))
          /\ wr.turns = {tx[w].job} /\ (NoMove(w) \/ RoundMove(w))
      BY <1>1, <1>3, OpenTurn, KeyFacts DEF Inv, Handler, TurnWrites, Round
    <2>2. CASE NoMove(w)
      <3>1. row' = row /\ ~LastTurn(w)
        BY <1>1, <1>3, <2>2 DEF NoMove, Closes, LeavesRoundOpen
      <3>2. ~(TurnJobs(Round(w)) \subseteq turns')
        BY <1>1, <2>1, <3>1 DEF LastTurn
      <3>3. ASSUME NEW r \in Rounds, row.state = RoundState(r)
            PROVE  r = Round(w)
        BY <2>1, <3>3 DEF RoundState, Rounds
      <3> QED
        BY <3>1, <3>2, <3>3 DEF RoundCloses
    <2>3. CASE RoundMove(w) /\ Round(w) = 1
      <3>1. row'.state = "ROUND_2_RUNNING"
        BY <1>1, <2>3 DEF RoundMove, NoRow
      <3>2. TurnJobs(2) \cap turns = {} /\ TurnJobs(2) # {}
        BY <2>1, <2>3, RoundEmpty DEF RoundState, Rounds
      <3>3. tx[w].job \notin TurnJobs(2)
        BY <2>1, <2>3, KeyFacts
      <3>4. ~(TurnJobs(2) \subseteq turns')
        BY <1>1, <2>1, <3>2, <3>3
      <3> QED
        BY <3>1, <3>4 DEF RoundCloses, RoundState, Rounds
    <2>4. CASE RoundMove(w) /\ Round(w) = 2
      <3>1. row'.state = "EVALUATED"
        BY <1>1, <2>4 DEF RoundMove, NoRow
      <3> QED
        BY <3>1 DEF RoundCloses, RoundState
    <2> QED
      BY <2>1, <2>2, <2>3, <2>4 DEF Rounds
  <1> QED
    BY <1>1, <1>2, <1>3 DEF Jobs

LEMMA ClosesNext ==
  ASSUME Inv, OneTurnSlot, Closes, [Next]_vars
  PROVE  Closes'
PROOF
  <1>1. CASE StartNegotiation
    <2>1. row.state = "ABSENT" /\ row'.state = "ROUND_1_RUNNING" /\ UNCHANGED <<turns, tx>>
      BY <1>1 DEF StartNegotiation
    <2>2. ~(TurnJobs(1) \subseteq turns)
      BY <2>1, RoundEmpty DEF Rounds
    <2>3. RoundCloses'
      BY <2>1, <2>2 DEF RoundCloses, RoundState, Rounds
    <2> QED
      BY <2>1, <2>3, OthersStatement DEF Closes
  <1>2. CASE IssuePurchaseOrder
    <2>1. row'.state = "PO_COMMITTED" /\ UNCHANGED <<turns, tx>>
      BY <1>2 DEF IssuePurchaseOrder
    <2>2. RoundCloses'
      BY <2>1 DEF RoundCloses, RoundState
    <2> QED
      BY <2>1, <2>2, OthersStatement DEF Closes
  <1>3. ASSUME NEW w \in Slots, Deliver(w) \/ Handle(w) \/ Fail(w) \/ Crash(w), ~Commit(w)
        PROVE  Closes'
    <2>1. UNCHANGED <<row, turns>> /\ \A v \in Slots \ {w} : tx'[v] = tx[v]
      BY <1>3 DEF Deliver, Fetch, Fail, Crash, Handle, Claim, Acknowledge, Prepare, Submit,
                  CountTurns, AdvanceToRoundTwo, AdvanceToDecision, Transition, Decide,
                  Recommend, Goto, db, Inv, TypeOK
    <2>2. RoundCloses'
      BY <2>1 DEF Closes, RoundCloses
    <2>3. LeavesRoundOpen(w)'
      BY <1>3, OwnStatement DEF Closes
    <2>4. \A v \in Slots \ {w} : LeavesRoundOpen(v)'
      BY <2>1, OthersStatement DEF Closes
    <2> QED
      BY <2>2, <2>3, <2>4 DEF Closes
  <1>4. ASSUME NEW w \in Slots, Commit(w)
        PROVE  Closes'
    <2>1. RoundCloses'
      BY <1>4, CommitCloses
    <2>2. tx'[w].pc = "ack"
      BY <1>4 DEF Commit, Inv, TypeOK, Idle
    <2>3. \A v \in Slots \ {w} : LeavesRoundOpen(v)'
      BY <1>4, CommitFacts, OthersStatement DEF Closes
    <2> QED
      BY <2>1, <2>2, <2>3 DEF Closes, LeavesRoundOpen
  <1>5. CASE UNCHANGED vars \/ \E j \in Jobs : Lapse(j) \/ Outlive(j)
    <2>1. UNCHANGED <<row, turns, tx>>
      BY <1>5 DEF vars, Lapse, Outlive, db
    <2>2. RoundCloses'
      BY <2>1 DEF Closes, RoundCloses
    <2> QED
      BY <2>1, <2>2, OthersStatement DEF Closes
  <1> QED
    BY <1>1, <1>2, <1>3, <1>4, <1>5 DEF Next

\* With one handler of turns at a time the transaction that commits the last
\* turn of a round also closes it, whatever throws, crashes or is delivered
\* again (execute-negotiation-turn.ts): the round is never stranded.
THEOREM RoundAlwaysCloses ==
  ASSUME OneTurnSlot
  PROVE  Spec => []RoundCloses
PROOF
  <1>1. Init => Closes
    <2> SUFFICES ASSUME Init PROVE Closes
      OBVIOUS
    <2>1. row.state = "ABSENT" /\ \A w \in Slots : tx[w].pc = "idle"
      BY DEF Init, NoRow, Idle
    <2> QED
      BY <2>1 DEF Closes, RoundCloses, RoundState, LeavesRoundOpen
  <1>2. Inv /\ Closes /\ [Next]_vars => Closes'
    BY ClosesNext
  <1>3. Closes => RoundCloses
    BY DEF Closes
  <1> QED
    BY <1>1, <1>2, <1>3, Invariant, PTL DEF Spec

------------------------------------------------------------------------------
(* The refinement: a negotiation keeps its contract *)

\* A statement that is not a commit is invisible to the buyer.
LEMMA SilentStep ==
  ASSUME UNCHANGED db
  PROVE  UNCHANGED Contract!vars
  BY DEF db, Contract!vars

\* The commit of a turn is the supplier's answer, with the closing of the round
\* when it is the last.
LEMMA CommitAnswers ==
  ASSUME Inv, NEW w \in Slots, Commit(w), tx[w].job \in Keys
  PROVE  Contract!Answer(tx[w].job[1], Round(w))
PROOF
  <1> DEFINE k  == tx[w].job
             wr == tx[w].writes
  <1>1. /\ TurnWrites(w) /\ (NoMove(w) \/ RoundMove(w)) /\ Open(w)
        /\ k = <<k[1], Round(w)>> /\ k[1] \in Suppliers
    BY CommitFacts DEF Inv, Handler, Round, Keys
  <1>2. /\ k \notin turns /\ Round(w) \in Rounds
        /\ row.state = RoundState(Round(w))
        /\ capacityEvent <=> Round(w) = 2
    BY <1>1, OpenTurn
  <1>3. /\ turns' = turns \cup {k} /\ offers' \in {offers, offers \cup {k}}
        /\ recommendation' = recommendation
    BY <1>1, CommitFacts DEF TurnWrites
  <1>4. \/ row' = row
        \/ /\ Contract!Answers(Round(w)) \subseteq turns'
           /\ row'.state = IF Round(w) = 1 THEN "ROUND_2_RUNNING" ELSE "EVALUATED"
    <2>1. CASE NoMove(w)
      BY <2>1, CommitFacts DEF NoMove
    <2>2. CASE RoundMove(w)
      <3>1. Contract!Answers(Round(w)) \subseteq turns'
        BY <1>3, <2>2 DEF RoundMove, LastTurn, Contract!Answers, TurnJobs
      <3>2. row' = wr.row
        BY <2>2, CommitFacts DEF RoundMove, NoRow
      <3> QED
        BY <2>2, <3>1, <3>2 DEF RoundMove
    <2> QED
      BY <1>1, <2>1, <2>2
  <1>5. Inv'
    BY CommitStep
  <1>6. capacityEvent' = (row'.state # "ROUND_1_RUNNING")
    <2>1. row'.state \in Past(1) \cup {"ROUND_1_RUNNING"}
      BY <1>2, <1>4 DEF Past, RoundState, Rounds
    <2>2. (capacityEvent' <=> row'.state \in Past(1)) /\ capacityEvent' \in BOOLEAN
      BY <1>5 DEF Inv, Committed, RoundsInv, TypeOK
    <2> QED
      BY <2>1, <2>2 DEF Past
  <1>7. partial' = IF capacityEvent' THEN Contract!OfS2(offers') ELSE {}
    BY <1>5 DEF Inv, Committed, OffersInv, S2Offers, Contract!OfS2
  <1> QED
    BY <1>1, <1>2, <1>3, <1>4, <1>6, <1>7 DEF Contract!Answer, RoundState

\* The commit of the decision is the recommendation.
LEMMA CommitRecommends ==
  ASSUME Inv, NEW w \in Slots, Commit(w), tx[w].job = DecisionJob
  PROVE  Contract!Recommend
PROOF
  <1>1. /\ DecisionWrites(w) /\ Open(w)
        /\ tx[w].writes.row = [state |-> "RECOMMENDED", version |-> 6]
    BY CommitFacts DEF Inv, Handler
  <1>2. row.state = "EVALUATED" /\ recommendation = {}
    BY <1>1, OpenDecision
  <1>3. /\ row'.state = "RECOMMENDED"
        /\ UNCHANGED <<turns, offers, partial>>
        /\ recommendation' = tx[w].writes.rec
    BY <1>1, <1>2, CommitFacts DEF DecisionWrites, NoRow
  <1>4. capacityEvent' = capacityEvent
    BY <1>1, CommitFacts DEF DecisionWrites, Inv, TypeOK
  <1>5. CanWin \subseteq Contract!CanWin
    BY DEF CanWin, Latest, Contract!CanWin
  <1>6. \E x \in Contract!CanWin \cup {NoOffer} : recommendation' = {x}
    BY <1>1, <1>3, <1>5 DEF DecisionWrites
  <1> QED
    BY <1>2, <1>3, <1>4, <1>6 DEF Contract!Recommend

LEMMA ContractStep == Inv /\ [Next]_vars => [Contract!Next]_(Contract!vars)
PROOF
  <1> SUFFICES ASSUME Inv, [Next]_vars
               PROVE  Contract!Next \/ UNCHANGED Contract!vars
    OBVIOUS
  <1>1. CASE StartNegotiation
    BY <1>1 DEF StartNegotiation, Contract!Next, Contract!Open
  <1>2. CASE IssuePurchaseOrder
    <2>1. NoOffer \notin recommendation
      <3>1. PICK x \in recommendation : x \in offers
        BY <1>2 DEF IssuePurchaseOrder
      <3>2. x # NoOffer
        BY <3>1, NegotiationAssumption DEF Inv, TypeOK
      <3> QED
        BY <3>2 DEF Inv, Committed, OneRecommendation
    <2> QED
      BY <1>2, <2>1 DEF IssuePurchaseOrder, Contract!Next, Contract!Order
  <1>3. ASSUME NEW w \in Slots, Commit(w)
        PROVE  Contract!Next
    <2>1. CASE tx[w].job \in Keys
      <3>1. tx[w].job[1] \in Suppliers /\ Round(w) \in {1, 2}
        BY <2>1 DEF Keys, Round, Rounds
      <3> QED
        BY <1>3, <2>1, <3>1, CommitAnswers DEF Contract!Next
    <2>2. CASE tx[w].job = DecisionJob
      BY <1>3, <2>2, CommitRecommends DEF Contract!Next
    <2> QED
      BY <1>3, <2>1, <2>2, OpenJob DEF Commit
  <1>4. ASSUME NEW w \in Slots, Handle(w), ~Commit(w)
        PROVE  UNCHANGED db
    BY <1>4 DEF Handle, Claim, Acknowledge, Prepare, Submit, CountTurns,
                AdvanceToRoundTwo, AdvanceToDecision, Decide, Recommend
  <1>5. ASSUME NEW w \in Slots, Deliver(w) \/ Fail(w) \/ Crash(w)
        PROVE  UNCHANGED db
    BY <1>5 DEF Deliver, Fetch, Fail, Crash
  <1>6. ASSUME NEW j \in Jobs, Lapse(j) \/ Outlive(j)
        PROVE  UNCHANGED db
    BY <1>6 DEF Lapse, Outlive
  <1>7. CASE UNCHANGED vars
    BY <1>7, SilentStep DEF vars, db
  <1> QED
    BY <1>1, <1>2, <1>3, <1>4, <1>5, <1>6, <1>7, SilentStep DEF Next

\* Jobs, deliveries, overlaps and faults left out, a negotiation is the sequence
\* of answers, one event, one recommendation and one order of the contract.
THEOREM KeepsContract == Spec => ImplementsContract
PROOF
  <1>1. Init => Contract!Init
    BY DEF Init, NoRow, Contract!Init
  <1>2. Inv /\ [Next]_vars => [Contract!Next]_(Contract!vars)
    BY ContractStep
  <1> QED
    BY <1>1, <1>2, Invariant, PTL DEF Spec, ImplementsContract, Contract!Spec

==============================================================================
