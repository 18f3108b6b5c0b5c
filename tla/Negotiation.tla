----------------------------- MODULE Negotiation -----------------------------
(***************************************************************************)
(* One negotiation as the workers of apps/worker run it: the three         *)
(* supplier turns of round 1, the capacity event, the three turns of round *)
(* 2, the decision, and the purchase order that closes it.                 *)
(*                                                                         *)
(* Every job runs inside ONE database transaction (the claim of            *)
(* worker-execution.ts and everything the handler does join it), at        *)
(* PostgreSQL's READ COMMITTED level: a statement sees what is committed   *)
(* when it runs and what its own transaction wrote.  A handler is          *)
(* therefore a sequence of actions, one per statement whose result it      *)
(* acts on; its writes sit in tx[w].writes until Commit publishes them.    *)
(***************************************************************************)
EXTENDS Naturals

CONSTANTS
    Suppliers,      \* the suppliers that take turns: S1, S2 and S3 in the code
    S2,             \* the one whose capacity drops to 60% between the rounds
    TurnSlots,      \* handlers of queue "negotiation-turn" that can run at once
    DecisionSlots,  \* handlers of queue "decision-continuation"
    MaxAttempts,    \* deliveries of a job before pg-boss gives it up
    Overrun,        \* TRUE if a handler may still run when its job expires
    MaxFaults,      \* bound: throws, crashes and overruns in a behaviour
    NoJob,          \* a slot that holds no job
    NoOffer         \* a recommendation without a winner

Rounds == {1, 2}

\* A turn key, and the key of the offer that turn materialised.
Keys == Suppliers \X Rounds

\* The turn jobs carry the key of their turn; the decision job is no turn.
DecisionJob == <<S2, 0>>
TurnJobs(r) == {<<s, r>> : s \in Suppliers}
Jobs        == Keys \cup {DecisionJob}

Slots == TurnSlots \cup DecisionSlots

ASSUME NegotiationAssumption ==
    /\ S2 \in Suppliers
    /\ TurnSlots \cap DecisionSlots = {}
    /\ MaxAttempts \in Nat \ {0}
    /\ Overrun \in BOOLEAN
    /\ MaxFaults \in Nat
    /\ NoJob \notin Jobs
    /\ NoOffer \notin Keys

VARIABLES
    row,             \* the negotiation row: its state and optimistic version
    turns,           \* keys of the rows of negotiation_turn
    offers,          \* keys of the rows of offer
    partial,         \* offers whose lines are marked not full-order eligible
    capacityEvent,   \* SupplierCapacityChanged is recorded
    recommendation,  \* {} or the one row of recommendation: {winner}
    jobs,            \* pg-boss: what each job's rows say
    completions,     \* worker_completion: jobs whose effects are committed
    tx,              \* what each slot is doing, and its uncommitted writes
    faults           \* throws, crashes and overruns so far

db   == <<row, turns, offers, partial, capacityEvent, recommendation>>
vars == <<row, turns, offers, partial, capacityEvent, recommendation,
          jobs, completions, tx, faults>>

States == {"ABSENT", "ROUND_1_RUNNING", "ROUND_2_RUNNING",
           "EVALUATED", "RECOMMENDED", "PO_COMMITTED"}

RoundState(r) == IF r = 1 THEN "ROUND_1_RUNNING" ELSE "ROUND_2_RUNNING"

\* Every validated proposal covers the whole order, except that of S2 in
\* round 2, which must offer 60%.
CapacityPercent(k) == IF k = <<S2, 2>> THEN 60 ELSE 100

------------------------------------------------------------------------------
(* Transactions *)

NoRow    == [state |-> "ABSENT", version |-> 0]
NoWrites == [turns |-> {}, offers |-> {}, partial |-> {}, capacity |-> FALSE,
             row |-> NoRow, jobs |-> {}, rec |-> {}]
Idle     == [pc |-> "idle", job |-> NoJob, version |-> 0, writes |-> NoWrites]

\* The steps of a handler between its claim and its commit.
OpenSteps == {"prepare", "submit", "count", "advance", "decide", "recommend",
              "commit"}
Steps     == OpenSteps \cup {"idle", "claim", "ack"}

Open(w)  == tx[w].pc \in OpenSteps
Round(w) == tx[w].job[2]

\* What a statement of w's transaction sees.
SeenTurns(w)    == turns \cup tx[w].writes.turns
SeenOffers(w)   == offers \cup tx[w].writes.offers
SeenPartial(w)  == partial \cup tx[w].writes.partial

\* Another open transaction has updated the negotiation row: an UPDATE waits.
RowLocked(w) == \E v \in Slots \ {w} : tx[v].writes.row # NoRow

Goto(w, pc) == tx' = [tx EXCEPT ![w].pc = pc]

------------------------------------------------------------------------------
(* The job queue: pg-boss rows, written through the same connection *)

NoSuchJob == [status |-> "none", expected |-> 0, attempts |-> 0]
Statuses  == {"none", "created", "active", "retry", "completed", "failed"}

Created(expected) ==
    [status |-> "created", expected |-> expected, attempts |-> 0]

\* A failed or expired delivery is retried until its attempts are used up.
Requeued(job) ==
    [job EXCEPT !.status = IF job.attempts < MaxAttempts THEN "retry"
                                                         ELSE "failed"]

Queue(w) == IF w \in TurnSlots THEN Keys ELSE {DecisionJob}

------------------------------------------------------------------------------
(* The request that starts a negotiation *)

\* The row, its three round-1 jobs and their payload are one transaction.
StartNegotiation ==
    /\ row.state = "ABSENT"
    /\ row' = [state |-> "ROUND_1_RUNNING", version |-> 1]
    /\ jobs' = [j \in Jobs |-> IF j \in TurnJobs(1) THEN Created(1) ELSE jobs[j]]
    /\ UNCHANGED <<turns, offers, partial, capacityEvent, recommendation,
                   completions, tx, faults>>

------------------------------------------------------------------------------
(* Delivery: fetch, claim, acknowledge, fail, crash, expire *)

Fetch(w, j) ==
    /\ tx[w].pc = "idle"
    /\ j \in Queue(w)
    /\ jobs[j].status \in {"created", "retry"}
    /\ jobs' = [jobs EXCEPT ![j].status = "active",
                            ![j].attempts = jobs[j].attempts + 1]
    /\ tx' = [tx EXCEPT ![w] = [Idle EXCEPT !.pc = "claim", !.job = j]]
    /\ UNCHANGED <<db, completions, faults>>

FirstStep(j) == IF j = DecisionJob THEN "decide" ELSE "prepare"

\* Mutant: the claim is written outside the handler's transaction.
ClaimAhead(w) ==
    /\ tx[w].pc = "claim"
    /\ Goto(w, IF tx[w].job \in completions THEN "ack" ELSE FirstStep(tx[w].job))
    /\ completions' = completions \cup {tx[w].job}
    /\ UNCHANGED <<db, jobs, faults>>

\* INSERT INTO worker_completion .. ON CONFLICT DO NOTHING: waits while another
\* transaction holds the same key, and finds a conflict once that one commits.
Claim(w) ==
    /\ tx[w].pc = "claim"
    /\ \A v \in Slots \ {w} : Open(v) => tx[v].job # tx[w].job
    /\ Goto(w, IF tx[w].job \in completions THEN "ack" ELSE FirstStep(tx[w].job))
    /\ UNCHANGED <<db, jobs, completions, faults>>

\* What the jobs enqueued by w's transaction look like: they carry the version
\* its transitions wrote.  Mutant: the version the handler had read.
EnqueuedStale(w) == Created(tx[w].version)

Enqueued(w) == Created(tx[w].writes.row.version)

\* The transaction commits: everything it wrote becomes visible at once.
Commit(w) ==
    LET wr == tx[w].writes IN
    /\ tx[w].pc = "commit"
    /\ row' = IF wr.row = NoRow THEN row ELSE wr.row
    /\ turns' = turns \cup wr.turns
    /\ offers' = offers \cup wr.offers
    /\ partial' = partial \cup wr.partial
    /\ capacityEvent' = (capacityEvent \/ wr.capacity)
    /\ recommendation' = recommendation \cup wr.rec
    /\ jobs' = [j \in Jobs |-> IF j \in wr.jobs THEN Enqueued(w) ELSE jobs[j]]
    /\ completions' = completions \cup {tx[w].job}
    /\ tx' = [tx EXCEPT ![w] = [Idle EXCEPT !.pc = "ack", !.job = tx[w].job]]
    /\ UNCHANGED faults

\* pg-boss completes the job unless it was taken away from this delivery.
Acknowledge(w) ==
    /\ tx[w].pc = "ack"
    /\ jobs' = [jobs EXCEPT ![tx[w].job].status =
                    IF @ = "active" THEN "completed" ELSE @]
    /\ tx' = [tx EXCEPT ![w] = Idle]
    /\ UNCHANGED <<db, completions, faults>>

Fault == faults < MaxFaults /\ faults' = faults + 1

\* The handler throws: the transaction rolls back and the job is retried.
Fail(w) ==
    /\ Open(w) \/ tx[w].pc = "claim"
    /\ Fault
    /\ tx' = [tx EXCEPT ![w] = Idle]
    /\ jobs' = [jobs EXCEPT ![tx[w].job] =
                    IF @.status = "active" THEN Requeued(@) ELSE @]
    /\ UNCHANGED <<db, completions>>

\* The worker process dies: its transaction rolls back, its job stays active.
Crash(w) ==
    /\ tx[w].pc # "idle"
    /\ Fault
    /\ tx' = [tx EXCEPT ![w] = Idle]
    /\ UNCHANGED <<db, jobs, completions>>

\* expireInSeconds is over for a job whose handler is gone ..
Lapse(j) ==
    /\ jobs[j].status = "active"
    /\ \A w \in Slots : tx[w].job # j
    /\ jobs' = [jobs EXCEPT ![j] = Requeued(jobs[j])]
    /\ UNCHANGED <<db, completions, tx, faults>>

\* .. or for one whose handler still runs, and nothing stops that handler.
Outlive(j) ==
    /\ Overrun
    /\ jobs[j].status = "active"
    /\ \E w \in Slots : tx[w].job = j
    /\ Fault
    /\ jobs' = [jobs EXCEPT ![j] = Requeued(jobs[j])]
    /\ UNCHANGED <<db, completions, tx>>

------------------------------------------------------------------------------
(* ExecuteNegotiationTurnCommandHandler *)

\* Phase 1: does this job still apply to the run it finds?
Prepare(w) ==
    LET k == tx[w].job IN
    /\ tx[w].pc = "prepare"
    /\ Goto(w, IF /\ row.state = RoundState(k[2])
                  /\ row.version = jobs[k].expected
                  /\ k \notin turns
               THEN "submit" ELSE "commit")
    /\ UNCHANGED <<db, jobs, completions, faults>>

\* Mutant: fulfilment rows are keyed by the supplier, not by its offer.
S2OffersBySupplier(o) == {k[1] : k \in {q \in o : q[1] = S2}}

\* Offers of S2 get their ineligible fulfilment rows once the event is known.
S2Offers(o) == {k \in o : k[1] = S2}

\* materializeOffer: a proposal becomes an offer; any other result does not.
Materialized(k) == {{}, {k} \ turns}

\* appendTurn: ON CONFLICT on the turn key appends nothing.  An offer of S2 made
\* in the know of the event has every S2 offer marked again.
AppendTurn(k, offered) ==
    [NoWrites EXCEPT
        !.turns = {k} \ turns,
        !.offers = offered,
        !.partial = IF S2Offers(offered) # {} /\ capacityEvent
                    THEN S2Offers(offers \cup offered) ELSE {}]

\* Phase 2: after the model calls the run is read again and the turn appended,
\* unless the round is over.
Submit(w) ==
    LET k == tx[w].job IN
    /\ tx[w].pc = "submit"
    /\ IF row.state = RoundState(k[2])
       THEN \E offered \in Materialized(k) :
              tx' = [tx EXCEPT ![w] = [pc |-> "count", job |-> k,
                                       version |-> row.version,
                                       writes |-> AppendTurn(k, offered)]]
       ELSE Goto(w, "commit")
    /\ UNCHANGED <<db, jobs, completions, faults>>

\* Mutants: the round is over with one turn missing; the handler's own turn is
\* not counted.
CountTurnsShort(w) ==
    /\ tx[w].pc = "count"
    /\ Goto(w, IF \E s \in Suppliers :
                      TurnJobs(Round(w)) \ {<<s, Round(w)>>} \subseteq SeenTurns(w)
               THEN "advance" ELSE "commit")
    /\ UNCHANGED <<db, jobs, completions, faults>>

CountCommittedTurns(w) ==
    /\ tx[w].pc = "count"
    /\ Goto(w, IF TurnJobs(Round(w)) \subseteq turns THEN "advance" ELSE "commit")
    /\ UNCHANGED <<db, jobs, completions, faults>>

\* listTurns: turn keys are unique, so as many turns as suppliers (the code's 3)
\* are one of each.
CountTurns(w) ==
    /\ tx[w].pc = "count"
    /\ Goto(w, IF TurnJobs(Round(w)) \subseteq SeenTurns(w) THEN "advance"
                                                            ELSE "commit")
    /\ UNCHANGED <<db, jobs, completions, faults>>

\* The compare-and-set of transition(): an UPDATE on state and version, which
\* waits for a transaction that updated the row.  An attempt that misses leaves
\* the row to whoever moved it.
Transition(w, from, moved) ==
    /\ ~RowLocked(w)
    /\ IF row = [state |-> from, version |-> tx[w].version]
       THEN tx' = [tx EXCEPT ![w].pc = "commit", ![w].writes = moved]
       ELSE Goto(w, "commit")

\* Mutant: the event is applied to the offers other transactions committed.
AdvanceToRoundTwoCommitted(w) ==
    /\ tx[w].pc = "advance" /\ Round(w) = 1
    /\ Transition(w, "ROUND_1_RUNNING",
           [tx[w].writes EXCEPT
               !.row = [state |-> "ROUND_2_RUNNING",
                        version |-> tx[w].version + 3],
               !.capacity = TRUE,
               !.partial = IF capacityEvent THEN @ ELSE S2Offers(offers),
               !.jobs = TurnJobs(2)])
    /\ UNCHANGED <<db, jobs, completions, faults>>

\* advanceToRoundTwo: ROUND_1_COMPLETE, the capacity event with the fulfilment
\* of every S2 offer, CAPACITY_EVENT_APPLIED, ROUND_2_RUNNING and three jobs.
\* The two later transitions cannot miss: this transaction holds the row.
AdvanceToRoundTwo(w) ==
    /\ tx[w].pc = "advance" /\ Round(w) = 1
    /\ Transition(w, "ROUND_1_RUNNING",
           [tx[w].writes EXCEPT
               !.row = [state |-> "ROUND_2_RUNNING",
                        version |-> tx[w].version + 3],
               !.capacity = TRUE,
               !.partial = IF capacityEvent THEN @ ELSE S2Offers(SeenOffers(w)),
               !.jobs = TurnJobs(2)])
    /\ UNCHANGED <<db, jobs, completions, faults>>

\* Mutant: the decision is not enqueued.
AdvanceToDecisionOnly(w) ==
    /\ tx[w].pc = "advance" /\ Round(w) = 2
    /\ Transition(w, "ROUND_2_RUNNING",
           [tx[w].writes EXCEPT
               !.row = [state |-> "EVALUATED", version |-> tx[w].version + 1]])
    /\ UNCHANGED <<db, jobs, completions, faults>>

\* advanceToDecision: EVALUATED, and the decision's job.
AdvanceToDecision(w) ==
    /\ tx[w].pc = "advance" /\ Round(w) = 2
    /\ Transition(w, "ROUND_2_RUNNING",
           [tx[w].writes EXCEPT
               !.row = [state |-> "EVALUATED", version |-> tx[w].version + 1],
               !.jobs = {DecisionJob}])
    /\ UNCHANGED <<db, jobs, completions, faults>>

------------------------------------------------------------------------------
(* ContinueDecisionCommandHandler *)

\* Mutant: any offer at full capacity can win, superseded ones too.
EligibleEver(w) ==
    {k \in SeenOffers(w) : CapacityPercent(k) = 100 /\ k \notin SeenPartial(w)}

\* The latest offer of each supplier that made one, and those that can win:
\* at full capacity and with no line marked ineligible.
Latest(o)   == {k \in o : k[2] = 1 => <<k[1], 2>> \notin o}
Eligible(w) == {k \in Latest(SeenOffers(w)) :
                    CapacityPercent(k) = 100 /\ k \notin SeenPartial(w)}

\* decide() picks an eligible offer, or none: a lead-time bound may exclude
\* more, and an unbroken tie is left to the buyer.
Decide(w) ==
    /\ tx[w].pc = "decide"
    /\ IF /\ row.state = "EVALUATED"
          /\ row.version = jobs[DecisionJob].expected
       THEN \E winner \in Eligible(w) \cup {NoOffer} :
              tx' = [tx EXCEPT ![w] =
                  [pc |-> "recommend", job |-> DecisionJob,
                   version |-> row.version,
                   writes |-> [NoWrites EXCEPT
                       !.rec = IF recommendation = {} THEN {winner} ELSE {}]]]
       ELSE Goto(w, "commit")
    /\ UNCHANGED <<db, jobs, completions, faults>>

\* A compare-and-set that misses throws here, which is Fail.
Recommend(w) ==
    /\ tx[w].pc = "recommend"
    /\ ~RowLocked(w)
    /\ row = [state |-> "EVALUATED", version |-> tx[w].version]
    /\ tx' = [tx EXCEPT ![w].pc = "commit",
                        ![w].writes = [@ EXCEPT
                            !.row = [state |-> "RECOMMENDED",
                                     version |-> tx[w].version + 1]]]
    /\ UNCHANGED <<db, jobs, completions, faults>>

------------------------------------------------------------------------------
(* The purchase order, one request transaction that locks the row: module   *)
(* PurchaseOrder has its steps.                                            *)

\* Mutants: an order is issued although one was, or although nothing won.
IssueAgain ==
    /\ row.state \in {"RECOMMENDED", "PO_COMMITTED"}
    /\ recommendation \cap offers # {}
    /\ row' = [state |-> "PO_COMMITTED", version |-> row.version + 1]
    /\ UNCHANGED <<turns, offers, partial, capacityEvent, recommendation,
                   jobs, completions, tx, faults>>

IssueUnnamed ==
    /\ row.state = "RECOMMENDED"
    /\ \A w \in Slots : tx[w].writes.row = NoRow
    /\ row' = [state |-> "PO_COMMITTED", version |-> row.version + 1]
    /\ UNCHANGED <<turns, offers, partial, capacityEvent, recommendation,
                   jobs, completions, tx, faults>>

IssuePurchaseOrder ==
    /\ row.state = "RECOMMENDED"
    /\ recommendation \cap offers # {}
    /\ \A w \in Slots : tx[w].writes.row = NoRow
    /\ row' = [state |-> "PO_COMMITTED", version |-> row.version + 1]
    /\ UNCHANGED <<turns, offers, partial, capacityEvent, recommendation,
                   jobs, completions, tx, faults>>

------------------------------------------------------------------------------

Init ==
    /\ row = NoRow
    /\ turns = {}
    /\ offers = {}
    /\ partial = {}
    /\ capacityEvent = FALSE
    /\ recommendation = {}
    /\ jobs = [j \in Jobs |-> NoSuchJob]
    /\ completions = {}
    /\ tx = [w \in Slots |-> Idle]
    /\ faults = 0

\* What a running handler does next, as long as nothing goes wrong.
Handle(w) ==
    \/ Claim(w) \/ Commit(w) \/ Acknowledge(w)
    \/ Prepare(w) \/ Submit(w) \/ CountTurns(w)
    \/ AdvanceToRoundTwo(w) \/ AdvanceToDecision(w)
    \/ Decide(w) \/ Recommend(w)

Deliver(w) == \E j \in Jobs : Fetch(w, j)

Next ==
    \/ StartNegotiation
    \/ IssuePurchaseOrder
    \/ \E w \in Slots : Deliver(w) \/ Handle(w) \/ Fail(w) \/ Crash(w)
    \/ \E j \in Jobs : Lapse(j) \/ Outlive(j)

Spec == Init /\ [][Next]_vars

\* A worker keeps polling, a handler keeps running, pg-boss keeps expiring.
Fairness ==
    /\ \A w \in Slots : WF_vars(Deliver(w)) /\ WF_vars(Handle(w))
    /\ \A j \in Jobs : WF_vars(Lapse(j))

FairSpec == Spec /\ Fairness

------------------------------------------------------------------------------
(* What must hold *)

WritesType ==
    [turns : SUBSET Keys, offers : SUBSET Keys, partial : SUBSET Keys,
     capacity : BOOLEAN, row : [state : States, version : Nat],
     jobs : SUBSET Jobs, rec : SUBSET (Keys \cup {NoOffer})]

\* Every variable keeps its type.
TypeOK ==
    /\ row \in [state : States, version : Nat]
    /\ turns \subseteq Keys
    /\ offers \subseteq Keys
    /\ partial \subseteq Keys
    /\ capacityEvent \in BOOLEAN
    /\ recommendation \subseteq Keys \cup {NoOffer}
    /\ jobs \in [Jobs -> [status : Statuses, expected : Nat, attempts : Nat]]
    /\ completions \subseteq Jobs
    /\ tx \in [Slots -> [pc : Steps, job : Jobs \cup {NoJob},
                         version : Nat, writes : WritesType]]
    /\ faults \in Nat

\* No round-2 job or turn exists before the capacity event is recorded and all
\* three turns of round 1 are: the curveball falls between the rounds, once
\* (execute-negotiation-turn.ts advanceToRoundTwo).
CurveballBetweenRounds ==
    (\E k \in TurnJobs(2) : k \in turns \/ jobs[k].status # "none") =>
        capacityEvent /\ TurnJobs(1) \subseteq turns

\* Once capacity has dropped, every offer of S2 is marked ineligible, those it
\* made before the event and the one it makes after (negotiation-offers.ts).
CapacityReachesEveryS2Offer ==
    capacityEvent => S2Offers(offers) \subseteq partial

\* The recommended offer is the last word of its supplier, committed, at full
\* capacity and never one the capacity event touched, whatever turns committed
\* while the decision was being made (negotiation-decision.ts).
WinnerCanFulfil ==
    \A k \in recommendation \ {NoOffer} :
        k \in Latest(offers) /\ CapacityPercent(k) = 100 /\ k \notin partial

\* Each transition happened exactly once: the version counts them, and a
\* recommendation exists exactly from RECOMMENDED on.
VersionCountsTransitions ==
    /\ row.version = CASE row.state = "ABSENT"          -> 0
                       [] row.state = "ROUND_1_RUNNING" -> 1
                       [] row.state = "ROUND_2_RUNNING" -> 4
                       [] row.state = "EVALUATED"       -> 5
                       [] row.state = "RECOMMENDED"     -> 6
                       [] row.state = "PO_COMMITTED"    -> 7
    /\ recommendation # {} <=> row.state \in {"RECOMMENDED", "PO_COMMITTED"}

\* A state is committed together with the jobs that will leave it, and those
\* jobs carry the version they will find (pg-boss-bridge.ts enqueue).
JobsMatchState ==
    /\ \A r \in Rounds : row.state = RoundState(r) =>
           \A k \in TurnJobs(r) : /\ jobs[k].status # "none"
                                  /\ jobs[k].expected = row.version
    /\ row.state = "EVALUATED" => /\ jobs[DecisionJob].status # "none"
                                  /\ jobs[DecisionJob].expected = row.version
    /\ jobs[DecisionJob].status # "none" => TurnJobs(2) \subseteq turns

\* A job's claim and its effect commit together, however often the job is
\* delivered, on whichever slots: no turn without its claim, no claim that
\* used up its job without a turn (worker-execution.ts).
ClaimedExactlyWithEffect ==
    /\ turns = completions \cap Keys
    /\ recommendation # {} <=> DecisionJob \in completions

\* After the round-2 turns are evaluated no turn, offer or fulfilment changes:
\* the decision and the purchase order read what was evaluated.
FrozenAfterEvaluation ==
    [][row.state \in {"EVALUATED", "RECOMMENDED", "PO_COMMITTED"} =>
         UNCHANGED <<turns, offers, partial>>]_vars

\* A round whose three turns are committed is over: the transaction that
\* committed the last of them moved the negotiation on.
RoundCloses ==
    \A r \in Rounds : TurnJobs(r) \subseteq turns => row.state # RoundState(r)

\* challenge.md:48: "After the first round of negotiation completes, the system
\* should handle a curveball".  Two handlers that overlap break it: each counts
\* before the other commits, and neither finds the round complete.
FirstRoundHandled == TurnJobs(1) \subseteq turns ~> capacityEvent

\* Every negotiation reaches its recommendation unless some job used up its
\* deliveries without ever committing.
NegotiationConcludes ==
    row.state = "ROUND_1_RUNNING" ~>
        \/ row.state \in {"RECOMMENDED", "PO_COMMITTED"}
        \/ \E j \in Jobs : jobs[j].status = "failed" /\ j \notin completions

\* What a negotiation promises its buyer, jobs and transactions left out.
Contract ==
    INSTANCE NegotiationContract WITH
        phase <- row.state, answers <- turns, limited <- partial,
        curveball <- capacityEvent, winner <- recommendation

ImplementsContract == Contract!Spec
==============================================================================
