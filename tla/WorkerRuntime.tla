---------------------------- MODULE WorkerRuntime ----------------------------
(***************************************************************************)
(* The worker process: it starts its queue, handles one job of each queue  *)
(* at a time, and takes its connections from one bounded pool.  A handler  *)
(* holds the connection of its claim until it ends, joins that transaction *)
(* in the units of work it nests, and some reads of its repositories ask   *)
(* the pool for a second connection meanwhile.  What the handlers do with  *)
(* the data is in modules QuotationIntake, QuotationReview and Negotiation. *)
(***************************************************************************)
EXTENDS Integers, FiniteSets, Sequences

CONSTANTS
    Jobs,          \* bound: the jobs that come
    QueueOf,       \* the queue of each
    Connections,   \* connections of the pool: 12
    MaxAttempts,   \* times a job is handed out: 3
    MaxAgain       \* bound: jobs handed out more than once

VARIABLES
    process,    \* how far the process is in starting and stopping
    jobs,       \* the queue's own view of each job
    handlers,   \* per attempt at a job: its step, and the connections it holds
    waiting,    \* who waits for a connection, in order, and the step it leads to
    claimed     \* jobs whose claim is committed

vars == <<process, jobs, handlers, waiting, claimed>>

\* An attempt at a job is a handler; one that outlives its job's expiry goes on.
Handlers == Jobs \X (1 .. MaxAttempts)

Idle == [step |-> "idle", held |-> 0]

At(h, step) == handlers[h].step = step

\* None holds more than two.
Used == Cardinality({c \in Handlers \X (1 .. 2) : c[2] <= handlers[c[1]].held})

Waits(h) == \E n \in DOMAIN waiting : waiting[n].who = h

Ask(h, step) == waiting' = Append(waiting, [who |-> h, step |-> step])

------------------------------------------------------------------------------
(* Starting and stopping *)

Process(step) == process' = step /\ UNCHANGED <<jobs, handlers, waiting, claimed>>

\* The queue starts, the database answers, the consumers are registered; what
\* fails closes the runtime.
Start ==
    \/ process = "starting" /\ Process("started")
    \/ process = "started" /\ Process("working")
    \/ process \in {"starting", "started"} /\ Process("ending")

\* A signal: the queue is stopped first.
Stop == process = "working" /\ Process("stopping")

Active(j) == jobs[j].state = "active"

\* A stop waits for the active jobs, for 30 seconds; those still active are
\* given back.
QueueStopped ==
    /\ process = "stopping"
    /\ process' = "ending"
    /\ jobs' = [j \in Jobs |-> IF Active(j) THEN [jobs[j] EXCEPT !.state = "retry"]
                               ELSE jobs[j]]
    /\ UNCHANGED <<handlers, waiting, claimed>>

\* The pool ends when no connection is out, and with it the process.
PoolEnded == process = "ending" /\ Used = 0 /\ Process("exited")

------------------------------------------------------------------------------
(* The pool and the unit of work *)

\* Mutant: a unit of work opens a transaction of its own inside another.
OpensConnectionAlways(h) == TRUE

\* DrizzleUnitOfWork.run joins the transaction that is open.
OpensConnection(h) == handlers[h].held = 0

Enter(h, step) == handlers' = [handlers EXCEPT ![h].step = step]

RunUnit(h, step) ==
    IF OpensConnection(h)
    THEN /\ process # "ending" /\ ~Waits(h)
         /\ Ask(h, step) /\ UNCHANGED handlers
    ELSE Enter(h, step) /\ UNCHANGED waiting

\* Connections are given in the order they were asked for.
Grant ==
    /\ process \in {"working", "stopping"}
    /\ waiting # <<>> /\ Used < Connections
    /\ LET next == Head(waiting)
       IN handlers' = [handlers EXCEPT ![next.who] = [step |-> next.step, held |-> @.held + 1]]
    /\ waiting' = Tail(waiting)
    /\ UNCHANGED <<process, jobs, claimed>>

------------------------------------------------------------------------------
(* Handing out jobs *)

\* A queue hands out its next job when the last has ended or expired.
Fetch(j) ==
    /\ process = "working"
    /\ jobs[j].state \in {"created", "retry"} /\ jobs[j].attempt < MaxAttempts
    /\ jobs[j].attempt > 0 =>
           Cardinality({k \in Jobs \ {j} : jobs[k].attempt > 1}) < MaxAgain
    /\ \A k \in Jobs : QueueOf[k] = QueueOf[j] => ~Active(k)
    /\ jobs' = [jobs EXCEPT ![j] = [state |-> "active", attempt |-> @.attempt + 1]]
    /\ handlers' = [handlers EXCEPT ![<<j, jobs[j].attempt + 1>>].step = "fetched"]
    /\ UNCHANGED <<process, waiting, claimed>>

\* The transaction of another attempt at the job holds its claim.
ClaimHeld(h) ==
    \E a \in 1 .. MaxAttempts : /\ a # h[2]
                                /\ handlers[<<h[1], a>>].step \in
                                       {"claimed", "reading", "loaded", "working"}

\* Fifteen minutes pass only where a handler waits: for a connection, for a
\* claim, or for a model.
Expire(h) ==
    /\ Active(h[1]) /\ jobs[h[1]].attempt = h[2]
    /\ Waits(h) \/ At(h, "working") \/ (At(h, "claiming") /\ ClaimHeld(h))
    /\ jobs' = [jobs EXCEPT ![h[1]].state = "retry"]
    /\ UNCHANGED <<process, handlers, waiting, claimed>>

\* The queue hears of an attempt only while it waits for it.
Report(h, state) ==
    jobs' = IF Active(h[1]) /\ jobs[h[1]].attempt = h[2]
            THEN [jobs EXCEPT ![h[1]].state = state] ELSE jobs

------------------------------------------------------------------------------
(* A handler *)

\* IdempotentWorkerExecutionService.execute.
Begin(h) ==
    /\ At(h, "fetched")
    /\ RunUnit(h, "claiming")
    /\ UNCHANGED <<process, jobs, claimed>>

\* A claim of another attempt is waited for; a committed one is a replay.
Claim(h) ==
    /\ At(h, "claiming") /\ ~ClaimHeld(h)
    /\ IF h[1] \in claimed
       THEN handlers' = [handlers EXCEPT ![h] = Idle] /\ Report(h, "completed")
       ELSE Enter(h, "claimed") /\ UNCHANGED jobs
    /\ UNCHANGED <<process, waiting, claimed>>

\* The parse reads its target outside the transaction.
Read(h) ==
    /\ At(h, "claimed") /\ QueueOf[h[1]] = "parse-quotation"
    /\ ~Waits(h) /\ process # "ending"
    /\ Ask(h, "reading")
    /\ UNCHANGED <<process, jobs, handlers, claimed>>

Loaded(h) ==
    /\ At(h, "reading")
    /\ handlers' = [handlers EXCEPT ![h] = [step |-> "loaded", held |-> @.held - 1]]
    /\ UNCHANGED <<process, jobs, waiting, claimed>>

\* The handler's own unit of work, in the claim's transaction.
Work(h) ==
    /\ At(h, IF QueueOf[h[1]] = "parse-quotation" THEN "loaded" ELSE "claimed")
    /\ RunUnit(h, "working")
    /\ UNCHANGED <<process, jobs, claimed>>

Commit(h) ==
    /\ At(h, "working")
    /\ handlers' = [handlers EXCEPT ![h] = Idle]
    /\ claimed' = claimed \cup {h[1]}
    /\ Report(h, "completed")
    /\ UNCHANGED <<process, waiting>>

\* A handler that throws rolls back; so does one that asks an ended pool.
Fail(h) ==
    /\ \/ At(h, "working")
       \/ process = "ending" /\ ~Waits(h) /\ (At(h, "claimed") \/ At(h, "loaded"))
    /\ handlers' = [handlers EXCEPT ![h] = [step |-> "failed", held |-> 0]]
    /\ UNCHANGED <<process, jobs, waiting, claimed>>

\* The failure is recorded in a unit of work of its own, and thrown again.
RecordFailure(h) ==
    /\ At(h, "failed")
    /\ RunUnit(h, "recording")
    /\ UNCHANGED <<process, jobs, claimed>>

Rethrow(h) ==
    /\ At(h, "recording")
       \/ (At(h, "failed") /\ process = "ending" /\ ~Waits(h))
    /\ handlers' = [handlers EXCEPT ![h] = Idle]
    /\ Report(h, "retry")
    /\ UNCHANGED <<process, waiting, claimed>>

Init ==
    /\ process = "starting"
    /\ jobs = [j \in Jobs |-> [state |-> "created", attempt |-> 0]]
    /\ handlers = [h \in Handlers |-> Idle]
    /\ waiting = <<>>
    /\ claimed = {}

Next ==
    \/ Start \/ Stop \/ QueueStopped \/ PoolEnded
    \/ Grant
    \/ \E j \in Jobs : Fetch(j)
    \/ \E h \in Handlers :
          \/ Begin(h) \/ Claim(h) \/ Read(h) \/ Loaded(h) \/ Work(h) \/ Commit(h)
          \/ Fail(h) \/ RecordFailure(h) \/ Rethrow(h) \/ Expire(h)

Spec == Init /\ [][Next]_vars

------------------------------------------------------------------------------
Blocked(h) == Waits(h) \/ (At(h, "claiming") /\ ClaimHeld(h))

\* The handlers that ask for a second connection while they hold one.
Parses == {h \in Handlers : QueueOf[h[1]] = "parse-quotation" /\ handlers[h].held > 0}

(* However jobs overlap, expire and are handed out again, a handler that waits *)
(* for a connection waits for one that can go on: the connections of the pool  *)
(* are never all held by handlers that wait for another, or for a claim.  Only *)
(* a parse for each connection could do that: twelve jobs that expire one      *)
(* after the other while slow turns hold the pool, and then all get one.       *)
SomeHolderGoesOn ==
    /\ process = "working" /\ waiting # <<>>
    /\ Used >= Connections /\ Cardinality(Parses) < Connections
    => \E h \in Handlers : handlers[h].held > 0 /\ ~Blocked(h)
==============================================================================
