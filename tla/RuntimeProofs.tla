---------------------------- MODULE RuntimeProofs ----------------------------
(***************************************************************************)
(* Theorems about the worker process, for any jobs, pool and attempts,     *)
(* about the child process it parses workbooks in, for any file and limit, *)
(* and about the scenarios it finds in them, for any sheets and texts.     *)
(***************************************************************************)
EXTENDS Services, TLAPS, FiniteSetTheorems, WellFoundedInduction

------------------------------------------------------------------------------
(* WorkerRuntime: the invariant *)

Steps == {"idle", "fetched", "claiming", "claimed", "reading", "loaded", "working",
          "failed", "recording"}

\* A handler's step says how many connections it holds.
Holds(step) == CASE step \in {"idle", "fetched", "failed"} -> 0
                 [] step = "reading" -> 2
                 [] OTHER -> 1

Slots == [step : Steps, held : 0 .. 2]
Asks  == [who : Worker!Handlers, step : {"claiming", "reading", "recording"}]
Views == [Jobs -> [state : {"created", "active", "retry", "completed"},
                   attempt : 0 .. MaxAttempts]]

TypeOK ==
    /\ jobs \in Views
    /\ handlers \in [Worker!Handlers -> Slots]
    /\ waiting \in Seq(Asks)

HeldByStep == \A h \in Worker!Handlers : handlers[h].held = Holds(handlers[h].step)

\* Whoever waits for a connection waits where it asked for it, and once.
AskedAt(h, step) ==
    \/ step = "claiming" /\ Worker!At(h, "fetched")
    \/ step = "reading" /\ Worker!At(h, "claimed") /\ QueueOf[h[1]] = "parse-quotation"
    \/ step = "recording" /\ Worker!At(h, "failed")

WaitsWhereItAsked ==
    \A n \in DOMAIN waiting :
        /\ AskedAt(waiting[n].who, waiting[n].step)
        /\ \A m \in DOMAIN waiting : m # n => waiting[m].who # waiting[n].who

\* An attempt that was not handed out has no handler.
NotHandedOut ==
    \A h \in Worker!Handlers : h[2] > jobs[h[1]].attempt => handlers[h].step = "idle"

WorkerInv == TypeOK /\ HeldByStep /\ WaitsWhereItAsked /\ NotHandedOut

\* The instance counts as this module does.
LEMMA WorkerCounts ==
  ASSUME NEW S
  PROVE  Worker!Cardinality(S) = Cardinality(S)
  BY DEF Worker!Cardinality, Cardinality, Worker!IsFiniteSet, IsFiniteSet

LEMMA HandlerPair ==
  ASSUME NEW h \in Worker!Handlers
  PROVE  h[1] \in Jobs /\ h[2] \in 1 .. MaxAttempts /\ h = <<h[1], h[2]>>
  BY DEF Worker!Handlers

LEMMA Waiter ==
  ASSUME WorkerInv, NEW n \in DOMAIN waiting
  PROVE  /\ waiting[n] \in Asks /\ waiting[n].who \in Worker!Handlers
         /\ waiting[n].step \in {"claiming", "reading", "recording"}
PROOF
  <1>1. waiting[n] \in Asks
    BY DEF WorkerInv, TypeOK
  <1> QED
    BY <1>1 DEF Asks

LEMMA WorkerInit ==
  ASSUME MaxAttempts \in Nat, Worker!Init
  PROVE  WorkerInv
PROOF
  <1>1. TypeOK
    BY DEF Worker!Init, TypeOK, Worker!Idle, Steps, Slots, Asks, Views
  <1>2. HeldByStep /\ NotHandedOut /\ WaitsWhereItAsked
    BY DEF Worker!Init, HeldByStep, NotHandedOut, WaitsWhereItAsked, Worker!Idle, Holds
  <1> QED
    BY <1>1, <1>2 DEF WorkerInv

\* The queue's view of a job changes, and not how often it was handed out.
SameAttempts == \A j \in Jobs : jobs'[j].attempt = jobs[j].attempt

\* A handler that waits for nothing goes to a step and holds what that step does.
LEMMA HandlerMoves ==
  ASSUME WorkerInv, NEW h \in Worker!Handlers, NEW s \in Slots, s.held = Holds(s.step),
         handlers' = [handlers EXCEPT ![h] = s], UNCHANGED waiting, ~Worker!Waits(h),
         jobs' \in Views, SameAttempts,
         handlers[h].step # "idle" \/ s.step = "idle"
  PROVE  WorkerInv'
PROOF
  <1>1. /\ handlers' \in [Worker!Handlers -> Slots]
        /\ \A g \in Worker!Handlers : handlers'[g] = IF g = h THEN s ELSE handlers[g]
    BY DEF WorkerInv, TypeOK
  <1>2. TypeOK'
    BY <1>1 DEF WorkerInv, TypeOK, Slots, Views
  <1>3. HeldByStep'
    BY <1>1 DEF WorkerInv, HeldByStep
  <1>4. WaitsWhereItAsked'
    <2>1. SUFFICES ASSUME NEW n \in DOMAIN waiting PROVE WaitsWhereItAsked!(n)'
      BY DEF WaitsWhereItAsked
    <2>2. waiting[n].who # h /\ waiting[n].who \in Worker!Handlers
      BY <2>1, Waiter DEF Worker!Waits
    <2> QED
      BY <1>1, <2>1, <2>2 DEF WorkerInv, WaitsWhereItAsked, AskedAt, Worker!At
  <1>5. NotHandedOut'
    BY <1>1, HandlerPair DEF WorkerInv, NotHandedOut, SameAttempts
  <1> QED
    BY <1>2, <1>3, <1>4, <1>5 DEF WorkerInv

\* A handler asks the pool for a connection.
LEMMA Asking ==
  ASSUME WorkerInv, NEW h \in Worker!Handlers, NEW step, ~Worker!Waits(h), Worker!Ask(h, step),
         UNCHANGED <<jobs, handlers>>, AskedAt(h, step)
  PROVE  WorkerInv'
PROOF
  <1> DEFINE e == [who |-> h, step |-> step]
  <1>1. e \in Asks /\ e.who = h /\ e.step = step
    BY DEF Asks, AskedAt
  <1>2. waiting' = Append(waiting, e) /\ waiting \in Seq(Asks)
    BY DEF Worker!Ask, WorkerInv, TypeOK
  <1> HIDE DEF e
  <1>3. /\ waiting' \in Seq(Asks) /\ DOMAIN waiting' = DOMAIN waiting \cup {Len(waiting) + 1}
        /\ \A n \in DOMAIN waiting : waiting'[n] = waiting[n] /\ n # Len(waiting) + 1
        /\ waiting'[Len(waiting) + 1] = e
    BY <1>1, <1>2
  <1>4. TypeOK' /\ HeldByStep' /\ NotHandedOut'
    BY <1>3 DEF WorkerInv, TypeOK, HeldByStep, NotHandedOut, Asks
  <1>5. WaitsWhereItAsked'
    <2>1. SUFFICES ASSUME NEW n \in DOMAIN waiting' PROVE WaitsWhereItAsked!(n)'
      BY DEF WaitsWhereItAsked
    <2>2. \A m \in DOMAIN waiting : waiting[m].who # h
      BY DEF Worker!Waits
    <2>3. CASE n \in DOMAIN waiting
      BY <1>1, <1>3, <2>2, <2>3 DEF WorkerInv, WaitsWhereItAsked, AskedAt, Worker!At
    <2>4. CASE n = Len(waiting) + 1
      BY <1>1, <1>3, <2>2, <2>4 DEF AskedAt, Worker!At
    <2> QED
      BY <1>3, <2>1, <2>3, <2>4
  <1> QED
    BY <1>4, <1>5 DEF WorkerInv

\* A connection goes to the first that waits.
LEMMA GrantStep ==
  ASSUME WorkerInv, Worker!Grant
  PROVE  WorkerInv'
PROOF
  <1> DEFINE e == waiting[1]
             s == [step |-> e.step, held |-> handlers[e.who].held + 1]
  <1>1. /\ waiting \in Seq(Asks) /\ waiting # <<>> /\ Head(waiting) = e
        /\ 1 \in DOMAIN waiting
    BY DEF Worker!Grant, WorkerInv, TypeOK
  <1>2. /\ e.who \in Worker!Handlers /\ e.step \in {"claiming", "reading", "recording"}
    BY <1>1, Waiter
  <1>3. /\ waiting' \in Seq(Asks)
        /\ \A n \in DOMAIN waiting' : /\ n + 1 \in DOMAIN waiting /\ n + 1 # 1
                                      /\ waiting'[n] = waiting[n + 1]
        /\ UNCHANGED jobs
    BY <1>1 DEF Worker!Grant
  <1>4. s \in Slots /\ s.held = Holds(s.step) /\ s.step = e.step
    <2>1. AskedAt(e.who, e.step) /\ handlers[e.who].held = Holds(handlers[e.who].step)
      BY <1>1, <1>2 DEF WorkerInv, WaitsWhereItAsked, HeldByStep
    <2> QED
      BY <1>2, <2>1 DEF AskedAt, Worker!At, Holds, Slots, Steps
  <1>5. handlers' = [handlers EXCEPT ![e.who] = s]
    BY <1>1, <1>2 DEF Worker!Grant, WorkerInv, TypeOK
  <1> HIDE DEF s
  <1>6. /\ handlers' \in [Worker!Handlers -> Slots]
        /\ \A g \in Worker!Handlers : handlers'[g] = IF g = e.who THEN s ELSE handlers[g]
    BY <1>2, <1>4, <1>5 DEF WorkerInv, TypeOK
  <1>7. TypeOK'
    BY <1>3, <1>6 DEF WorkerInv, TypeOK
  <1>8. HeldByStep'
    BY <1>4, <1>6 DEF WorkerInv, HeldByStep
  <1>9. WaitsWhereItAsked'
    <2>1. SUFFICES ASSUME NEW n \in DOMAIN waiting' PROVE WaitsWhereItAsked!(n)'
      BY DEF WaitsWhereItAsked
    <2>2. waiting[n + 1].who # e.who /\ waiting[n + 1].who \in Worker!Handlers
      BY <1>1, <1>3, <2>1, Waiter DEF WorkerInv, WaitsWhereItAsked
    <2>3. \A m \in DOMAIN waiting' : m # n => m + 1 # n + 1
      BY <1>3, <2>1
    <2> QED
      <3>1. AskedAt(waiting[n + 1].who, waiting[n + 1].step)
        BY <1>3, <2>1 DEF WorkerInv, WaitsWhereItAsked
      <3>2. AskedAt(waiting[n].who, waiting[n].step)'
        BY <1>3, <1>6, <2>1, <2>2, <3>1 DEF AskedAt, Worker!At
      <3>3. (\A m \in DOMAIN waiting : m # n => waiting[m].who # waiting[n].who)'
        BY <1>3, <2>1, <2>3 DEF WorkerInv, WaitsWhereItAsked
      <3> QED
        BY <3>2, <3>3
  <1>10. NotHandedOut'
    <2>1. handlers[e.who].step # "idle"
      BY <1>1, <1>2 DEF WorkerInv, WaitsWhereItAsked, AskedAt, Worker!At
    <2> QED
      BY <1>3, <1>6, <2>1 DEF WorkerInv, NotHandedOut
  <1> QED
    BY <1>7, <1>8, <1>9, <1>10 DEF WorkerInv

\* What an attempt reports changes no count of attempts.
LEMMA Reported ==
  ASSUME WorkerInv, NEW h \in Worker!Handlers, NEW state \in {"completed", "retry"},
         Worker!Report(h, state) \/ UNCHANGED jobs
  PROVE  jobs' \in Views /\ SameAttempts
PROOF
  <1>1. CASE jobs' = [jobs EXCEPT ![h[1]].state = state]
    <2> DEFINE v == [jobs[h[1]] EXCEPT !.state = state]
    <2>1. /\ jobs[h[1]] \in [state : {"created", "active", "retry", "completed"},
                             attempt : 0 .. MaxAttempts]
      BY HandlerPair DEF WorkerInv, TypeOK, Views
    <2>2. /\ v \in [state : {"created", "active", "retry", "completed"},
                    attempt : 0 .. MaxAttempts]
          /\ v.attempt = jobs[h[1]].attempt
      BY <2>1
    <2>3. jobs' = [jobs EXCEPT ![h[1]] = v]
      BY <1>1
    <2> HIDE DEF v
    <2> QED
      BY <2>2, <2>3, HandlerPair DEF WorkerInv, TypeOK, Views, SameAttempts
  <1>2. CASE UNCHANGED jobs
    BY <1>2 DEF WorkerInv, TypeOK, SameAttempts
  <1> QED
    BY <1>1, <1>2 DEF Worker!Report

\* The steps a handler does not wait at.
LEMMA AtWork ==
  ASSUME WorkerInv, NEW h \in Worker!Handlers,
         \/ handlers[h].step \notin {"fetched", "claimed", "failed"}
         \/ Worker!At(h, "claimed") /\ QueueOf[h[1]] # "parse-quotation"
  PROVE  ~Worker!Waits(h)
  BY DEF WorkerInv, WaitsWhereItAsked, AskedAt, Worker!At, Worker!Waits

\* A handler that holds the claim's connection enters the next step with it.
LEMMA Entered ==
  ASSUME WorkerInv, NEW h \in Worker!Handlers, NEW step \in {"claimed", "working"}, Worker!Enter(h, step),
         handlers[h].held = 1, handlers[h].step # "idle", ~Worker!Waits(h),
         UNCHANGED <<jobs, waiting>>
  PROVE  WorkerInv'
PROOF
  <1> DEFINE s == [handlers[h] EXCEPT !.step = step]
  <1>1. s \in Slots /\ s.held = Holds(s.step) /\ s.step # "idle"
    BY DEF WorkerInv, TypeOK, Slots, Holds, Steps
  <1>2. handlers' = [handlers EXCEPT ![h] = s]
    BY DEF Worker!Enter
  <1> HIDE DEF s
  <1>3. jobs' \in Views /\ SameAttempts
    BY Reported
  <1> QED
    BY <1>1, <1>2, <1>3, HandlerMoves

\* A handler ends: it holds nothing.
LEMMA Ended ==
  ASSUME WorkerInv, NEW h \in Worker!Handlers, ~Worker!Waits(h), handlers' = [handlers EXCEPT ![h] = Worker!Idle],
         NEW state \in {"completed", "retry"}, Worker!Report(h, state), UNCHANGED waiting
  PROVE  WorkerInv'
PROOF
  <1>1. Worker!Idle \in Slots /\ Worker!Idle.held = Holds(Worker!Idle.step) /\ Worker!Idle.step = "idle"
    BY DEF Worker!Idle, Slots, Steps, Holds
  <1>2. jobs' \in Views /\ SameAttempts
    BY Reported
  <1> QED
    BY <1>1, <1>2, HandlerMoves

LEMMA HandlerStep ==
  ASSUME WorkerInv, NEW h \in Worker!Handlers,
         \/ Worker!Begin(h) \/ Worker!Claim(h) \/ Worker!Read(h) \/ Worker!Loaded(h) \/ Worker!Work(h) \/ Worker!Commit(h)
         \/ Worker!Fail(h) \/ Worker!RecordFailure(h) \/ Worker!Rethrow(h)
  PROVE  WorkerInv'
PROOF
  <1>1. handlers[h].held = Holds(handlers[h].step)
    BY DEF WorkerInv, HeldByStep
  <1>2. CASE Worker!Begin(h)
    <2>1. Worker!At(h, "fetched") /\ handlers[h].held = 0
      BY <1>1, <1>2 DEF Worker!Begin, Worker!At, Holds
    <2> QED
      BY <1>2, <2>1, Asking DEF Worker!Begin, Worker!RunUnit, Worker!OpensConnection, AskedAt
  <1>3. CASE Worker!Claim(h)
    <2>1. /\ ~Worker!Waits(h) /\ handlers[h].held = 1 /\ handlers[h].step # "idle"
          /\ UNCHANGED waiting
      BY <1>1, <1>3, AtWork DEF Worker!Claim, Worker!At, Holds
    <2> QED
      BY <1>3, <2>1, Ended, Entered DEF Worker!Claim
  <1>4. CASE Worker!Read(h)
    BY <1>4, Asking DEF Worker!Read, AskedAt
  <1>5. CASE Worker!Loaded(h)
    <2> DEFINE s == [step |-> "loaded", held |-> handlers[h].held - 1]
    <2>1. ~Worker!Waits(h) /\ handlers[h].held = 2 /\ handlers[h].step # "idle"
      BY <1>1, <1>5, AtWork DEF Worker!Loaded, Worker!At, Holds
    <2>2. s \in Slots /\ s.held = Holds(s.step)
      BY <2>1 DEF Slots, Steps, Holds
    <2>3. handlers' = [handlers EXCEPT ![h] = s] /\ UNCHANGED <<jobs, waiting>>
      BY <1>5 DEF Worker!Loaded
    <2> HIDE DEF s
    <2>4. jobs' \in Views /\ SameAttempts
      BY <2>3, Reported
    <2> QED
      BY <2>1, <2>2, <2>3, <2>4, HandlerMoves
  <1>6. CASE Worker!Work(h)
    <2>1. /\ ~Worker!Waits(h) /\ handlers[h].held = 1 /\ handlers[h].step # "idle"
      BY <1>1, <1>6, AtWork DEF Worker!Work, Worker!At, Holds
    <2> QED
      BY <1>6, <2>1, Entered DEF Worker!Work, Worker!RunUnit, Worker!OpensConnection
  <1>7. CASE Worker!Commit(h)
    <2>1. ~Worker!Waits(h) /\ UNCHANGED waiting
      BY <1>7, AtWork DEF Worker!Commit, Worker!At
    <2> QED
      BY <1>7, <2>1, Ended DEF Worker!Commit
  <1>8. CASE Worker!Fail(h)
    <2> DEFINE s == [step |-> "failed", held |-> 0]
    <2>1. ~Worker!Waits(h) /\ handlers[h].step # "idle"
      BY <1>8, AtWork DEF Worker!Fail, Worker!At
    <2>2. s \in Slots /\ s.held = Holds(s.step)
      BY DEF Slots, Steps, Holds
    <2>3. handlers' = [handlers EXCEPT ![h] = s] /\ UNCHANGED <<jobs, waiting>>
      BY <1>8 DEF Worker!Fail
    <2> HIDE DEF s
    <2>4. jobs' \in Views /\ SameAttempts
      BY <2>3, Reported
    <2> QED
      BY <2>1, <2>2, <2>3, <2>4, HandlerMoves
  <1>9. CASE Worker!RecordFailure(h)
    <2>1. Worker!At(h, "failed") /\ handlers[h].held = 0
      BY <1>1, <1>9 DEF Worker!RecordFailure, Worker!At, Holds
    <2> QED
      BY <1>9, <2>1, Asking DEF Worker!RecordFailure, Worker!RunUnit, Worker!OpensConnection, AskedAt
  <1>10. CASE Worker!Rethrow(h)
    <2>1. ~Worker!Waits(h) /\ UNCHANGED waiting
      BY <1>10, AtWork DEF Worker!Rethrow, Worker!At
    <2> QED
      BY <1>10, <2>1, Ended DEF Worker!Rethrow
  <1> QED
    BY <1>2, <1>3, <1>4, <1>5, <1>6, <1>7, <1>8, <1>9, <1>10

\* A job is handed out to an attempt that had none.
LEMMA FetchStep ==
  ASSUME WorkerInv, MaxAttempts \in Nat, NEW j \in Jobs, Worker!Fetch(j)
  PROVE  WorkerInv'
PROOF
  <1> DEFINE a == jobs[j].attempt + 1
             h == <<j, a>>
             v == [state |-> "active", attempt |-> a]
             s == [handlers[h] EXCEPT !.step = "fetched"]
  <1>1. jobs[j].attempt \in 0 .. MaxAttempts /\ jobs[j].attempt < MaxAttempts
    BY DEF Worker!Fetch, WorkerInv, TypeOK, Views
  <1>2. h \in Worker!Handlers /\ h[1] = j /\ h[2] = a /\ a \in 0 .. MaxAttempts
    BY <1>1 DEF Worker!Handlers
  <1>3. handlers[h].step = "idle" /\ handlers[h].held = 0 /\ handlers[h] \in Slots
    BY <1>1, <1>2 DEF WorkerInv, NotHandedOut, HeldByStep, Holds, TypeOK
  <1>4. s \in Slots /\ s.held = Holds(s.step) /\ s.step = "fetched"
    BY <1>3 DEF Slots, Steps, Holds
  <1>5. /\ handlers' = [handlers EXCEPT ![h] = s]
        /\ jobs' = [jobs EXCEPT ![j] = v] /\ UNCHANGED waiting
    BY DEF Worker!Fetch
  <1>6. v \in [state : {"created", "active", "retry", "completed"}, attempt : 0 .. MaxAttempts]
        /\ v.attempt = a
    BY <1>2
  <1> HIDE DEF v, s, h
  <1>7. /\ jobs' \in Views /\ \A k \in Jobs : jobs'[k] = IF k = j THEN v ELSE jobs[k]
        /\ handlers' \in [Worker!Handlers -> Slots]
        /\ \A g \in Worker!Handlers : handlers'[g] = IF g = h THEN s ELSE handlers[g]
    BY <1>2, <1>4, <1>5, <1>6 DEF WorkerInv, TypeOK, Views
  <1>8. ~Worker!Waits(h)
    BY <1>2, <1>3, AtWork
  <1>9. TypeOK' /\ HeldByStep'
    BY <1>4, <1>5, <1>7 DEF WorkerInv, TypeOK, HeldByStep
  <1>10. WaitsWhereItAsked'
    <2>1. SUFFICES ASSUME NEW n \in DOMAIN waiting PROVE WaitsWhereItAsked!(n)'
      BY <1>5 DEF WaitsWhereItAsked
    <2>2. waiting[n].who # h /\ waiting[n].who \in Worker!Handlers
      BY <1>8, <2>1, Waiter DEF Worker!Waits
    <2> QED
      BY <1>5, <1>7, <2>1, <2>2 DEF WorkerInv, WaitsWhereItAsked, AskedAt, Worker!At
  <1>11. NotHandedOut'
    <2>1. SUFFICES ASSUME NEW g \in Worker!Handlers, g[2] > jobs'[g[1]].attempt
                   PROVE  handlers'[g].step = "idle"
      BY DEF NotHandedOut
    <2>2. g[1] \in Jobs /\ g[2] \in Int /\ jobs[g[1]].attempt \in Int
      BY HandlerPair DEF WorkerInv, TypeOK, Views
    <2>3. g[2] > jobs[g[1]].attempt /\ g # h
      BY <1>1, <1>2, <1>6, <1>7, <2>1, <2>2
    <2> QED
      BY <1>7, <2>3 DEF WorkerInv, NotHandedOut
  <1> QED
    BY <1>9, <1>10, <1>11 DEF WorkerInv

\* The process and the queue: what they do to the jobs they do to no handler.
LEMMA ProcessStep ==
  ASSUME WorkerInv, jobs' \in Views, SameAttempts, UNCHANGED <<handlers, waiting>>
  PROVE  WorkerInv'
  BY HandlerPair DEF WorkerInv, TypeOK, HeldByStep, WaitsWhereItAsked, AskedAt, Worker!At,
                     NotHandedOut, SameAttempts

LEMMA WorkerNext ==
  ASSUME WorkerInv, MaxAttempts \in Nat, [Worker!Next]_(Worker!vars)
  PROVE  WorkerInv'
PROOF
  <1>1. CASE Worker!Start \/ Worker!Stop \/ Worker!PoolEnded \/ UNCHANGED Worker!vars
    <2>1. UNCHANGED <<jobs, handlers, waiting>>
      BY <1>1 DEF Worker!Start, Worker!Stop, Worker!PoolEnded, Worker!Process, Worker!vars
    <2> QED
      BY <2>1, ProcessStep DEF WorkerInv, TypeOK, SameAttempts
  <1>2. CASE Worker!QueueStopped
    <2> DEFINE v(j) == IF Worker!Active(j) THEN [jobs[j] EXCEPT !.state = "retry"] ELSE jobs[j]
    <2>1. ASSUME NEW j \in Jobs
          PROVE  /\ v(j) \in [state : {"created", "active", "retry", "completed"},
                              attempt : 0 .. MaxAttempts]
                 /\ v(j).attempt = jobs[j].attempt
      BY DEF WorkerInv, TypeOK, Views
    <2>2. jobs' = [j \in Jobs |-> v(j)] /\ UNCHANGED <<handlers, waiting>>
      BY <1>2 DEF Worker!QueueStopped
    <2> HIDE DEF v
    <2>3. jobs' \in Views /\ SameAttempts
      BY <2>1, <2>2 DEF Views, SameAttempts
    <2> QED
      BY <2>2, <2>3, ProcessStep
  <1>3. ASSUME NEW h \in Worker!Handlers, Worker!Expire(h)
        PROVE  WorkerInv'
    <2>1. Worker!Report(h, "retry") /\ UNCHANGED <<handlers, waiting>>
      BY <1>3 DEF Worker!Expire, Worker!Report
    <2> QED
      BY <2>1, Reported, ProcessStep
  <1> QED
    BY <1>1, <1>2, <1>3, GrantStep, FetchStep, HandlerStep DEF Worker!Next

------------------------------------------------------------------------------
(* The pool *)

\* Of the handlers that hold a connection and can none go on, each is a parse
\* that holds the one of its claim, or wants that claim.
LEMMA AllHoldersParse ==
  ASSUME WorkerInv, \A h \in Worker!Handlers : handlers[h].held > 0 => Worker!Blocked(h),
         NEW h \in Worker!Handlers, handlers[h].held > 0
  PROVE  h \in Worker!Parses /\ handlers[h].held = 1
PROOF
  <1>1. ASSUME NEW g \in Worker!Handlers, handlers[g].held > 0, Worker!Waits(g)
        PROVE  g \in Worker!Parses /\ Worker!At(g, "claimed") /\ handlers[g].held = 1
    BY <1>1 DEF WorkerInv, WaitsWhereItAsked, AskedAt, HeldByStep, Holds, Worker!At, Worker!Waits, Worker!Parses
  <1>2. CASE Worker!Waits(h)
    BY <1>1, <1>2
  <1>3. CASE Worker!At(h, "claiming") /\ Worker!ClaimHeld(h)
    <2>1. PICK a \in 1 .. MaxAttempts :
            handlers[<<h[1], a>>].step \in {"claimed", "reading", "loaded", "working"}
      BY <1>3 DEF Worker!ClaimHeld
    <2> DEFINE g == <<h[1], a>>
    <2>2. g \in Worker!Handlers /\ g[1] = h[1]
      BY HandlerPair DEF Worker!Handlers
    <2> HIDE DEF g
    <2>3. handlers[g].held > 0 /\ ~Worker!At(g, "claiming")
      BY <2>1, <2>2 DEF WorkerInv, HeldByStep, Holds, Worker!At, g
    <2>4. g \in Worker!Parses
      BY <1>1, <2>2, <2>3 DEF Worker!Blocked
    <2>5. handlers[h].held = 1
      BY <1>3 DEF WorkerInv, HeldByStep, Holds, Worker!At
    <2> QED
      BY <2>2, <2>4, <2>5 DEF Worker!Parses
  <1> QED
    BY <1>2, <1>3 DEF Worker!Blocked

\* There is something to go on as long as the parses leave a connection.
LEMMA HolderGoesOn ==
  ASSUME WorkerInv
  PROVE  Worker!SomeHolderGoesOn
PROOF
  <1>1. SUFFICES ASSUME Worker!Used >= Connections, Cardinality(Worker!Parses) < Connections,
                        \A h \in Worker!Handlers : handlers[h].held > 0 => Worker!Blocked(h)
                 PROVE  FALSE
    BY WorkerCounts DEF Worker!SomeHolderGoesOn
  <1> DEFINE Out == {c \in Worker!Handlers \X (1 .. 2) : c[2] <= handlers[c[1]].held}
             f   == [h \in Worker!Parses |-> <<h, 1>>]
  <1>2. IsFiniteSet(Worker!Parses)
    <2>1. IsFiniteSet(1 .. MaxAttempts)
      BY WorkerAssumption, FS_Interval
    <2>2. IsFiniteSet(Worker!Handlers)
      BY WorkerAssumption, <2>1, FS_Product DEF Worker!Handlers
    <2> QED
      BY <2>2, FS_Subset DEF Worker!Parses
  <1>3. \A c \in Out : c[1] \in Worker!Parses /\ c = <<c[1], 1>>
    <2>1. SUFFICES ASSUME NEW c \in Out PROVE c[1] \in Worker!Parses /\ c = <<c[1], 1>>
      OBVIOUS
    <2>2. /\ c[1] \in Worker!Handlers /\ c[2] \in 1 .. 2 /\ c[2] <= handlers[c[1]].held
          /\ handlers[c[1]].held \in 0 .. 2 /\ c = <<c[1], c[2]>>
      BY DEF WorkerInv, TypeOK, Slots
    <2>3. c[1] \in Worker!Parses /\ handlers[c[1]].held = 1
      BY <1>1, <2>2, AllHoldersParse
    <2> QED
      BY <2>2, <2>3
  <1>4. ASSUME NEW h \in Worker!Parses
        PROVE  <<h, 1>> \in Out
    BY DEF Worker!Parses, WorkerInv, TypeOK, Slots
  <1>5. f \in Bijection(Worker!Parses, Out)
    BY <1>3, <1>4 DEF Bijection, Injection, Surjection, IsInjective
  <1>6. Cardinality(Worker!Parses) = Cardinality(Out) /\ Cardinality(Worker!Parses) \in Nat
    <2>1. ExistsBijection(Worker!Parses, Out)
      BY <1>5 DEF ExistsBijection
    <2> HIDE DEF Out
    <2> QED
      BY <1>2, <2>1, FS_Bijection, FS_CardinalityType
  <1>7. Worker!Used = Cardinality(Out)
    BY WorkerCounts DEF Worker!Used
  <1> QED
    BY WorkerAssumption, <1>1, <1>6, <1>7

(* Handlers that wait for a connection, or for a claim, never hold all of  *)
(* the pool while parses leave one of it, for any queues, attempts, jobs   *)
(* and expiries (worker-runtime.ts, drizzle-unit-of-work.ts).              *)
THEOREM PoolGoesOn == Spec => []SomeHolderGoesOn
PROOF
  <1> DEFINE WorkerRuns == service = "worker" => WorkerInv
  <1>1. Init => WorkerRuns
    BY WorkerAssumption, WorkerInit DEF Init
  <1>2. WorkerRuns /\ [Next]_vars => WorkerRuns'
    <2>1. SUFFICES ASSUME WorkerRuns, [Next]_vars, service' = "worker"
                   PROVE  WorkerInv'
      OBVIOUS
    <2>2. service = "worker" /\ [Worker!Next]_(Worker!vars)
      BY <2>1 DEF Next, vars, worker, Worker!vars
    <2> QED
      BY WorkerAssumption, <2>1, <2>2, WorkerNext
  <1>3. WorkerRuns => SomeHolderGoesOn
    BY HolderGoesOn DEF SomeHolderGoesOn
  <1> QED
    BY <1>1, <1>2, <1>3, PTL DEF Spec

------------------------------------------------------------------------------
(* WorkbookParser, for every file and limit and every order of its events *)

ParserTypes ==
    /\ child \in [state   : {"none", "running", "exited", "killed"},
                  code    : {0, 1},
                  written : Nat,
                  length  : {0, upload.chunks}]
    /\ pipe \in Nat
    /\ received \in Nat

\* Nothing of the output is lost between the child and its reader, and a child
\* that ends by itself has written all of it.
Flow ==
    /\ child.written = pipe + received
    /\ child.state = "exited" /\ child.code = 0 => child.written = child.length

\* The runner settles well only once there is nothing left to read.
Settlement ==
    /\ outcome = "ok" => pipe = 0 /\ child.state = "exited" /\ child.code = 0
    /\ outcome # "invalid_json"

ParserInv == ParserTypes /\ Flow /\ Settlement /\ answer # "invalid_json"

LEMMA WholeAnswer ==
    ASSUME ParserInv
    PROVE  Parser!AnswerIsWhole
  BY DEF ParserInv, ParserTypes, Flow, Settlement, Parser!AnswerIsWhole

LEMMA ParserInit ==
    ASSUME Parser!Init
    PROVE  ParserInv
  BY DEF Parser!Init, ParserInv, ParserTypes, Flow, Settlement, Parser!NoChild, Parser!None

(* Before there is a child: the inspection only refuses or goes on.        *)
LEMMA Inspection ==
    ASSUME ParserInv, Parser!OpenArchive \/ Parser!InspectEntry \/ Parser!InspectParts
    PROVE  ParserInv'
  <1>1. UNCHANGED <<upload, child, pipe, received, outcome>>
    BY DEF Parser!OpenArchive, Parser!InspectEntry, Parser!InspectParts, Parser!Unspawned
  <1>2. answer' # "invalid_json"
    BY DEF ParserInv, Parser!OpenArchive, Parser!InspectEntry, Parser!InspectParts, Parser!Refuse
  <1> QED
    BY <1>1, <1>2 DEF ParserInv, ParserTypes, Flow, Settlement

LEMMA ChildStep ==
    ASSUME ParserInv, Parser!Spawn \/ Parser!Parse \/ Parser!Write \/ Parser!Exit \/ Parser!Crash
    PROVE  ParserInv'
  <1> USE DEF ParserInv, ParserTypes, Flow, Settlement, Parser!InspectedAs
  <1>1. CASE Parser!Spawn
    BY <1>1 DEF Parser!Spawn, Parser!Finish, Parser!Settled, Parser!None
  <1>2. CASE Parser!Parse
    BY <1>2 DEF Parser!Parse
  <1>3. CASE Parser!Write
    BY <1>3 DEF Parser!Write
  <1>4. CASE Parser!Exit
    BY <1>4 DEF Parser!Exit
  <1>5. CASE Parser!Crash
    <2>1. /\ child'.state = "exited" /\ child'.code = 1
          /\ child'.written = child.written /\ child'.length = child.length
          /\ child' \in [state : {"none", "running", "exited", "killed"}, code : {0, 1},
                         written : Nat, length : {0, upload.chunks}]
      BY <1>5 DEF Parser!Crash
    <2>2. UNCHANGED <<upload, answer, pipe, received, outcome>>
      BY <1>5 DEF Parser!Crash
    <2>3. outcome # "ok"
      BY <1>5 DEF Parser!Crash
    <2> QED
      BY <2>1, <2>2, <2>3
  <1> QED
    BY <1>1, <1>2, <1>3, <1>4, <1>5

(* A child that was killed did not exit, whatever it had written.          *)
LEMMA KillStep ==
    ASSUME ParserInv, child' \in {child, Parser!Kill}, UNCHANGED upload
    PROVE  /\ child' \in [state   : {"none", "running", "exited", "killed"},
                          code    : {0, 1},
                          written : Nat,
                          length  : {0, upload'.chunks}]
           /\ child'.written = child.written /\ child'.length = child.length
           /\ child'.code = child.code
           /\ child.state = "exited" <=> child'.state = "exited"
  BY DEF ParserInv, ParserTypes, Parser!Kill

LEMMA RunnerStep ==
    ASSUME ParserInv, Parser!Data \/ Parser!Deadline \/ Parser!Close
    PROVE  ParserInv'
  <1>1. CASE Parser!Data
    <2>1. child' \in {child, Parser!Kill} /\ UNCHANGED <<upload, inventory, answer>>
      BY <1>1 DEF Parser!Data, Parser!InspectedAs
    <2>2. outcome # "ok" /\ outcome' \in {outcome, "output_limit"}
      BY <1>1 DEF Parser!Data, ParserInv, Settlement, Parser!Finish, ParserTypes
    <2>3. pipe' = pipe - 1 /\ received' = received + 1 /\ pipe > 0
      BY <1>1 DEF Parser!Data
    <2> QED
      BY <2>1, <2>2, <2>3, KillStep DEF ParserInv, ParserTypes, Flow, Settlement
  <1>2. CASE Parser!Deadline
    <2>1. /\ child' \in {child, Parser!Kill} /\ outcome' = "timeout"
          /\ UNCHANGED <<upload, inventory, answer, pipe, received>>
      BY <1>2 DEF Parser!Deadline, Parser!InspectedAs, Parser!Finish
    <2> QED
      BY <2>1, KillStep DEF ParserInv, ParserTypes, Flow, Settlement
  <1>3. CASE Parser!Close
    <2>1. UNCHANGED <<upload, inventory, answer, child, pipe, received>>
      BY <1>3 DEF Parser!Close, Parser!InspectedAs
    <2>2. /\ outcome' \in {"ok", "crash"} /\ pipe = 0
          /\ outcome' = "ok" => child.state = "exited" /\ child.code = 0
      BY <1>3 DEF Parser!Close, Parser!Ended, Parser!Finish
    <2> QED
      BY <2>1, <2>2 DEF ParserInv, ParserTypes, Flow, Settlement
  <1> QED
    BY <1>1, <1>2, <1>3

LEMMA AnswerStep ==
    ASSUME ParserInv, Parser!Answer
    PROVE  ParserInv'
  <1>1. UNCHANGED <<upload, child, pipe, received, outcome>>
    BY DEF Parser!Answer
  <1>2. outcome = "ok" => ~(received < child.length)
    BY DEF ParserInv, ParserTypes, Flow, Settlement
  <1>3. answer' # "invalid_json"
    BY <1>2 DEF Parser!Answer, ParserInv, Settlement
  <1> QED
    BY <1>1, <1>3 DEF ParserInv, ParserTypes, Flow, Settlement

LEMMA ParserNext ==
    ASSUME ParserInv, [Parser!Next]_(Parser!vars)
    PROVE  ParserInv'
  <1>1. CASE UNCHANGED Parser!vars
    BY <1>1 DEF Parser!vars, ParserInv, ParserTypes, Flow, Settlement
  <1>2. CASE Parser!Next
    BY <1>2, Inspection, ChildStep, RunnerStep, AnswerStep DEF Parser!Next
  <1> QED
    BY <1>1, <1>2

(* A workbook is answered with all the child wrote, in whatever order its  *)
(* output, its exit, the deadline and the output limit come                *)
(* (isolation-runner.ts).                                                  *)
THEOREM AnsweredWhole == Spec => []AnswerIsWhole
  <1> DEFINE ParserRuns == service = "parser" => ParserInv
  <1>1. Init => ParserRuns
    BY ParserInit DEF Init
  <1>2. ParserRuns /\ [Next]_vars => ParserRuns'
    <2>1. SUFFICES ASSUME ParserRuns, [Next]_vars, service' = "parser"
                   PROVE  ParserInv'
      OBVIOUS
    <2>2. service = "parser" /\ [Parser!Next]_(Parser!vars)
      BY <2>1 DEF Next, vars, parser, Parser!vars
    <2> QED
      BY <2>1, <2>2, ParserNext
  <1>3. ParserRuns => AnswerIsWhole
    BY WholeAnswer DEF AnswerIsWhole
  <1> QED
    BY <1>1, <1>2, <1>3, PTL DEF Spec

------------------------------------------------------------------------------
(* WorkbookSheets: what a scan over rows computes *)

Less == {p \in Nat \X Nat : p[1] < p[2]}

\* What holds at lo and of each row after one of which it holds, holds from lo on.
LEMMA Upwards ==
  ASSUME NEW lo \in Nat, NEW n \in Nat, NEW S, lo \in S,
         \A i \in lo + 1 .. n : i - 1 \in S => i \in S
  PROVE  lo .. n \subseteq S
PROOF
  <1> DEFINE T == (lo .. n) \ S
  <1>1. SUFFICES ASSUME T # {} PROVE FALSE
    OBVIOUS
  <1>2. IsWellFoundedOn(Less, Nat)
    <2>1. OpToRel(<, Nat) = Less
      BY DEF OpToRel, Less
    <2> QED
      BY <2>1, NatLessThanWellFounded
  <1>3. T \subseteq Nat
    OBVIOUS
  <1> HIDE DEF T
  <1>4. PICK m \in T : \A k \in T : <<k, m>> \notin Less
    BY <1>1, <1>2, <1>3, WFMin
  <1>5. m \in lo + 1 .. n /\ m - 1 \in lo .. n /\ m \notin S
    BY <1>4 DEF T
  <1>6. m - 1 \notin T
    <2>1. <<m - 1, m>> \in Less
      BY <1>5 DEF Less
    <2> QED
      BY <1>4, <2>1
  <1> QED
    BY <1>5, <1>6 DEF T

\* The results g of the steps F from row lo, where the result is b, to row n.
Iterates(g, lo, n, X, b, F) ==
    /\ g \in [lo .. n -> X] /\ g[lo] = b
    /\ \A i \in lo + 1 .. n : g[i] = F[<<i, g[i - 1]>>]

\* A step for each row, from b on, has a result for every row.
LEMMA IteratesExists ==
  ASSUME NEW lo \in Nat, NEW n \in Nat, lo <= n, NEW X, NEW b \in X,
         NEW F \in [(lo + 1 .. n) \X X -> X]
  PROVE  \E g : Iterates(g, lo, n, X, b, F)
PROOF
  <1> DEFINE S == {m \in lo .. n : \E g : Iterates(g, lo, m, X, b, F)}
  <1>1. lo \in S
    <2> DEFINE g == [i \in lo .. lo |-> b]
    <2>1. Iterates(g, lo, lo, X, b, F)
      BY DEF Iterates
    <2> QED
      BY <2>1
  <1>2. ASSUME NEW m \in lo + 1 .. n, m - 1 \in S PROVE m \in S
    <2>1. PICK g : Iterates(g, lo, m - 1, X, b, F)
      BY <1>2
    <2> DEFINE h == [i \in lo .. m |-> IF i = m THEN F[<<m, g[m - 1]>>] ELSE g[i]]
    <2>2. /\ \A i \in lo .. m - 1 : g[i] \in X
          /\ m - 1 \in lo .. m - 1
      BY <2>1 DEF Iterates
    <2>3. F[<<m, g[m - 1]>>] \in X
      BY <2>2
    <2>4. h \in [lo .. m -> X]
      BY <2>2, <2>3
    <2>5. h[lo] = b
      BY <2>1 DEF Iterates
    <2>6. ASSUME NEW i \in lo + 1 .. m PROVE h[i] = F[<<i, h[i - 1]>>]
      <3>1. i - 1 \in lo .. m /\ i - 1 # m /\ i \in lo .. m
        OBVIOUS
      <3>2. h[i - 1] = g[i - 1] /\ h[i] = IF i = m THEN F[<<m, g[m - 1]>>] ELSE g[i]
        BY <3>1
      <3> HIDE DEF h
      <3>3. i # m => i \in lo + 1 .. m - 1
        OBVIOUS
      <3>4. i # m => g[i] = F[<<i, g[i - 1]>>]
        BY <2>1, <3>3 DEF Iterates
      <3> QED
        BY <3>2, <3>4
    <2> HIDE DEF h
    <2>7. Iterates(h, lo, m, X, b, F)
      BY <2>4, <2>5, <2>6 DEF Iterates
    <2> QED
      BY <2>7
  <1> HIDE DEF S
  <1>3. lo .. n \subseteq S
    BY <1>1, <1>2, Upwards
  <1> QED
    BY <1>3 DEF S

------------------------------------------------------------------------------
(* The scan of a table *)

IsTable(t) == t.rows \in Seq(Seq(STRING)) /\ t.header \in 1 .. Len(t.rows)

\* The union is for the provers, which do not know the text "blank" to be one.
Skus       == STRING \cup {Parser!Blank}
ScanStates == [runs : Seq([start : Nat, end : Int]), start : Nat, blanks : Nat,
               seen : SUBSET Skus, footer : BOOLEAN]

LEMMA SkuIsText ==
  ASSUME NEW t, IsTable(t), NEW i \in 1 .. Len(t.rows)
  PROVE  Parser!Sku(t, i) \in Skus
PROOF
  <1> DEFINE row    == t.rows[i]
             column == t.columns["sku"]
  <1>1. row \in Seq(STRING)
    BY DEF IsTable
  <1> HIDE DEF row, column
  <1>2. column \in DOMAIN row => row[column] \in STRING
    BY <1>1
  <1> QED
    BY <1>2 DEF Parser!Sku, Parser!Cell, row, column, Skus

LEMMA ScannedRowType ==
  ASSUME NEW s \in ScanStates, NEW row, NEW sku \in Skus, NEW i \in Nat
  PROVE  Parser!ScannedRow(s, row, sku, i) \in ScanStates
PROOF
  <1>1. \A e \in Int : Parser!Closed(s, e) \in Seq([start : Nat, end : Int])
    BY DEF Parser!Closed, Parser!Run, ScanStates
  <1>2. /\ i - 1 \in Int /\ i - (s.blanks + 1) \in Int /\ s.blanks + 1 \in Nat
        /\ s.seen \cup {sku} \in SUBSET Skus /\ {sku} \in SUBSET Skus
        /\ Parser!NoRun \in Nat
    BY DEF ScanStates, Parser!NoRun
  <1> QED
    BY <1>1, <1>2 DEF Parser!ScannedRow, Parser!Scanning, ScanStates

\* The scan as the code makes it, row by row.
Scanned(t, i, s) == Parser!ScannedRow(s, t.rows[i], Parser!Sku(t, i), i)
Nothing          == Parser!Scanning(<<>>, Parser!NoRun, 0, {})
IsScan(t, f)     == f = [i \in t.header .. Len(t.rows) |->
                           IF i = t.header THEN Nothing ELSE Scanned(t, i, f[i - 1])]

\* Scanning from the header down ends with a state for every row.
LEMMA ScanExists ==
  ASSUME NEW t, IsTable(t)
  PROVE  \E f : IsScan(t, f)
PROOF
  <1> DEFINE h == t.header
             n == Len(t.rows)
             F == [p \in (h + 1 .. n) \X ScanStates |-> Scanned(t, p[1], p[2])]
  <1>1. h \in Nat /\ n \in Nat /\ h <= n /\ 1 <= h
    BY DEF IsTable
  <1>2. ASSUME NEW i \in h + 1 .. n, NEW s \in ScanStates
        PROVE  Scanned(t, i, s) \in ScanStates
    <2>1. i \in 1 .. Len(t.rows) /\ i \in Nat
      BY <1>1
    <2> QED
      BY <2>1, SkuIsText, ScannedRowType DEF Scanned
  <1>3. F \in [(h + 1 .. n) \X ScanStates -> ScanStates]
    BY <1>2
  <1>4. Nothing \in ScanStates
    BY DEF Nothing, Parser!Scanning, Parser!NoRun, ScanStates
  <1>5. \A i \in h + 1 .. n, s \in ScanStates : F[<<i, s>>] = Scanned(t, i, s)
    OBVIOUS
  <1> HIDE DEF h, n, F
  <1>6. PICK g : Iterates(g, h, n, ScanStates, Nothing, F)
    BY <1>1, <1>3, <1>4, IteratesExists
  <1>7. ASSUME NEW i \in h .. n
        PROVE  g[i] = IF i = h THEN Nothing ELSE Scanned(t, i, g[i - 1])
    <2>1. CASE i = h
      BY <1>6, <2>1 DEF Iterates
    <2>2. CASE i # h
      <3>1. i \in h + 1 .. n /\ i - 1 \in h .. n
        BY <1>1, <2>2
      <3>2. g[i - 1] \in ScanStates /\ g[i] = F[<<i, g[i - 1]>>]
        BY <1>6, <3>1 DEF Iterates
      <3> QED
        BY <1>5, <2>2, <3>1, <3>2
    <2> QED
      BY <2>1, <2>2
  <1>8. g = [i \in h .. n |-> g[i]]
    BY <1>6 DEF Iterates
  <1>9. g = [i \in h .. n |-> IF i = h THEN Nothing ELSE Scanned(t, i, g[i - 1])]
    BY <1>7, <1>8
  <1> QED
    BY <1>9 DEF IsScan, h, n

\* And the runs of the model are those of that scan.
LEMMA QuoteRunsScans ==
  ASSUME NEW t, IsTable(t)
  PROVE  \E f : /\ IsScan(t, f)
               /\ LET end == f[Len(t.rows)]
                  IN Parser!QuoteRuns(t) = IF end.start = Parser!NoRun THEN end.runs
                                           ELSE Parser!Closed(end, Len(t.rows))
PROOF
  <1> DEFINE f == CHOOSE g : IsScan(t, g)
  <1>1. IsScan(t, f)
    BY ScanExists
  <1>2. Parser!QuoteRuns(t) = IF f[Len(t.rows)].start = Parser!NoRun THEN f[Len(t.rows)].runs
                              ELSE Parser!Closed(f[Len(t.rows)], Len(t.rows))
    BY DEF Parser!QuoteRuns, IsScan, Nothing, Scanned
  <1> HIDE DEF f
  <1> QED
    BY <1>1, <1>2

------------------------------------------------------------------------------
(* What is true of a scan after row i *)

Named(t, i) == Parser!Sku(t, i) # Parser!Blank

\* No footer under the header down to row i.
Above(t, i) == \A j \in t.header + 1 .. i : ~Parser!Footer(t.rows[j])

Once(t, lo, hi) ==
    \A i, j \in lo .. hi : Named(t, i) /\ Parser!Sku(t, i) = Parser!Sku(t, j) => i = j

InOne(runs, j) == \E m \in DOMAIN runs : j \in runs[m].start .. runs[m].end

\* In order, not empty, below the header and above the footer, and no product
\* twice in one.
WellCut(t, runs, i) ==
    \A m \in DOMAIN runs :
        /\ t.header < runs[m].start /\ runs[m].start <= runs[m].end /\ runs[m].end <= i
        /\ Above(t, runs[m].end)
        /\ Once(t, runs[m].start, runs[m].end)
        /\ \A k \in DOMAIN runs : k < m => runs[k].end < runs[m].start

\* The run that goes on.
OpenRun(t, s, i) ==
    /\ ~s.footer
    /\ t.header < s.start /\ s.start <= i - s.blanks
    /\ \A m \in DOMAIN s.runs : s.runs[m].end < s.start
    /\ s.blanks = 0 \/ (s.blanks = 1 /\ ~Named(t, i))
    /\ Once(t, s.start, i)
    /\ \A j \in s.start .. i : Named(t, j) => Parser!Sku(t, j) \in s.seen

\* What is found after row i: the runs that ended are well cut, the footer is
\* known once it is passed, and no product row above it is in no run.
ScanInv(t, s, i) ==
    /\ s \in ScanStates
    /\ WellCut(t, s.runs, i)
    /\ s.footer <=> ~Above(t, i)
    /\ s.start # Parser!NoRun => OpenRun(t, s, i)
    /\ \A j \in t.header + 1 .. i :
          Named(t, j) /\ Above(t, j) =>
              InOne(s.runs, j) \/ (s.start # Parser!NoRun /\ s.start <= j)

LEMMA AboveGoesOn ==
  ASSUME NEW t, t.header \in Nat, NEW i \in Nat, t.header < i
  PROVE  Above(t, i) <=> Above(t, i - 1) /\ ~Parser!Footer(t.rows[i])
PROOF
  <1>1. t.header + 1 .. i = (t.header + 1 .. i - 1) \cup {i}
    OBVIOUS
  <1> QED
    BY <1>1 DEF Above

LEMMA Appended ==
  ASSUME NEW R, NEW q \in Seq(R), NEW r \in R
  PROVE  /\ Len(q) \in Nat /\ DOMAIN q = 1 .. Len(q)
         /\ DOMAIN Append(q, r) = 1 .. Len(q) + 1
         /\ \A m \in 1 .. Len(q) : Append(q, r)[m] = q[m] /\ q[m] \in R
         /\ Append(q, r)[Len(q) + 1] = r
  OBVIOUS

\* A run ends: it is cut from the rows that are left, which name nothing.
LEMMA Closing ==
  ASSUME NEW t, t.header \in Nat, NEW i \in Nat, NEW s, ScanInv(t, s, i),
         s.start # Parser!NoRun, NEW e \in Nat, s.start <= e, e <= i,
         \A j \in e + 1 .. i : ~Named(t, j)
  PROVE  /\ WellCut(t, Parser!Closed(s, e), i)
         /\ \A m \in DOMAIN Parser!Closed(s, e) : Parser!Closed(s, e)[m].end <= e
         /\ \A j \in t.header + 1 .. i :
               Named(t, j) /\ Above(t, j) => InOne(Parser!Closed(s, e), j)
PROOF
  <1> DEFINE runs == Parser!Closed(s, e)
             n    == Len(s.runs)
             r    == Parser!Run(s.start, e)
  <1>1. /\ s.runs \in Seq([start : Nat, end : Int]) /\ s.start \in Nat
        /\ OpenRun(t, s, i)
    BY DEF ScanInv, ScanStates
  <1>2. r = [start |-> s.start, end |-> e] /\ r \in [start : Nat, end : Int]
    BY <1>1 DEF Parser!Run
  <1> HIDE DEF r
  <1>3. /\ n \in Nat /\ DOMAIN s.runs = 1 .. n /\ DOMAIN runs = 1 .. n + 1
        /\ \A m \in 1 .. n : runs[m] = s.runs[m] /\ runs[m] \in [start : Nat, end : Int]
        /\ runs[n + 1] = r
    <2>1. s.runs \in Seq([start : Nat, end : Int]) /\ runs = Append(s.runs, r)
      BY <1>1 DEF Parser!Closed, r
    <2> DEFINE R == [start : Nat, end : Int]
               q == s.runs
    <2>2. q \in Seq(R) /\ r \in R /\ runs = Append(q, r)
      BY <1>2, <2>1
    <2> HIDE DEF runs, R, q
    <2>3. /\ Len(q) \in Nat /\ DOMAIN q = 1 .. Len(q)
          /\ DOMAIN runs = 1 .. Len(q) + 1
          /\ \A m \in 1 .. Len(q) : runs[m] = q[m] /\ q[m] \in R
          /\ runs[Len(q) + 1] = r
      BY <2>2, Appended
    <2> QED
      BY <2>3 DEF R, q
  <1> HIDE DEF runs, n
  <1>4. \A m \in 1 .. n : runs[m].end < s.start /\ runs[m].end \in Int
    BY <1>1, <1>3 DEF OpenRun
  <1>5. Above(t, e)
    <2>1. Above(t, i)
      BY <1>1 DEF ScanInv, OpenRun
    <2> QED
      BY <2>1 DEF Above
  <1>6. Once(t, s.start, e)
    <2>1. Once(t, s.start, i)
      BY <1>1 DEF OpenRun
    <2> QED
      BY <1>1, <2>1 DEF Once
  <1>7. WellCut(t, runs, i)
    <2>1. ASSUME NEW m \in 1 .. n + 1
          PROVE  /\ t.header < runs[m].start /\ runs[m].start <= runs[m].end
                 /\ runs[m].end <= i
                 /\ Above(t, runs[m].end)
                 /\ Once(t, runs[m].start, runs[m].end)
                 /\ \A k \in 1 .. n + 1 : k < m => runs[k].end < runs[m].start
      <3>1. CASE m = n + 1
        BY <1>1, <1>2, <1>3, <1>4, <1>5, <1>6, <3>1 DEF OpenRun
      <3>2. CASE m # n + 1
        <4>1. m \in 1 .. n /\ \A k \in 1 .. n + 1 : k < m => k \in 1 .. n
          BY <1>3, <3>2
        <4> QED
          BY <1>3, <4>1 DEF ScanInv, WellCut
      <3> QED
        BY <3>1, <3>2
    <2> QED
      BY <1>3, <2>1 DEF WellCut
  <1>8. ASSUME NEW m \in DOMAIN runs PROVE runs[m].end <= e
    <2>1. CASE m \in 1 .. n
      BY <1>1, <1>3, <1>4, <2>1
    <2>2. CASE m = n + 1
      BY <1>2, <1>3, <2>2
    <2> QED
      BY <1>3, <2>1, <2>2
  <1>9. ASSUME NEW j \in t.header + 1 .. i, Named(t, j), Above(t, j)
        PROVE  InOne(runs, j)
    <2>1. CASE InOne(s.runs, j)
      <3>1. PICK m \in 1 .. n : j \in s.runs[m].start .. s.runs[m].end
        BY <1>3, <2>1 DEF InOne
      <3>2. m \in DOMAIN runs /\ runs[m] = s.runs[m]
        BY <1>3, <3>1
      <3> QED
        BY <3>1, <3>2 DEF InOne
    <2>2. CASE s.start <= j
      <3>1. j <= e
        BY <1>9
      <3>2. n + 1 \in DOMAIN runs /\ j \in r.start .. r.end
        BY <1>1, <1>2, <1>3, <2>2, <3>1
      <3> QED
        BY <1>3, <3>2 DEF InOne
    <2> QED
      BY <1>9, <2>1, <2>2 DEF ScanInv
  <1> QED
    BY <1>7, <1>8, <1>9 DEF runs

LEMMA EndsAreNumbers ==
  ASSUME NEW s \in ScanStates
  PROVE  \A m \in DOMAIN s.runs : s.runs[m].end \in Int
PROOF
  <1> DEFINE R == [start : Nat, end : Int]
             q == s.runs
  <1>1. q \in Seq(R)
    BY DEF ScanStates
  <1> HIDE DEF R, q
  <1>2. \A m \in DOMAIN q : q[m] \in R
    BY <1>1
  <1> QED
    BY <1>2 DEF R, q

\* A run to which the row belongs.
LEMMA OpenWith ==
  ASSUME NEW t, NEW i \in Nat, NEW s, s.footer = FALSE, s.blanks = 0, NEW from \in Nat,
         s.start = from,
         t.header < from, from <= i - s.blanks,
         \A m \in DOMAIN s.runs : s.runs[m].end < from,
         Once(t, from, i),
         \A j \in from .. i : Named(t, j) => Parser!Sku(t, j) \in s.seen
  PROVE  OpenRun(t, s, i)
  BY DEF OpenRun

LEMMA WellCutGoesOn ==
  ASSUME NEW t, NEW i \in Nat, NEW s \in ScanStates, WellCut(t, s.runs, i - 1)
  PROVE  WellCut(t, s.runs, i)
PROOF
  <1>1. \A m \in DOMAIN s.runs : s.runs[m].end \in Int
    BY EndsAreNumbers
  <1> QED
    BY <1>1 DEF WellCut

\* The five parts of the invariant; what is covered is either as it was or the
\* row itself.
LEMMA Goes ==
  ASSUME NEW t, t.header \in Nat, NEW i \in Nat, t.header < i, NEW s \in ScanStates,
         WellCut(t, s.runs, i), s.footer <=> ~Above(t, i),
         s.start # Parser!NoRun => OpenRun(t, s, i),
         \A j \in t.header + 1 .. i - 1 :
            Named(t, j) /\ Above(t, j) =>
                InOne(s.runs, j) \/ (s.start # Parser!NoRun /\ s.start <= j),
         Named(t, i) /\ Above(t, i) => s.start # Parser!NoRun /\ s.start <= i
  PROVE  ScanInv(t, s, i)
PROOF
  <1>1. \A j \in t.header + 1 .. i : j = i \/ j \in t.header + 1 .. i - 1
    OBVIOUS
  <1>2. \A j \in t.header + 1 .. i :
          Named(t, j) /\ Above(t, j) =>
              InOne(s.runs, j) \/ (s.start # Parser!NoRun /\ s.start <= j)
    BY <1>1
  <1> QED
    BY <1>2 DEF ScanInv

\* One step per kind of row: below the footer, the footer, blank, naming a
\* product.
LEMMA ScanStep ==
  ASSUME NEW t, IsTable(t), NEW i \in t.header + 1 .. Len(t.rows), NEW s,
         ScanInv(t, s, i - 1)
  PROVE  ScanInv(t, Scanned(t, i, s), i)
PROOF
  <1> DEFINE row  == t.rows[i]
             sku  == Parser!Sku(t, i)
             next == Scanned(t, i, s)
  <1>1. /\ t.header \in Nat /\ i \in Nat /\ i - 1 \in Nat /\ 1 <= t.header /\ t.header < i
        /\ i \in 1 .. Len(t.rows)
    BY DEF IsTable
  <1>2. s \in ScanStates /\ s.start \in Nat /\ s.blanks \in Nat
    BY DEF ScanInv, ScanStates
  <1>3. next \in ScanStates
    BY <1>1, <1>2, SkuIsText, ScannedRowType DEF Scanned
  <1>4. Above(t, i) <=> Above(t, i - 1) /\ ~Parser!Footer(row)
    BY <1>1, AboveGoesOn
  <1>5. WellCut(t, s.runs, i)
    BY <1>1, <1>2, WellCutGoesOn DEF ScanInv
  <1>6. \A j \in t.header + 1 .. i - 1 :
          Named(t, j) /\ Above(t, j) =>
              InOne(s.runs, j) \/ (s.start # Parser!NoRun /\ s.start <= j)
    BY DEF ScanInv
  <1> SUFFICES ScanInv(t, next, i)
    OBVIOUS
  <1> HIDE DEF row, next
  <1>7. CASE s.footer
    <2>1. next = s
      BY <1>7 DEF next, Scanned, Parser!ScannedRow
    <2>2. ~Above(t, i) /\ s.start = Parser!NoRun
      BY <1>4, <1>7 DEF ScanInv, OpenRun
    <2> QED
      BY <1>1, <1>2, <1>5, <1>6, <1>7, <2>1, <2>2, Goes
  <1>8. CASE ~s.footer /\ Parser!Footer(row)
    <2>1. /\ next.start = Parser!NoRun /\ next.footer = TRUE
          /\ next.runs = IF s.start = Parser!NoRun THEN s.runs ELSE Parser!Closed(s, i - 1)
      BY <1>2, <1>8 DEF next, Scanned, Parser!ScannedRow, row, ScanStates
    <2>2. ~Above(t, i)
      BY <1>4, <1>8
    <2>3. CASE s.start = Parser!NoRun
      BY <1>1, <1>3, <1>5, <1>6, <2>1, <2>2, <2>3, Goes
    <2>4. CASE s.start # Parser!NoRun
      <3>1. s.start <= i - 1
        BY <1>1, <1>2, <2>4 DEF ScanInv, OpenRun
      <3>2. /\ WellCut(t, next.runs, i - 1)
            /\ \A j \in t.header + 1 .. i - 1 :
                  Named(t, j) /\ Above(t, j) => InOne(next.runs, j)
        BY <1>1, <1>2, <2>1, <2>4, <3>1, Closing
      <3>3. WellCut(t, next.runs, i)
        BY <1>1, <1>3, <3>2, WellCutGoesOn
      <3> QED
        BY <1>1, <1>3, <2>1, <2>2, <3>2, <3>3, Goes
    <2> QED
      BY <2>3, <2>4
  <1>9. CASE ~s.footer /\ ~Parser!Footer(row) /\ sku = Parser!Blank
    <2> DEFINE ends == s.start # Parser!NoRun /\ s.blanks + 1 >= 2
    <2>1. Above(t, i) /\ ~Named(t, i)
      BY <1>4, <1>9 DEF ScanInv, Named
    <2>2. CASE ends
      <3>1. next = Parser!Scanning(Parser!Closed(s, i - (s.blanks + 1)), Parser!NoRun,
                                   s.blanks + 1, s.seen)
        BY <1>9, <2>2 DEF next, Scanned, Parser!ScannedRow, row
      <3>2. /\ next.runs = Parser!Closed(s, i - (s.blanks + 1))
            /\ next.start = Parser!NoRun /\ next.footer = FALSE
        BY <3>1 DEF Parser!Scanning
      <3>3. s.blanks = 1 /\ ~Named(t, i - 1) /\ s.start <= (i - 1) - 1
        BY <1>2, <2>2 DEF ScanInv, OpenRun
      <3> DEFINE e == i - (s.blanks + 1)
      <3>4. /\ e \in Nat /\ s.start <= e /\ e <= i - 1
            /\ \A j \in e + 1 .. i - 1 : j = i - 1
        BY <1>1, <1>2, <3>3
      <3> HIDE DEF e
      <3>5. /\ WellCut(t, next.runs, i - 1)
            /\ \A j \in t.header + 1 .. i - 1 :
                  Named(t, j) /\ Above(t, j) => InOne(next.runs, j)
        BY <1>1, <2>2, <3>2, <3>3, <3>4, Closing DEF e
      <3>6. WellCut(t, next.runs, i)
        BY <1>1, <1>3, <3>5, WellCutGoesOn
      <3> QED
        BY <1>1, <1>3, <2>1, <3>2, <3>5, <3>6, Goes
    <2>3. CASE ~ends
      <3>1. next = Parser!Scanning(s.runs, s.start, s.blanks + 1, s.seen)
        BY <1>9, <2>3 DEF next, Scanned, Parser!ScannedRow, row
      <3>2. /\ next.runs = s.runs /\ next.start = s.start /\ next.blanks = s.blanks + 1
            /\ next.seen = s.seen /\ next.footer = FALSE
        BY <3>1 DEF Parser!Scanning
      <3>3. ASSUME s.start # Parser!NoRun
            PROVE  OpenRun(t, next, i)
        <4>1. OpenRun(t, s, i - 1) /\ s.blanks = 0
          BY <1>2, <2>3, <3>3 DEF ScanInv, OpenRun
        <4>2. \A j \in s.start .. i : j = i \/ j \in s.start .. i - 1
          BY <1>1, <1>2
        <4>3. Once(t, s.start, i)
          BY <2>1, <4>1, <4>2 DEF OpenRun, Once, Named
        <4>4. next.start <= i - next.blanks
          BY <1>1, <1>2, <3>2, <4>1 DEF OpenRun
        <4> QED
          BY <2>1, <3>2, <4>1, <4>2, <4>3, <4>4 DEF OpenRun
      <3> QED
        BY <1>1, <1>3, <1>5, <1>6, <2>1, <3>2, <3>3, Goes
    <2> QED
      BY <2>2, <2>3
  <1>10. CASE ~s.footer /\ ~Parser!Footer(row) /\ sku # Parser!Blank
    <2> DEFINE again == s.start # Parser!NoRun /\ sku \in s.seen
    <2>1. Above(t, i) /\ Named(t, i)
      BY <1>4, <1>10 DEF ScanInv, Named
    <2>2. CASE again
      <3>1. next = Parser!Scanning(Parser!Closed(s, i - 1), i, 0, {sku})
        BY <1>10, <2>2 DEF next, Scanned, Parser!ScannedRow, row
      <3>2. /\ next.runs = Parser!Closed(s, i - 1) /\ next.start = i /\ next.blanks = 0
            /\ next.seen = {sku} /\ next.footer = FALSE
        BY <3>1 DEF Parser!Scanning
      <3>3. s.start <= i - 1
        BY <1>1, <1>2, <2>2 DEF ScanInv, OpenRun
      <3>4. /\ WellCut(t, next.runs, i - 1)
            /\ \A m \in DOMAIN next.runs : next.runs[m].end <= i - 1
            /\ \A j \in t.header + 1 .. i - 1 :
                  Named(t, j) /\ Above(t, j) => InOne(next.runs, j)
        BY <1>1, <1>2, <2>2, <3>2, <3>3, Closing
      <3>5. WellCut(t, next.runs, i)
        BY <1>1, <1>3, <3>4, WellCutGoesOn
      <3>6. OpenRun(t, next, i)
        <4>1. \A m \in DOMAIN next.runs : next.runs[m].end < next.start
          <5>1. \A m \in DOMAIN next.runs : next.runs[m].end \in Int
            BY <1>3, EndsAreNumbers
          <5> QED
            BY <1>1, <3>2, <3>4, <5>1
        <4>2. (\A j \in i .. i : j = i) /\ i <= i - next.blanks
          BY <1>1, <3>2
        <4>3. Once(t, next.start, i)
          BY <3>2, <4>2 DEF Once
        <4>4. \A j \in next.start .. i : Parser!Sku(t, j) \in next.seen
          BY <3>2, <4>2
        <4> QED
          BY <1>1, <3>2, <4>1, <4>2, <4>3, <4>4, OpenWith
      <3>7. i <= i
        BY <1>1
      <3> QED
        BY <1>1, <1>3, <2>1, <3>2, <3>4, <3>5, <3>6, <3>7, Goes DEF Parser!NoRun
    <2>3. CASE ~again
      <3> DEFINE from == IF s.start = Parser!NoRun THEN i ELSE s.start
      <3>1. next = Parser!Scanning(s.runs, from, 0, s.seen \cup {sku})
        BY <1>10, <2>3 DEF next, Scanned, Parser!ScannedRow, row
      <3>2. /\ next.runs = s.runs /\ next.start = from /\ next.blanks = 0
            /\ next.seen = s.seen \cup {sku} /\ next.footer = FALSE
        BY <3>1 DEF Parser!Scanning
      <3>3. CASE s.start = Parser!NoRun
        <4>1. \A m \in DOMAIN s.runs : s.runs[m].end < i
          <5>1. \A m \in DOMAIN s.runs : s.runs[m].end \in Int /\ s.runs[m].end <= i - 1
            BY <1>2, EndsAreNumbers DEF ScanInv, WellCut
          <5> QED
            BY <1>1, <5>1
        <4>2. (\A j \in i .. i : j = i) /\ i <= i /\ i <= i - next.blanks
          BY <1>1, <3>2
        <4>3. OpenRun(t, next, i)
          <5>1. next.start = i
            BY <3>2, <3>3
          <5>2. Once(t, next.start, i)
            BY <4>2, <5>1 DEF Once
          <5>3. \A j \in next.start .. i : Parser!Sku(t, j) \in next.seen
            BY <3>2, <4>2, <5>1
          <5> QED
            BY <1>1, <3>2, <4>1, <4>2, <5>1, <5>2, <5>3, OpenWith
        <4> QED
          BY <1>1, <1>3, <1>5, <1>6, <2>1, <3>2, <3>3, <4>2, <4>3, Goes DEF Parser!NoRun
      <3>4. CASE s.start # Parser!NoRun
        <4>1. OpenRun(t, s, i - 1) /\ sku \notin s.seen
          BY <2>3, <3>4 DEF ScanInv
        <4>2. s.start <= i /\ s.start <= i - next.blanks
          BY <1>1, <1>2, <3>2, <4>1 DEF OpenRun
        <4>3. \A j \in s.start .. i : j = i \/ j \in s.start .. i - 1
          BY <1>1, <1>2
        <4>4. Once(t, s.start, i)
          BY <4>1, <4>3 DEF OpenRun, Once, Named
        <4>5. OpenRun(t, next, i)
          <5>1. next.start = s.start
            BY <3>2, <3>4
          <5>2. ASSUME NEW j \in s.start .. i, Named(t, j)
                PROVE  Parser!Sku(t, j) \in next.seen
            BY <3>2, <4>1, <4>3, <5>2 DEF OpenRun
          <5>3. t.header < s.start /\ \A m \in DOMAIN next.runs : next.runs[m].end < s.start
            BY <3>2, <4>1 DEF OpenRun
          <5> QED
            BY <1>1, <1>2, <3>2, <4>2, <4>4, <5>1, <5>2, <5>3, OpenWith
        <4> QED
          BY <1>1, <1>3, <1>5, <1>6, <2>1, <3>2, <3>4, <4>2, <4>5, Goes
      <3> QED
        BY <3>3, <3>4
    <2> QED
      BY <2>2, <2>3
  <1> QED
    BY <1>7, <1>8, <1>9, <1>10 DEF next

LEMMA ScanHolds ==
  ASSUME NEW t, IsTable(t), NEW f, IsScan(t, f)
  PROVE  ScanInv(t, f[Len(t.rows)], Len(t.rows))
PROOF
  <1> DEFINE h == t.header
             n == Len(t.rows)
             S == {i \in h .. n : ScanInv(t, f[i], i)}
  <1>1. h \in Nat /\ n \in Nat /\ h <= n
    BY DEF IsTable
  <1>2. \A i \in h .. n : f[i] = IF i = h THEN Nothing ELSE Scanned(t, i, f[i - 1])
    BY DEF IsScan
  <1>3. ScanInv(t, Nothing, h)
    <2>1. /\ Nothing.runs = <<>> /\ Nothing.start = Parser!NoRun /\ Nothing.footer = FALSE
          /\ Nothing \in ScanStates
      BY DEF Nothing, Parser!Scanning, Parser!NoRun, ScanStates
    <2>2. \A j \in h + 1 .. h : FALSE
      BY <1>1
    <2>3. WellCut(t, Nothing.runs, h)
      BY <2>1 DEF WellCut
    <2> QED
      BY <2>1, <2>2, <2>3 DEF ScanInv, Above
  <1> HIDE DEF n
  <1>4. h \in S
    BY <1>1, <1>2, <1>3
  <1>5. ASSUME NEW i \in h + 1 .. n, i - 1 \in S PROVE i \in S
    <2>1. i \in h .. n /\ i # h
      BY <1>1
    <2>2. ScanInv(t, f[i - 1], i - 1)
      BY <1>5
    <2>3. ScanInv(t, Scanned(t, i, f[i - 1]), i)
      BY <2>2, ScanStep DEF n
    <2> QED
      BY <1>2, <2>1, <2>3
  <1> HIDE DEF S
  <1>6. h .. n \subseteq S
    BY <1>1, <1>4, <1>5, Upwards
  <1>7. n \in S
    BY <1>1, <1>6
  <1> QED
    BY <1>7 DEF S, n

(* For any sheet, the runs its table is cut into are in order, none of them   *)
(* empty, each below the header and above the footer with no product twice,   *)
(* and they leave out no row that names a product (findQuoteRuns): the filter *)
(* extractSheet and countSheetScenarios put after it drops nothing, so the    *)
(* numbers a scenario's name is made of are without gaps.                     *)
THEOREM TableIsCut ==
  ASSUME NEW t, IsTable(t)
  PROVE  /\ WellCut(t, Parser!QuoteRuns(t), Len(t.rows))
         /\ \A j \in t.header + 1 .. Len(t.rows) :
               Named(t, j) /\ Above(t, j) => InOne(Parser!QuoteRuns(t), j)
         /\ \A m \in DOMAIN Parser!QuoteRuns(t) :
               /\ m \in Nat /\ Parser!QuoteRuns(t)[m].start \in Nat
               /\ Parser!QuoteRuns(t)[m].end \in Int
PROOF
  <1> DEFINE n    == Len(t.rows)
             runs == Parser!QuoteRuns(t)
  <1>1. t.header \in Nat /\ n \in Nat
    BY DEF IsTable
  <1>2. PICK f : /\ IsScan(t, f)
                 /\ runs = IF f[n].start = Parser!NoRun THEN f[n].runs
                           ELSE Parser!Closed(f[n], n)
    BY QuoteRunsScans
  <1> DEFINE s == f[n]
  <1>3. ScanInv(t, s, n)
    BY <1>2, ScanHolds
  <1>4. s \in ScanStates
    BY <1>3 DEF ScanInv
  <1> HIDE DEF s, n, runs
  <1>5. WellCut(t, runs, n) /\ \A j \in t.header + 1 .. n :
                                  Named(t, j) /\ Above(t, j) => InOne(runs, j)
    <2>1. CASE s.start = Parser!NoRun
      BY <1>2, <1>3, <2>1 DEF ScanInv, s
    <2>2. CASE s.start # Parser!NoRun
      <3>1. s.start <= n /\ \A j \in n + 1 .. n : FALSE
        BY <1>1, <1>3, <1>4, <2>2 DEF ScanInv, OpenRun, ScanStates
      <3>2. runs = Parser!Closed(s, n)
        BY <1>2, <2>2 DEF s
      <3> QED
        BY <1>1, <1>3, <2>2, <3>1, <3>2, Closing
    <2> QED
      BY <2>1, <2>2
  <1>6. runs \in Seq([start : Nat, end : Int])
    <2>1. Parser!Closed(s, n) \in Seq([start : Nat, end : Int])
      BY <1>1, <1>4 DEF Parser!Closed, Parser!Run, ScanStates
    <2>2. s.runs \in Seq([start : Nat, end : Int])
      BY <1>4 DEF ScanStates
    <2> QED
      BY <1>2, <2>1, <2>2 DEF s
  <1>7. \A m \in DOMAIN runs : m \in Nat /\ runs[m].start \in Nat /\ runs[m].end \in Int
    <2> DEFINE R == [start : Nat, end : Int]
    <2>1. \A m \in DOMAIN runs : m \in Nat /\ runs[m] \in R
      <3>1. runs \in Seq(R)
        BY <1>6
      <3> HIDE DEF R
      <3> QED
        BY <3>1
    <2> QED
      BY <2>1
  <1> QED
    BY <1>5, <1>7 DEF n, runs

------------------------------------------------------------------------------
(* The header of a sheet *)


\* Reading the cell of column c, after those before it gave d.
Found(row, c, d) == {r \in Parser!RolesNamed(row[c]) : d.columns[r] <= 1}
Column(row, c, d) ==
    [columns |-> [r \in Parser!Roles |-> IF r \in Found(row, c, d) THEN c ELSE d.columns[r]],
     score   |-> d.score + Parser!Cardinality(Found(row, c, d))
                 + (IF "sku" \in Found(row, c, d) THEN 2 ELSE 0)]
Unread == [columns |-> [r \in Parser!Roles |-> 0], score |-> 0]
Headings == [columns : [Parser!Roles -> Nat], score : Nat]

IsRead(row, f) ==
    f = [c \in 0 .. Len(row) |-> IF c = 0 THEN Unread ELSE Column(row, c, f[c - 1])]

\* The instance counts as this module does.
LEMMA ParserCounts ==
  ASSUME NEW S
  PROVE  Parser!Cardinality(S) = Cardinality(S)
  BY DEF Parser!Cardinality, Cardinality, Parser!IsFiniteSet, IsFiniteSet

LEMMA RolesAreFinite ==
  ASSUME NEW S, S \subseteq Parser!Roles
  PROVE  Parser!Cardinality(S) \in Nat
PROOF
  <1>1. IsFiniteSet(Parser!Roles)
    <2>1. /\ IsFiniteSet({}) /\ IsFiniteSet({} \cup {"sku"})
          /\ IsFiniteSet(({} \cup {"sku"}) \cup {"description"})
          /\ IsFiniteSet((({} \cup {"sku"}) \cup {"description"}) \cup {"quantity"})
          /\ IsFiniteSet(((({} \cup {"sku"}) \cup {"description"}) \cup {"quantity"})
                         \cup {"unitPrice"})
          /\ IsFiniteSet((((({} \cup {"sku"}) \cup {"description"}) \cup {"quantity"})
                         \cup {"unitPrice"}) \cup {"total"})
      BY FS_EmptySet, FS_AddElement
    <2>2. Parser!Roles = (((({} \cup {"sku"}) \cup {"description"}) \cup {"quantity"})
                         \cup {"unitPrice"}) \cup {"total"}
      BY DEF Parser!Roles
    <2> QED
      BY <2>1, <2>2
  <1>2. IsFiniteSet(S)
    BY <1>1, FS_Subset
  <1> QED
    BY <1>2, ParserCounts, FS_CardinalityType

LEMMA RolesNamedAreRoles ==
  \A text : Parser!RolesNamed(text) \subseteq Parser!Roles
BY DEF Parser!RolesNamed, Parser!Aliased, Parser!Roles, Parser!PriceTexts

LEMMA ColumnType ==
  ASSUME NEW row, NEW c \in Nat, NEW d \in Headings
  PROVE  Column(row, c, d) \in Headings
PROOF
  <1>1. Found(row, c, d) \subseteq Parser!Roles
    BY RolesNamedAreRoles DEF Found
  <1>2. Parser!Cardinality(Found(row, c, d)) \in Nat
    BY <1>1, RolesAreFinite
  <1>3. d.score \in Nat /\ \A r \in Parser!Roles : d.columns[r] \in Nat
    BY DEF Headings
  <1> DEFINE score == d.score + Parser!Cardinality(Found(row, c, d))
                      + (IF "sku" \in Found(row, c, d) THEN 2 ELSE 0)
             columns == [r \in Parser!Roles |-> IF r \in Found(row, c, d) THEN c
                                                ELSE d.columns[r]]
  <1>4. score \in Nat
    BY <1>2, <1>3
  <1>5. columns \in [Parser!Roles -> Nat]
    BY <1>3
  <1>6. Column(row, c, d) = [columns |-> columns, score |-> score]
    BY DEF Column
  <1> HIDE DEF score, columns
  <1> QED
    BY <1>4, <1>5, <1>6 DEF Headings

\* Reading a row from left to right ends, whatever its cells.
LEMMA ReadingExists ==
  ASSUME NEW row \in Seq(STRING)
  PROVE  \E f : IsRead(row, f) /\ f \in [0 .. Len(row) -> Headings]
PROOF
  <1> DEFINE n == Len(row)
             F == [p \in (0 + 1 .. n) \X Headings |-> Column(row, p[1], p[2])]
  <1>1. n \in Nat /\ 0 <= n /\ 0 \in Nat
    OBVIOUS
  <1>2. \A c \in 0 + 1 .. n, d \in Headings : Column(row, c, d) \in Headings
    BY ColumnType
  <1>3. F \in [(0 + 1 .. n) \X Headings -> Headings]
    BY <1>2
  <1>4. Unread \in Headings
    BY DEF Unread, Headings
  <1>5. \A c \in 0 + 1 .. n, d \in Headings : F[<<c, d>>] = Column(row, c, d)
    OBVIOUS
  <1> HIDE DEF n, F
  <1>6. PICK g : Iterates(g, 0, n, Headings, Unread, F)
    BY <1>1, <1>3, <1>4, IteratesExists
  <1>7. ASSUME NEW c \in 0 .. n
        PROVE  g[c] = IF c = 0 THEN Unread ELSE Column(row, c, g[c - 1])
    <2>1. CASE c = 0
      BY <1>6, <2>1 DEF Iterates
    <2>2. CASE c # 0
      <3>1. c \in 0 + 1 .. n /\ c - 1 \in 0 .. n
        BY <1>1, <2>2
      <3>2. g[c - 1] \in Headings /\ g[c] = F[<<c, g[c - 1]>>]
        BY <1>6, <3>1 DEF Iterates
      <3> QED
        BY <1>5, <2>2, <3>1, <3>2
    <2> QED
      BY <2>1, <2>2
  <1>8. g = [c \in 0 .. n |-> g[c]] /\ g \in [0 .. n -> Headings]
    BY <1>6 DEF Iterates
  <1>9. g = [c \in 0 .. n |-> IF c = 0 THEN Unread ELSE Column(row, c, g[c - 1])]
    BY <1>7, <1>8
  <1> QED
    BY <1>8, <1>9 DEF IsRead, n

\* So what a row names has a score.
LEMMA DiscoveredType ==
  ASSUME NEW row \in Seq(STRING)
  PROVE  Parser!Discovered(row) \in Headings
PROOF
  <1> DEFINE f == CHOOSE g : IsRead(row, g)
             n == Len(row)
             S == {c \in 0 .. n : f[c] \in Headings}
  <1>1. IsRead(row, f)
    BY ReadingExists
  <1>2. Parser!Discovered(row) = f[n]
    BY DEF Parser!Discovered, IsRead, Unread, Column, Found
  <1>3. n \in Nat
    OBVIOUS
  <1> HIDE DEF f
  <1>4. \A c \in 0 .. n : f[c] = IF c = 0 THEN Unread ELSE Column(row, c, f[c - 1])
    BY <1>1 DEF IsRead
  <1> HIDE DEF n
  <1>5. 0 \in S
    <2>1. Unread \in Headings
      BY DEF Unread, Headings
    <2> QED
      BY <1>3, <1>4, <2>1
  <1>6. ASSUME NEW c \in 0 + 1 .. n, c - 1 \in S PROVE c \in S
    <2>1. c \in Nat /\ c \in 0 .. n /\ c # 0 /\ f[c - 1] \in Headings
      BY <1>6
    <2>2. Column(row, c, f[c - 1]) \in Headings
      BY <2>1, ColumnType
    <2> QED
      BY <1>4, <2>1, <2>2
  <1> HIDE DEF S
  <1>7. 0 .. n \subseteq S
    BY <1>3, <1>5, <1>6, Upwards
  <1>8. n \in S
    BY <1>3, <1>7
  <1> QED
    BY <1>2, <1>8 DEF S

\* Of the rows that score, one scores best and comes first.
LEMMA FirstBest ==
  ASSUME NEW n \in Nat, NEW score \in [1 .. n -> Nat], NEW T \in SUBSET (1 .. n), T # {}
  PROVE  \E i \in T : \A j \in T :
             score[i] > score[j] \/ (score[i] = score[j] /\ i <= j)
PROOF
  <1> DEFINE Best(i, m) == \A j \in T : j <= m =>
                 score[i] > score[j] \/ (score[i] = score[j] /\ i <= j)
             S == {m \in 0 .. n : (\E j \in T : j <= m) => \E i \in T : i <= m /\ Best(i, m)}
  <1>1. 0 \in S
    OBVIOUS
  <1>2. ASSUME NEW m \in 0 + 1 .. n, m - 1 \in S PROVE m \in S
    <2>1. SUFFICES ASSUME \E j \in T : j <= m
                   PROVE  \E i \in T : i <= m /\ Best(i, m)
      OBVIOUS
    <2>2. m \in 1 .. n /\ \A j \in T : /\ j \in 1 .. n /\ score[j] \in Nat
                                       /\ j <= m => j = m \/ j <= m - 1
      OBVIOUS
    <2>3. CASE ~\E j \in T : j <= m - 1
      <3>1. m \in T /\ \A j \in T : j <= m => j = m
        BY <2>1, <2>2, <2>3
      <3>2. Best(m, m) /\ m <= m
        BY <2>2, <3>1
      <3> QED
        BY <3>1, <3>2
    <2>4. CASE \E j \in T : j <= m - 1
      <3>1. PICK i \in T : i <= m - 1 /\ Best(i, m - 1)
        BY <1>2, <2>4
      <3>2. CASE m \in T /\ score[m] > score[i]
        <4>1. ASSUME NEW j \in T, j <= m
              PROVE  score[m] > score[j] \/ (score[m] = score[j] /\ m <= j)
          BY <2>2, <3>1, <3>2, <4>1
        <4>2. m <= m
          BY <2>2
        <4> QED
          BY <3>2, <4>1, <4>2
      <3>3. CASE ~(m \in T /\ score[m] > score[i])
        <4>1. ASSUME NEW j \in T, j <= m
              PROVE  score[i] > score[j] \/ (score[i] = score[j] /\ i <= j)
          BY <2>2, <3>1, <3>3, <4>1
        <4>2. i <= m
          BY <2>2, <3>1
        <4> QED
          BY <4>1, <4>2
      <3> QED
        BY <3>2, <3>3
    <2> QED
      BY <2>3, <2>4
  <1> HIDE DEF S
  <1>3. 0 .. n \subseteq S
    BY <1>1, <1>2, Upwards
  <1>4. n \in S
    BY <1>3
  <1>5. \A j \in T : j <= n
    OBVIOUS
  <1> QED
    BY <1>4, <1>5 DEF S

\* A header, when there is one, is among the rows.
LEMMA HeaderIsARow ==
  ASSUME NEW grid \in Seq(Seq(STRING))
  PROVE  Parser!HeaderRow(grid) \in 0 .. Len(grid)
PROOF
  <1> DEFINE n        == Len(grid)
             score(i) == Parser!Discovered(grid[i]).score
             scored   == {i \in DOMAIN grid : i <= HeaderWindow /\ score(i) > 0}
             first    == CHOOSE i \in scored : \A j \in scored :
                             score(i) > score(j) \/ (score(i) = score(j) /\ i <= j)
  <1>1. n \in Nat /\ DOMAIN grid = 1 .. n /\ \A i \in 1 .. n : grid[i] \in Seq(STRING)
    OBVIOUS
  <1>2. \A i \in 1 .. n : score(i) \in Nat
    BY <1>1, DiscoveredType DEF Headings
  <1>3. scored \in SUBSET (1 .. n)
    BY <1>1
  <1>4. Parser!HeaderRow(grid) = IF scored = {} THEN 0 ELSE first
    BY Zenon DEF Parser!HeaderRow
  <1>5. scored # {} => first \in scored
    <2> DEFINE f == [i \in 1 .. n |-> score(i)]
    <2> HIDE DEF score, n, scored
    <2>1. SUFFICES ASSUME scored # {}
                   PROVE  \E i \in scored : \A j \in scored :
                              score(i) > score(j) \/ (score(i) = score(j) /\ i <= j)
      OBVIOUS
    <2>2. f \in [1 .. n -> Nat] /\ \A i \in scored : f[i] = score(i)
      BY <1>2, <1>3
    <2> HIDE DEF f
    <2>3. \E i \in scored : \A j \in scored : f[i] > f[j] \/ (f[i] = f[j] /\ i <= j)
      BY <1>1, <1>3, <2>1, <2>2, FirstBest
    <2> QED
      BY <2>2, <2>3
  <1> HIDE DEF n, scored, first
  <1>6. 0 \in 0 .. n /\ 1 .. n \subseteq 0 .. n
    BY <1>1
  <1>7. Parser!HeaderRow(grid) \in 0 .. n
    BY <1>3, <1>4, <1>5, <1>6
  <1> QED
    BY <1>7 DEF n

------------------------------------------------------------------------------
(* What the scenarios of a sheet hold *)

\* A table with products is a table the scan can begin in.
LEMMA ProductsUnderAHeader ==
  ASSUME NEW grid \in Seq(Seq(STRING)), Parser!HasProducts(Parser!Table(grid))
  PROVE  IsTable(Parser!Table(grid)) /\ Parser!Table(grid).rows = grid
PROOF
  <1> DEFINE t == Parser!Table(grid)
  <1>1. t.rows = grid /\ t.header = Parser!HeaderRow(grid)
    BY DEF Parser!Table
  <1>2. t.header # 0
    <2>1. t.columns["sku"] # 0
      BY DEF Parser!HasProducts
    <2>2. "sku" \in Parser!Roles
      BY DEF Parser!Roles
    <2> QED
      BY <2>1, <2>2 DEF Parser!Table
  <1>3. Len(grid) \in Nat /\ Parser!HeaderRow(grid) \in 0 .. Len(grid)
    BY HeaderIsARow
  <1> QED
    BY <1>1, <1>2, <1>3 DEF IsTable

\* The rows a scenario of a run has lines of.
Held(t, run) == {line.row : line \in Parser!Scenario(t, run).lines}

\* The rows of a scenario's lines: those of its run that name a product.
LEMMA HeldRows ==
  ASSUME NEW t, NEW run
  PROVE  Held(t, run) = {i \in Parser!Within(run) : Named(t, i)}
PROOF
  <1> DEFINE J       == {i \in Parser!Within(run) : Named(t, i)}
             line(i) == Parser!Line(t, i, Parser!Conflict(t, run))
  <1>1. Parser!Scenario(t, run).lines = {line(i) : i \in J}
    BY DEF Parser!Scenario, Named
  <1>2. \A i \in J : line(i).row = i
    BY DEF Parser!Line
  <1> HIDE DEF line, J
  <1>3. Held(t, run) = J
    BY <1>1, <1>2 DEF Held
  <1> QED
    BY <1>3 DEF J

\* Each product row is in one run, and a run has no other row, nor a product
\* twice.
SheetCut(t, runs) ==
    /\ \A i \in Parser!ProductRows(t) :
          \E m \in DOMAIN runs : /\ i \in Held(t, runs[m])
                                 /\ \A k \in DOMAIN runs : i \in Held(t, runs[k]) => k = m
    /\ \A m \in DOMAIN runs : /\ Held(t, runs[m]) \subseteq Parser!ProductRows(t)
                              /\ Parser!NamedOnce(t, Held(t, runs[m]))

\* What the property says of a row is what the scan looks at.
LEMMA ProductRowsOfTable ==
  ASSUME NEW t, IsTable(t), Parser!HasProducts(t)
  PROVE  Parser!ProductRows(t) =
             {i \in t.header + 1 .. Len(t.rows) : Named(t, i) /\ Above(t, i)}
PROOF
  <1> DEFINE grid == t.rows
  <1>1. grid \in Seq(Seq(STRING)) /\ t.header \in 1 .. Len(grid)
    BY DEF IsTable
  <1>2. DOMAIN grid = 1 .. Len(grid) /\ Len(grid) \in Nat
    BY <1>1
  <1> HIDE DEF grid
  <1>3. \A i : i \in DOMAIN grid /\ i > t.header <=> i \in t.header + 1 .. Len(grid)
    BY <1>1, <1>2
  <1> QED
    BY <1>3 DEF grid, Parser!ProductRows, Named, Above

LEMMA SheetIsCut ==
  ASSUME NEW grid \in Seq(Seq(STRING))
  PROVE  SheetCut(Parser!Table(grid), Parser!SheetRuns(Parser!Table(grid)))
PROOF
  <1> DEFINE t    == Parser!Table(grid)
             runs == Parser!SheetRuns(t)
             n    == Len(t.rows)
  <1>1. CASE ~Parser!HasProducts(t)
    <2>1. DOMAIN runs = {} /\ Parser!ProductRows(t) = {}
      BY <1>1 DEF Parser!SheetRuns, Parser!ProductRows
    <2> HIDE DEF t, runs
    <2>2. SheetCut(t, runs)
      BY <2>1 DEF SheetCut
    <2> QED
      BY <2>2 DEF t, runs
  <1>2. CASE Parser!HasProducts(t)
    <2>1. IsTable(t)
      BY <1>2, ProductsUnderAHeader
    <2>2. runs = Parser!QuoteRuns(t)
      BY <1>2 DEF Parser!SheetRuns
    <2> HIDE DEF t, runs, n
    <2>3. t.header \in Nat /\ n \in Nat
      BY <2>1 DEF IsTable, n
    <2>4. /\ WellCut(t, runs, n)
          /\ \A j \in t.header + 1 .. n : Named(t, j) /\ Above(t, j) => InOne(runs, j)
          /\ \A m \in DOMAIN runs : m \in Nat /\ runs[m].start \in Nat /\ runs[m].end \in Int
      BY <2>1, <2>2, TableIsCut DEF n
    <2>5. Parser!ProductRows(t) = {i \in t.header + 1 .. n : Named(t, i) /\ Above(t, i)}
      BY <1>2, <2>1, ProductRowsOfTable DEF n
    <2>6. \A m \in DOMAIN runs :
            Held(t, runs[m]) = {i \in runs[m].start .. runs[m].end : Named(t, i)}
      BY HeldRows DEF Parser!Within
    <2>7. ASSUME NEW i \in Parser!ProductRows(t)
          PROVE  \E m \in DOMAIN runs :
                    /\ i \in Held(t, runs[m])
                    /\ \A k \in DOMAIN runs : i \in Held(t, runs[k]) => k = m
      <3>1. PICK m \in DOMAIN runs : i \in runs[m].start .. runs[m].end
        BY <2>4, <2>5 DEF InOne
      <3>2. i \in Held(t, runs[m])
        BY <2>5, <2>6, <3>1
      <3>3. ASSUME NEW k \in DOMAIN runs, i \in Held(t, runs[k])
            PROVE  k = m
        <4>1. i \in runs[k].start .. runs[k].end
          BY <2>6, <3>3
        <4>2. ~(k < m) /\ ~(m < k)
          BY <2>3, <2>4, <3>1, <4>1 DEF WellCut
        <4> QED
          BY <2>4, <4>2
      <3> QED
        BY <3>2, <3>3
    <2>8. ASSUME NEW m \in DOMAIN runs
          PROVE  /\ Held(t, runs[m]) \subseteq Parser!ProductRows(t)
                 /\ Parser!NamedOnce(t, Held(t, runs[m]))
      <3>1. /\ t.header < runs[m].start /\ runs[m].end <= n
            /\ Above(t, runs[m].end) /\ Once(t, runs[m].start, runs[m].end)
        BY <2>4 DEF WellCut
      <3>2. ASSUME NEW i \in Held(t, runs[m])
            PROVE  i \in Parser!ProductRows(t)
        <4>1. i \in t.header + 1 .. n /\ Named(t, i)
          BY <2>3, <2>4, <2>6, <3>1
        <4>2. \A j \in t.header + 1 .. i : j \in t.header + 1 .. runs[m].end
          <5>1. i \in runs[m].start .. runs[m].end /\ runs[m].end \in Int
            BY <2>4, <2>6
          <5> QED
            BY <2>3, <5>1
        <4>3. Above(t, i)
          BY <3>1, <4>2 DEF Above
        <4> QED
          BY <2>5, <4>1, <4>3
      <3>3. Parser!NamedOnce(t, Held(t, runs[m]))
        BY <2>6, <3>1 DEF Once, Parser!NamedOnce
      <3> QED
        BY <3>2, <3>3
    <2>9. SheetCut(t, runs)
      BY <2>7, <2>8 DEF SheetCut
    <2> QED
      BY <2>9 DEF t, runs
  <1> QED
    BY <1>1, <1>2

\* A scenario of the workbook is a run of one of its visible sheets.
LEMMA ScenariosOfSheets ==
  ASSUME NEW book \in Seq(Parser!Sheets)
  PROVE  LET runs(k) == Parser!SheetRuns(Parser!Table(book[k].rows))
         IN /\ \A at : at \in DOMAIN Parser!ParsedWorkbook(book) <=>
                  \E k \in DOMAIN book :
                      book[k].visible /\ \E m \in DOMAIN runs(k) : at = <<k, m>>
            /\ \A k \in DOMAIN book : book[k].visible => \A m \in DOMAIN runs(k) :
                  Parser!ParsedWorkbook(book)[<<k, m>>] =
                      Parser!Scenario(Parser!Table(book[k].rows), runs(k)[m])
PROOF
  <1> DEFINE visible == {k \in DOMAIN book : book[k].visible}
             table   == [k \in visible |-> Parser!Table(book[k].rows)]
             runs    == [k \in visible |-> Parser!SheetRuns(table[k])]
             places  == UNION {{k} \X DOMAIN runs[k] : k \in visible}
             own(k)  == Parser!SheetRuns(Parser!Table(book[k].rows))
  <1>1. Parser!ParsedWorkbook(book) =
          [at \in places |-> Parser!Scenario(table[at[1]], runs[at[1]][at[2]])]
    BY DEF Parser!ParsedWorkbook
  <1>2. \A k \in visible : table[k] = Parser!Table(book[k].rows) /\ runs[k] = own(k)
    OBVIOUS
  <1> HIDE DEF table, runs, own
  <1>3. \A at : at \in places <=> \E k \in visible : \E m \in DOMAIN own(k) : at = <<k, m>>
    <2>1. \A at : at \in places <=> \E k \in visible : at \in {k} \X DOMAIN own(k)
      BY <1>2
    <2>2. \A at, k : at \in {k} \X DOMAIN own(k) <=> \E m \in DOMAIN own(k) : at = <<k, m>>
      OBVIOUS
    <2> HIDE DEF places, visible
    <2> QED
      BY <2>1, <2>2
  <1>4. ASSUME NEW k \in visible, NEW m \in DOMAIN own(k)
        PROVE  Parser!ParsedWorkbook(book)[<<k, m>>] =
                   Parser!Scenario(Parser!Table(book[k].rows), own(k)[m])
    <2>1. <<k, m>> \in places
      BY <1>3
    <2> HIDE DEF places
    <2>2. Parser!ParsedWorkbook(book)[<<k, m>>] = Parser!Scenario(table[k], runs[k][m])
      BY <1>1, <2>1
    <2> QED
      BY <1>2, <2>2
  <1>5. DOMAIN Parser!ParsedWorkbook(book) = places
    BY <1>1
  <1> HIDE DEF places
  <1> QED
    BY <1>3, <1>4, <1>5 DEF own

\* The property's own words, for a workbook that is given.
HeldAt(book) == [at \in DOMAIN Parser!ParsedWorkbook(book) |->
                    {line.row : line \in Parser!ParsedWorkbook(book)[at].lines}]
OwnOf(book, k)  == {at \in DOMAIN HeldAt(book) : at[1] = k}
RowsOf(book, k) ==
    IF book[k].visible THEN Parser!ProductRows(Parser!Table(book[k].rows)) ELSE {}

\* The property, for one sheet of a workbook.
LEMMA WorkbookIsCut ==
  ASSUME NEW book \in Seq(Parser!Sheets), NEW k \in DOMAIN book
  PROVE  /\ \A i \in RowsOf(book, k) :
               Parser!Cardinality({at \in OwnOf(book, k) : i \in HeldAt(book)[at]}) = 1
         /\ \A at \in OwnOf(book, k) :
               /\ HeldAt(book)[at] \subseteq RowsOf(book, k)
               /\ Parser!NamedOnce(Parser!Table(book[k].rows), HeldAt(book)[at])
PROOF
  <1> DEFINE t    == Parser!Table(book[k].rows)
             runs == Parser!SheetRuns(t)
             own  == OwnOf(book, k)
  <1>1. book[k] \in Parser!Sheets
    OBVIOUS
  <1>2. book[k].rows \in Seq(Seq(STRING))
    BY <1>1 DEF Parser!Sheets
  <1>3. SheetCut(t, runs)
    BY <1>2, SheetIsCut
  <1>6. \A at : at \in own <=> book[k].visible /\ \E m \in DOMAIN runs : at = <<k, m>>
    <2>1. \A at : at \in own <=> at \in DOMAIN Parser!ParsedWorkbook(book) /\ at[1] = k
      BY DEF OwnOf, HeldAt
    <2> DEFINE runsOf(j) == Parser!SheetRuns(Parser!Table(book[j].rows))
    <2>2. \A at : at \in DOMAIN Parser!ParsedWorkbook(book) <=>
            \E j \in DOMAIN book :
                book[j].visible /\ \E m \in DOMAIN runsOf(j) : at = <<j, m>>
      BY ScenariosOfSheets
    <2>3. runsOf(k) = runs
      OBVIOUS
    <2> HIDE DEF own, runs, runsOf
    <2>4. \A at, j, m : at = <<j, m>> => at[1] = j
      OBVIOUS
    <2> QED
      BY <2>1, <2>2, <2>3, <2>4
  <1>4. CASE ~book[k].visible
    <2>1. own = {}
      BY <1>4, <1>6
    <2> QED
      BY <1>4, <2>1 DEF RowsOf
  <1>5. CASE book[k].visible
    <2>1. \A at : at \in own <=> \E m \in DOMAIN runs : at = <<k, m>>
      BY <1>5, <1>6
    <2>2. \A m \in DOMAIN runs : HeldAt(book)[<<k, m>>] = Held(t, runs[m])
      BY <1>5, <2>1, ScenariosOfSheets DEF OwnOf, HeldAt, Held
    <2>3. RowsOf(book, k) = Parser!ProductRows(t)
      BY <1>5 DEF RowsOf
    <2> HIDE DEF t, runs, own
    <2>4. ASSUME NEW i \in RowsOf(book, k)
          PROVE  Parser!Cardinality({at \in own : i \in HeldAt(book)[at]}) = 1
      <3>1. PICK m \in DOMAIN runs : /\ i \in Held(t, runs[m])
                                     /\ \A n \in DOMAIN runs : i \in Held(t, runs[n]) => n = m
        BY <1>3, <2>3 DEF SheetCut
      <3>2. {at \in own : i \in HeldAt(book)[at]} = {<<k, m>>}
        BY <2>1, <2>2, <3>1
      <3> QED
        BY <3>2, ParserCounts, FS_Singleton
    <2>5. ASSUME NEW at \in own
          PROVE  /\ HeldAt(book)[at] \subseteq RowsOf(book, k)
                 /\ Parser!NamedOnce(t, HeldAt(book)[at])
      BY <1>3, <2>1, <2>2, <2>3 DEF SheetCut
    <2> QED
      BY <2>4, <2>5 DEF t, own
  <1> QED
    BY <1>4, <1>5

\* The parser is given one of the files, and keeps to it.
LEMMA RowsAreHeld ==
  ASSUME upload \in Uploads
  PROVE  Parser!EveryRowInOneScenario
PROOF
  <1> DEFINE book == upload.workbook
             held == [at \in DOMAIN Parser!Scenarios |->
                         {line.row : line \in Parser!Scenarios[at].lines}]
  <1>1. book \in Seq(Parser!Sheets)
    BY ParserAssumption
  <1>2. held = HeldAt(book)
    BY DEF HeldAt, Parser!Scenarios
  <1> HIDE DEF book, held
  <1>3. \A k \in DOMAIN book :
          /\ \A i \in RowsOf(book, k) :
                Parser!Cardinality({at \in OwnOf(book, k) : i \in held[at]}) = 1
          /\ \A at \in OwnOf(book, k) :
                held[at] \subseteq RowsOf(book, k)
                /\ Parser!NamedOnce(Parser!Table(book[k].rows), held[at])
    BY <1>1, <1>2, WorkbookIsCut
  <1>4. \A k : OwnOf(book, k) = {at \in DOMAIN held : at[1] = k}
    BY <1>2 DEF OwnOf
  <1>5. \A k \in DOMAIN book :
          LET table == Parser!Table(book[k].rows)
              rows_ == IF book[k].visible THEN Parser!ProductRows(table) ELSE {}
              own   == {at \in DOMAIN held : at[1] = k}
          IN /\ \A i \in rows_ : Parser!Cardinality({at \in own : i \in held[at]}) = 1
             /\ \A at \in own :
                   held[at] \subseteq rows_ /\ Parser!NamedOnce(table, held[at])
    BY <1>3, <1>4 DEF RowsOf
  <1> QED
    BY <1>5, Zenon DEF Parser!EveryRowInOneScenario, book, held

(* Whatever a workbook's sheets say, and wherever their blank rows, repeated *)
(* products and footers fall, each product row of a visible sheet is a line  *)
(* of exactly one scenario, and no scenario has a line that is none or one   *)
(* product twice (workbook.ts, IsolatedWorkbookParser.parse).                *)
THEOREM EveryRowOnce == Spec => []EveryRowInOneScenario
PROOF
  <1> DEFINE GivenOne == service = "parser" => upload \in Uploads
  <1>1. Init => GivenOne
    BY DEF Init, Parser!Init
  <1>2. GivenOne /\ [Next]_vars => GivenOne'
    <2>1. SUFFICES ASSUME GivenOne, [Next]_vars, service' = "parser"
                   PROVE  upload' = upload /\ service = "parser"
      OBVIOUS
    <2>2. CASE service = "parser" /\ Parser!Next
      BY <2>2 DEF Parser!Next, Parser!OpenArchive, Parser!InspectEntry, Parser!InspectParts,
                  Parser!Unspawned, Parser!Spawn, Parser!Parse, Parser!Write, Parser!Exit,
                  Parser!Crash, Parser!Data, Parser!Deadline, Parser!Close,
                  Parser!InspectedAs, Parser!Answer
    <2>3. CASE UNCHANGED <<service, parser>>
      BY <2>1, <2>3 DEF parser
    <2> QED
      BY <2>1, <2>2, <2>3 DEF Next, vars
  <1>3. GivenOne => EveryRowInOneScenario
    BY RowsAreHeld DEF EveryRowInOneScenario
  <1> QED
    BY <1>1, <1>2, <1>3, PTL DEF Spec
==============================================================================
