---------------------------- MODULE QuotationIntake ----------------------------
(***************************************************************************)
(* How a workbook becomes a quotation to review: the request that accepts  *)
(* an upload, the two jobs that preflight and parse it, and the reset that *)
(* clears a brand's quotations while both are under way.                   *)
(*                                                                         *)
(* A request reads in statements of their own and writes in one            *)
(* transaction; a job is one transaction from its claim on, in which the   *)
(* object store is read, the parser runs and the row is updated; the reset *)
(* deletes table by table in one transaction and removes objects after it. *)
(* All of it at READ COMMITTED.                                            *)
(*                                                                         *)
(* Reserving an upload and putting the bytes touch nothing modelled here:  *)
(* every object is stored once, before a request names it.  The events and *)
(* the children of a scenario are left out: no step reads them.            *)
(***************************************************************************)
EXTENDS Naturals

CONSTANTS
    Hashes,         \* contents of workbooks, named by their hash
    Objects,        \* keys of the object store
    Declared,       \* [Objects -> the hash its upload was reserved with]
    Stored,         \* [Objects -> the hash of the bytes that were put]
    Keys,           \* idempotency keys
    Notes,          \* commercial context a buyer may add
    Bodies,         \* the requests clients send
    Requests,       \* requests the API can have open at once
    MaxCalls,       \* bound on the requests of a behaviour
    MaxQuotations,  \* bound on the quotations accepted
    Workers,        \* handlers that can run at once
    Queue,          \* [Workers -> the kind of job each consumes]
    MaxAttempts,    \* deliveries of a job before pg-boss gives it up
    MaxFaults,      \* bound: throws, crashes and overruns in a behaviour
    NoBody,         \* a request slot that is free
    NoJob           \* a worker that holds no job

Calls == [key : Keys, object : Objects, hash : Hashes, note : Notes]
Ids   == 1..MaxQuotations
Kinds == {"preflight", "parse", "match"}
Jobs  == Ids \X Kinds

ASSUME IntakeAssumption ==
    /\ Declared \in [Objects -> Hashes]
    /\ Stored \in [Objects -> Hashes]
    /\ Bodies \subseteq Calls
    /\ MaxCalls \in Nat
    /\ MaxQuotations \in Nat
    /\ Queue \in [Workers -> {"preflight", "parse"}]
    /\ MaxAttempts \in Nat \ {0}
    /\ MaxFaults \in Nat
    /\ NoBody \notin Calls
    /\ NoJob \notin Jobs

VARIABLES
    quotations,   \* the rows by id; the body of a deleted row is that of its jobs
    scenarios,    \* [Ids -> times the scenarios of the quotation were inserted]
    objects,      \* objects in the store
    jobs,         \* pg-boss: what each job's row says
    completions,  \* worker_completion: jobs whose effects are committed
    requests,     \* the open requests
    answers,      \* history: the requests that were answered with a quotation
    tx,           \* what each worker is doing
    reset,        \* the brand's reset: how far it is and what it has read
    issued,       \* ids taken
    calls,        \* requests received so far
    faults        \* throws, crashes and overruns so far

store == <<quotations, scenarios, objects>>
vars  == <<store, jobs, completions, requests, answers, tx, reset, issued,
           calls, faults>>

Parsed  == {"INTERPRETATION_REQUIRED", "REVIEW_REQUIRED"}
Pending == {"UPLOADED", "PARSING"}

NoRow      == [state |-> "ABSENT", version |-> 0, body |-> NoBody]
Live       == {i \in Ids : quotations[i].state # "ABSENT"}
NoSuchJob  == [status |-> "none", attempts |-> 0]
Created    == [status |-> "created", attempts |-> 0]
NoRequest  == [pc |-> "idle", body |-> NoBody]
Idle       == [pc |-> "idle", job |-> NoJob, outcome |-> "none"]
Quiet      == [pc |-> "idle", rows |-> {}, keys |-> {}, scenarios |-> {}]

Init ==
    /\ quotations = [i \in Ids |-> NoRow]
    /\ scenarios = [i \in Ids |-> 0]
    /\ objects = Objects
    /\ jobs = [j \in Jobs |-> NoSuchJob]
    /\ completions = {}
    /\ requests = [r \in Requests |-> NoRequest]
    /\ answers = {}
    /\ tx = [w \in Workers |-> Idle]
    /\ reset = Quiet
    /\ issued = 0 /\ calls = 0 /\ faults = 0

------------------------------------------------------------------------------
(* CompleteQuotationUploadCommandHandler *)

Free(r) == requests' = [requests EXCEPT ![r] = NoRequest]

\* The request is answered with quotation i.
Answer(r, body, i) ==
    /\ answers' = answers \cup {[body |-> body, id |-> i]}
    /\ Free(r)

Refuse(r) == Free(r) /\ UNCHANGED answers

Proceed(r, pc, body) ==
    /\ requests' = [requests EXCEPT ![r] = [pc |-> pc, body |-> body]]
    /\ UNCHANGED answers

WithKey(k)  == {i \in Live : quotations[i].body.key = k}
WithHash(h) == {i \in Live : quotations[i].body.hash = h}

\* replay: the key must come with the content, object and note it came with.
Replays(i, body) ==
    /\ quotations[i].body.hash = body.hash
    /\ quotations[i].body.object = body.object
    /\ quotations[i].body.note = body.note

\* findReservation: a repeat is answered before anything else is looked at.
Complete(r) ==
    /\ requests[r].pc = "idle"
    /\ calls < MaxCalls /\ calls' = calls + 1
    /\ \E body \in Bodies :
         \/ /\ WithKey(body.key) = {}
            /\ Proceed(r, "duplicate", body)
         \/ \E i \in WithKey(body.key) :
              IF Replays(i, body) THEN Answer(r, body, i) ELSE Refuse(r)
    /\ UNCHANGED <<store, jobs, completions, tx, reset, issued, faults>>

\* findByContentHash: the same workbook is the same quotation, whatever the key,
\* unless its note differs.
FindDuplicate(r) ==
    LET body == requests[r].body IN
    /\ requests[r].pc = "duplicate"
    /\ \/ /\ WithHash(body.hash) = {}
          /\ Proceed(r, "verify", body)
       \/ \E i \in WithHash(body.hash) :
            IF quotations[i].body.note = body.note THEN Answer(r, body, i)
                                                   ELSE Refuse(r)
    /\ UNCHANGED <<store, jobs, completions, tx, reset, issued, calls, faults>>

\* verifyUpload: the object is there and was reserved for this hash.
VerifyUpload(r) ==
    LET body == requests[r].body IN
    /\ requests[r].pc = "verify"
    /\ IF body.object \in objects /\ Declared[body.object] = body.hash
       THEN Proceed(r, "insert", body) ELSE Refuse(r)
    /\ UNCHANGED <<store, jobs, completions, tx, reset, issued, calls, faults>>

\* Mutant: no unique index on the content.
UniqueKey(body) == WithKey(body.key) = {}

\* The unique indexes on (brand, file_hash) and (brand, idempotency_key).
Unique(body) == WithKey(body.key) \cup WithHash(body.hash) = {}

\* The transaction that accepts the upload: row, event and job.  An insert that
\* meets an open one of the same key or content waits for its commit, so to
\* insert and commit in one step is every order the database allows.
Insert(r) ==
    LET body == requests[r].body  i == issued + 1 IN
    /\ requests[r].pc = "insert"
    /\ IF Unique(body)
       THEN /\ i \in Ids
            /\ issued' = i
            /\ quotations' = [quotations EXCEPT ![i] =
                   [state |-> "UPLOADED", version |-> 1, body |-> body]]
            /\ jobs' = [jobs EXCEPT ![<<i, "preflight">>] = Created]
            /\ Answer(r, body, i)
       ELSE Refuse(r) /\ UNCHANGED <<quotations, jobs, issued>>
    /\ UNCHANGED <<scenarios, objects, completions, tx, reset, calls, faults>>

\* A request ends without an answer: no catalog, an error, a crash of the API.
Abandon(r) ==
    /\ requests[r].pc # "idle"
    /\ Refuse(r)
    /\ UNCHANGED <<store, jobs, completions, tx, reset, issued, calls, faults>>

------------------------------------------------------------------------------
(* Delivery: a worker's transaction from its claim to its commit *)

OpenSteps == {"read", "preflight", "load", "fetch", "parse", "commit"}
Open(w)   == tx[w].pc \in OpenSteps
Id(w)     == tx[w].job[1]
Row(w)    == quotations[Id(w)]

Goto(w, pc) == tx' = [tx EXCEPT ![w].pc = pc]

\* A failed or expired delivery is retried until its attempts are used up.
Requeued(job) ==
    [job EXCEPT !.status = IF job.attempts < MaxAttempts THEN "retry"
                                                         ELSE "failed"]

\* Rolled back: the worker is free and its job, if still its own, is retried.
Throw(w) ==
    /\ tx' = [tx EXCEPT ![w] = Idle]
    /\ jobs' = [jobs EXCEPT ![tx[w].job] =
                    IF @.status = "active" THEN Requeued(@) ELSE @]

Fetch(w) ==
    /\ tx[w].pc = "idle"
    /\ \E j \in Jobs :
         /\ j[2] = Queue[w]
         /\ jobs[j].status \in {"created", "retry"}
         /\ jobs' = [jobs EXCEPT ![j] = [status |-> "active",
                                         attempts |-> jobs[j].attempts + 1]]
         /\ tx' = [tx EXCEPT ![w] = [Idle EXCEPT !.pc = "claim", !.job = j]]
    /\ UNCHANGED <<store, completions, requests, answers, reset, issued, calls,
                   faults>>

FirstStep(j) == IF j[2] = "preflight" THEN "read" ELSE "load"

\* Mutant: the claim commits before the work it is for.
ClaimAhead(w) ==
    /\ tx[w].pc = "claim"
    /\ Goto(w, IF tx[w].job \in completions THEN "ack" ELSE FirstStep(tx[w].job))
    /\ completions' = completions \cup {tx[w].job}
    /\ UNCHANGED <<store, jobs, requests, answers, reset, issued, calls, faults>>

\* INSERT INTO worker_completion .. ON CONFLICT DO NOTHING waits for an open
\* transaction that holds the same key.
Claim(w) ==
    /\ tx[w].pc = "claim"
    /\ \A v \in Workers \ {w} : Open(v) => tx[v].job # tx[w].job
    /\ Goto(w, IF tx[w].job \in completions THEN "ack" ELSE FirstStep(tx[w].job))
    /\ UNCHANGED <<store, jobs, completions, requests, answers, reset, issued,
                   calls, faults>>

\* The row that a transaction has updated is locked until it commits.
Locked(i) == \E v \in Workers :
                tx[v].pc = "commit" /\ tx[v].outcome # "none" /\ Id(v) = i

\* UPDATE quotation .. WHERE state = from: waits for the row, and throws unless
\* it finds the state it expects.
TransitionFrom(w, from) ==
    /\ ~Locked(Id(w))
    /\ IF Row(w).state = from
       THEN Goto(w, "commit") /\ UNCHANGED jobs
       ELSE Throw(w)

\* The object is read under the key in the job's payload; a missing one throws.
ReadObject(w, pc, outcomes) ==
    IF Row(w).body.object \in objects
    THEN /\ \E o \in outcomes :
              tx' = [tx EXCEPT ![w].pc = pc, ![w].outcome = o]
         /\ UNCHANGED jobs
    ELSE Throw(w)

\* Everything a job's step leaves alone.
Elsewhere == <<requests, answers, reset, issued, calls>>
StepOnly  == <<store, completions, Elsewhere, faults>>

------------------------------------------------------------------------------
(* CompleteQuotationPreflightCommandHandler *)

PreflightRead(w) ==
    /\ tx[w].pc = "read"
    /\ ReadObject(w, "preflight", {"PARSING", "REJECTED"})
    /\ UNCHANGED StepOnly

FinishPreflight(w) ==
    /\ tx[w].pc = "preflight"
    /\ TransitionFrom(w, "UPLOADED")
    /\ UNCHANGED StepOnly

------------------------------------------------------------------------------
(* ParseQuotationCommandHandler *)

\* completedParseReplay.  No delivery gets this far once the parse is committed:
\* the claim committed with it.
AlreadyParsed(i) == quotations[i].state \in Parsed /\ scenarios[i] > 0

\* loadParseTarget, on a connection of its own: without a row that is PARSING
\* there is nothing to do, or the job throws.
LoadParseTarget(w) ==
    /\ tx[w].pc = "load"
    /\ IF Row(w).state = "PARSING" \/ AlreadyParsed(Id(w))
       THEN /\ Goto(w, IF Row(w).state = "PARSING" THEN "fetch" ELSE "commit")
            /\ UNCHANGED jobs
       ELSE Throw(w)
    /\ UNCHANGED StepOnly

\* Mutant: the bytes are parsed whatever their hash.
OutcomesUnhashed(i) == Parsed \cup {"PARSE_FAILED"}

\* Bytes of another hash than was declared are not parsed; the isolated parser
\* may fail on any bytes.
Outcomes(i) ==
    LET body == quotations[i].body IN
    {"PARSE_FAILED"} \cup (IF Stored[body.object] = body.hash THEN Parsed ELSE {})

ParseRead(w) ==
    /\ tx[w].pc = "fetch"
    /\ ReadObject(w, "parse", Outcomes(Id(w)))
    /\ UNCHANGED StepOnly

\* markParseFailed, or assertParsing's FOR UPDATE, the scenarios and finishParse.
FinishParse(w) ==
    /\ tx[w].pc = "parse"
    /\ TransitionFrom(w, "PARSING")
    /\ UNCHANGED StepOnly

------------------------------------------------------------------------------
(* The end of a job *)

\* The job that an outcome enqueues: parse-quotation or match-candidates.
\* Mutant: the parse job is not enqueued.
FollowingMatchOnly(i, outcome) == IF outcome \in Parsed THEN {<<i, "match">>} ELSE {}

Following(i, outcome) ==
    CASE outcome = "PARSING"  -> {<<i, "parse">>}
      [] outcome \in Parsed   -> {<<i, "match">>}
      [] OTHER                -> {}

Commit(w) ==
    LET i == Id(w)  o == tx[w].outcome IN
    /\ tx[w].pc = "commit"
    /\ IF o = "none" THEN UNCHANGED <<quotations, scenarios, jobs>>
       ELSE /\ quotations' = [quotations EXCEPT
                   ![i].state = o, ![i].version = @ + 1]
            /\ scenarios' = [scenarios EXCEPT
                   ![i] = IF o \in Parsed THEN @ + 1 ELSE @]
            /\ jobs' = [j \in Jobs |->
                   IF j \in Following(i, o) THEN Created ELSE jobs[j]]
    /\ completions' = completions \cup {tx[w].job}
    /\ tx' = [tx EXCEPT ![w] = [Idle EXCEPT !.pc = "ack", !.job = tx[w].job]]
    /\ UNCHANGED <<objects, Elsewhere, faults>>

\* pg-boss completes the job unless it was taken away from this delivery.
Acknowledge(w) ==
    /\ tx[w].pc = "ack"
    /\ jobs' = [jobs EXCEPT ![tx[w].job].status =
                    IF @ = "active" THEN "completed" ELSE @]
    /\ tx' = [tx EXCEPT ![w] = Idle]
    /\ UNCHANGED StepOnly

Fault == faults < MaxFaults /\ faults' = faults + 1

\* The handler throws for a reason of its own: the store or the database fails.
Fail(w) ==
    /\ Open(w) \/ tx[w].pc = "claim"
    /\ Fault
    /\ Throw(w)
    /\ UNCHANGED <<store, completions, Elsewhere>>

\* The worker process dies: its transaction rolls back, its job stays active.
Crash(w) ==
    /\ tx[w].pc # "idle"
    /\ Fault
    /\ tx' = [tx EXCEPT ![w] = Idle]
    /\ UNCHANGED <<store, jobs, completions, Elsewhere>>

\* A job expires: its handler is gone, or still runs and nothing stops it.
Lapse(j) ==
    /\ jobs[j].status = "active"
    /\ \A w \in Workers : tx[w].job # j
    /\ jobs' = [jobs EXCEPT ![j] = Requeued(jobs[j])]
    /\ UNCHANGED <<store, completions, Elsewhere, tx, faults>>

Outlive(j) ==
    /\ jobs[j].status = "active"
    /\ \E w \in Workers : tx[w].job = j
    /\ Fault
    /\ jobs' = [jobs EXCEPT ![j] = Requeued(jobs[j])]
    /\ UNCHANGED <<store, completions, Elsewhere, tx>>

------------------------------------------------------------------------------
(* ResetChallengeCommandHandler: one in a behaviour *)

ResetOnly == <<jobs, completions, requests, answers, tx, issued, calls, faults>>

\* The objects of the rows there are now are the ones to remove.
ResetSelect ==
    /\ reset.pc = "idle"
    /\ reset' = [reset EXCEPT !.pc = "scenarios", !.rows = Live,
                              !.keys = {quotations[i].body.object : i \in Live}]
    /\ UNCHANGED <<store, ResetOnly>>

ResetScenarios ==
    /\ reset.pc = "scenarios"
    /\ reset' = [reset EXCEPT !.pc = "rows",
                              !.scenarios = {i \in Ids : scenarios[i] > 0}]
    /\ UNCHANGED <<store, ResetOnly>>

\* DELETE FROM quotation waits for locked rows.  Scenarios inserted since theirs
\* were deleted break the foreign key: the whole reset is undone.  Otherwise it
\* commits, and the rows that came since its first step are gone as well.
ResetRows ==
    /\ reset.pc = "rows"
    /\ \A i \in Ids : ~Locked(i)
    /\ IF {i \in Ids : scenarios[i] > 0} \subseteq reset.scenarios
       THEN /\ quotations' = [i \in Ids |->
                   [quotations[i] EXCEPT !.state = "ABSENT", !.version = 0]]
            /\ scenarios' = [i \in Ids |-> 0]
            /\ reset' = [Quiet EXCEPT !.pc = "remove", !.rows = reset.rows,
                                      !.keys = reset.keys]
       ELSE /\ reset' = [Quiet EXCEPT !.pc = "done", !.rows = reset.rows]
            /\ UNCHANGED <<quotations, scenarios>>
    /\ UNCHANGED <<objects, ResetOnly>>

\* Mutant: objects are removed while the rows may still stay.
ResetRemoveEarly ==
    /\ reset.pc \in {"rows", "remove"}
    /\ \E o \in reset.keys :
         /\ objects' = objects \ {o}
         /\ reset' = [reset EXCEPT !.keys = @ \ {o}]
    /\ UNCHANGED <<quotations, scenarios, ResetOnly>>

\* The objects are removed after the commit, all at once and in any order.
ResetRemove ==
    /\ reset.pc = "remove"
    /\ \E o \in reset.keys :
         /\ objects' = objects \ {o}
         /\ reset' = [reset EXCEPT !.keys = @ \ {o}]
    /\ UNCHANGED <<quotations, scenarios, ResetOnly>>

\* The reset fails, on an error of its own or with the API, before its commit or
\* after: what it deleted and removed by then is what is gone.
ResetStops ==
    /\ reset.pc \in {"scenarios", "rows", "remove"}
    /\ reset' = [Quiet EXCEPT !.pc = "done", !.rows = reset.rows]
    /\ UNCHANGED <<store, ResetOnly>>

------------------------------------------------------------------------------
Request(r) ==
    Complete(r) \/ FindDuplicate(r) \/ VerifyUpload(r) \/ Insert(r) \/ Abandon(r)

Handler(w) ==
    \/ Fetch(w) \/ Claim(w) \/ PreflightRead(w) \/ FinishPreflight(w)
    \/ LoadParseTarget(w) \/ ParseRead(w) \/ FinishParse(w)
    \/ Commit(w) \/ Acknowledge(w)

Reset ==
    ResetSelect \/ ResetScenarios \/ ResetRows \/ ResetRemove
    \/ ResetStops

Next ==
    \/ \E r \in Requests : Request(r)
    \/ \E w \in Workers : Handler(w) \/ Fail(w) \/ Crash(w)
    \/ \E j \in Jobs : Lapse(j) \/ Outlive(j)
    \/ Reset

\* Workers poll their queues for ever, a handler's steps all return (the parser
\* is killed after 30 s) and pg-boss expires what a dead handler left.
Fairness ==
    /\ \A w \in Workers : WF_vars(Handler(w))
    /\ WF_vars(\E j \in Jobs : Lapse(j))

Spec == Init /\ [][Next]_vars /\ Fairness

------------------------------------------------------------------------------
(* Properties *)

\* Whoever was answered with a quotation was answered with one of its own content
\* and note, and two uploads of the same content, in whatever order their
\* requests ran, with one and the same as long as it is there.
AnswersAgree ==
    \A a \in answers : a.id \in Live =>
        /\ quotations[a.id].body.hash = a.body.hash
        /\ quotations[a.id].body.note = a.body.note
        /\ \A b \in answers :
             b.id \in Live /\ b.body.hash = a.body.hash => b.id = a.id

\* A quotation has, for the state it is in, exactly the jobs done and the jobs to
\* do that lead on from it, and a version that counts its transitions: no crash,
\* redelivery or overrun leaves it waiting for a job that is gone.
JobsMatchState ==
    \A i \in Live :
        LET row   == quotations[i]
            Done(k)  == <<i, k>> \in completions
            Sent(k)  == jobs[<<i, k>>].status # "none"
            Taken(k) == jobs[<<i, k>>].status = "completed"
        IN
        /\ Sent("preflight")
        /\ Taken("preflight") => Done("preflight")
        /\ Taken("parse") => Done("parse")
        /\ Done("preflight") <=> row.state # "UPLOADED"
        /\ Sent("parse") <=> row.state \in {"PARSING", "PARSE_FAILED"} \cup Parsed
        /\ Done("parse") <=> row.state \in {"PARSE_FAILED"} \cup Parsed
        /\ Sent("match") <=> row.state \in Parsed
        /\ row.version = (CASE row.state = "UPLOADED"               -> 1
                            [] row.state \in {"PARSING", "REJECTED"} -> 2
                            [] OTHER                                -> 3)

\* A quotation is open to review with its scenarios, inserted once, and only if
\* the bytes they were parsed from are those its upload declared; any other has
\* none, and none outlives its quotation.
ParsedOnceAsDeclared ==
    \A i \in Ids :
        /\ scenarios[i] = IF quotations[i].state \in Parsed THEN 1 ELSE 0
        /\ quotations[i].state \in Parsed =>
             Stored[quotations[i].body.object] = quotations[i].body.hash

\* The reset removes no object of a quotation it has not deleted: if it is undone
\* half way, each row it meant to delete still has its workbook.
RemovedAfterCleared ==
    \A i \in Live \cap reset.rows : quotations[i].body.object \in objects

\* An accepted quotation ends open to review, rejected or failed, through any
\* crash or overrun the queue's retries cover, unless its workbook is removed
\* by a reset.
EveryQuotationSettles ==
    \A i \in Ids :
        quotations[i].state \in Pending ~>
            \/ quotations[i].state \notin Pending
            \/ quotations[i].body.object \notin objects
=============================================================================
