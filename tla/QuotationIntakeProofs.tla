------------------------ MODULE QuotationIntakeProofs ------------------------
(***************************************************************************)
(* Theorems about QuotationIntake for any number of workbooks, requests,   *)
(* workers, deliveries and faults.  All rest on one inductive invariant,   *)
(* Inv: what is true of the ids not taken yet (Untaken), of the rows and   *)
(* the answers given about them (Distinct, Told), of the jobs and the      *)
(* scenarios of each row (the properties JobsMatchState and                *)
(* ParsedOnceAsDeclared themselves), of what each open transaction relies  *)
(* on (Carries, Apart), and of how far the reset has come (ResetInOrder).  *)
(***************************************************************************)
EXTENDS QuotationIntake, TLAPS

------------------------------------------------------------------------------
(* The invariant *)

Bodied     == Calls \cup {NoBody}
Ended      == {"REJECTED", "PARSE_FAILED"}
Outcome    == {"PARSING"} \cup Ended \cup Parsed
RowStates  == {"ABSENT"} \cup Pending \cup Ended \cup Parsed
Slot       == [pc : {"idle", "duplicate", "verify", "insert"}, body : Bodied]
Task       == [pc : {"idle", "claim", "ack"} \cup OpenSteps, job : Jobs \cup {NoJob},
               outcome : {"none"} \cup Outcome]
JobStates  == {"none", "created", "retry", "active", "completed", "failed"}

TypeOK ==
    /\ quotations \in [Ids -> [state : RowStates, version : Nat, body : Bodied]]
    /\ scenarios \in [Ids -> Nat]
    /\ objects \subseteq Objects
    /\ jobs \in [Jobs -> [status : JobStates, attempts : Nat]]
    /\ completions \subseteq Jobs
    /\ requests \in [Requests -> Slot]
    /\ answers \subseteq [body : Calls, id : Ids]
    /\ tx \in [Workers -> Task]
    /\ reset \in [pc : {"idle", "scenarios", "rows", "remove", "done"},
                  rows : SUBSET Ids, keys : SUBSET Objects, scenarios : SUBSET Ids]
    /\ issued \in 0 .. MaxQuotations /\ calls \in Nat /\ faults \in Nat

\* A request that is open carries one of the bodies.
Asked == \A r \in Requests : requests[r].pc # "idle" => requests[r].body \in Calls

\* Ids are taken in order: of one that is not, there is no row and no job; one
\* that is keeps its body, whether or not its row is still there.
Untaken ==
    \A i \in Ids :
        /\ i > issued =>
               /\ quotations[i].state = "ABSENT" /\ scenarios[i] = 0
               /\ \A k \in Kinds : /\ jobs[<<i, k>>].status = "none"
                                   /\ <<i, k>> \notin completions
        /\ i <= issued => quotations[i].body \in Calls

\* The unique indexes.
Distinct ==
    \A i, j \in Live :
        \/ quotations[i].body.hash = quotations[j].body.hash
        \/ quotations[i].body.key = quotations[j].body.key
        => i = j

\* An answer names a quotation of its content and note; it may be gone by now.
Told ==
    \A a \in answers :
        /\ a.id <= issued
        /\ quotations[a.id].body.hash = a.body.hash
        /\ quotations[a.id].body.note = a.body.note

\* The state a job's update starts from, and what it may turn it to.
Before(j)  == IF j[2] = "preflight" THEN "UPLOADED" ELSE "PARSING"
Results(j) == IF j[2] = "preflight" THEN {"PARSING", "REJECTED"} ELSE Outcomes(j[1])

\* What a worker relies on between its steps.
Carries(w) ==
    tx[w].pc # "idle" =>
        /\ tx[w].job \in Jobs
        /\ tx[w].job[2] = Queue[w]
        /\ jobs[tx[w].job].status # "none"
        /\ tx[w].pc = "ack" => tx[w].job \in completions
        /\ Open(w) => tx[w].job \notin completions
        /\ tx[w].pc \in {"read", "preflight"} => Queue[w] = "preflight"
        /\ tx[w].pc \in {"load", "fetch", "parse"} => Queue[w] = "parse"
        /\ tx[w].pc \in {"preflight", "parse", "commit"} => tx[w].outcome \in Results(tx[w].job)
        /\ tx[w].pc = "commit" => Row(w).state = Before(tx[w].job)

\* The completion's key is held by one open transaction at a time.
Apart(v, w) == Open(v) /\ Open(w) => tx[v].job # tx[w].job

\* Objects are removed only once the rows that named them are gone for good.
ResetInOrder ==
    /\ \A i \in reset.rows : i <= issued
    /\ reset.pc \in {"idle", "scenarios", "rows"} => objects = Objects
    /\ reset.pc = "remove" => reset.rows \cap Live = {}
    /\ objects = Objects \/ reset.rows \cap Live = {}

Inv ==
    /\ TypeOK
    /\ Asked
    /\ Untaken
    /\ Distinct
    /\ Told
    /\ JobsMatchState
    /\ ParsedOnceAsDeclared
    /\ \A w \in Workers : Carries(w)
    /\ \A v, w \in Workers : v # w => Apart(v, w)
    /\ ResetInOrder

------------------------------------------------------------------------------
(* What the steps have in common *)

LEMMA JobPair ==
  ASSUME NEW j \in Jobs
  PROVE  j[1] \in Ids /\ j[2] \in Kinds /\ j = <<j[1], j[2]>>
  BY DEF Jobs

\* A job's status only moves on, and to "completed" only what is committed.
Moved ==
    \A j \in Jobs :
        /\ jobs'[j].status = "none" <=> jobs[j].status = "none"
        /\ jobs'[j].status = "completed" =>
               jobs[j].status = "completed" \/ j \in completions

\* What the rows, jobs and answers say of each other outlasts every step that
\* adds no answer and leaves the rows as they are.
LEMMA RowsStay ==
  ASSUME Inv, UNCHANGED <<quotations, scenarios, completions, answers, issued>>, Moved
  PROVE  Untaken' /\ Distinct' /\ Told' /\ JobsMatchState' /\ ParsedOnceAsDeclared'
PROOF
  <1>1. Untaken'
    BY DEF Inv, Untaken, Moved, Jobs
  <1>2. Distinct' /\ Told'
    BY DEF Inv, Distinct, Told, Live
  <1>3. ParsedOnceAsDeclared'
    BY DEF Inv, ParsedOnceAsDeclared
  <1>4. JobsMatchState'
    <2>1. SUFFICES ASSUME NEW i \in Live PROVE JobsMatchState!(i)'
      BY DEF JobsMatchState, Live
    <2> QED
      BY <2>1 DEF Inv, JobsMatchState, Moved, Jobs, Kinds, Live
  <1> QED
    BY <1>1, <1>2, <1>3, <1>4

\* No worker is disturbed by what leaves its row and its job's claim as they are.
LEMMA WorkerStays ==
  ASSUME Inv, NEW w \in Workers, tx'[w] = tx[w], completions \subseteq completions',
         tx[w].pc # "idle" => /\ jobs'[tx[w].job].status # "none"
                              /\ Row(w)'.body = Row(w).body,
         Open(w) => tx[w].job \notin completions',
         tx[w].pc = "commit" => Row(w)'.state = Row(w).state
  PROVE  Carries(w)'
PROOF
  <1>1. SUFFICES ASSUME tx[w].pc # "idle" PROVE Carries(w)'
    BY DEF Carries
  <1>2. /\ tx[w].job \in Jobs
        /\ tx[w].job[1] \in Ids
    BY <1>1, JobPair DEF Inv, Carries
  <1>3. Open(w)' <=> Open(w)
    BY DEF Open
  <1>4. Results(tx[w].job)' = Results(tx[w].job)
    BY <1>1 DEF Results, Outcomes, Row, Id
  <1> QED
    BY <1>1, <1>2, <1>3, <1>4 DEF Inv, Carries, Before, Row, Id

\* Requests: what a step of one does that accepts no upload.
LEMMA RequestStep ==
  ASSUME Inv, UNCHANGED <<store, jobs, completions, tx, reset, issued>>,
         calls' \in Nat, faults' \in Nat,
         requests' \in [Requests -> Slot], Asked', answers' \subseteq [body : Calls, id : Ids], Told'
  PROVE  Inv'
PROOF
  <1>1. TypeOK'
    BY DEF Inv, TypeOK, store
  <1>2. Moved
    BY DEF Moved
  <1>3. Untaken' /\ Distinct' /\ JobsMatchState' /\ ParsedOnceAsDeclared'
    BY DEF Inv, Untaken, Distinct, JobsMatchState, ParsedOnceAsDeclared, Live, store
  <1>4. ASSUME NEW w \in Workers PROVE Carries(w)'
    <2>1. /\ tx[w].pc # "idle" => jobs[tx[w].job].status # "none"
          /\ Open(w) => tx[w].job \notin completions
      BY DEF Inv, Carries, Open, OpenSteps
    <2> QED
      BY <1>2, <2>1, WorkerStays DEF Row, Id, store
  <1>5. ASSUME NEW v \in Workers, NEW w \in Workers, v # w PROVE Apart(v, w)'
    BY <1>5 DEF Inv, Apart, Open
  <1>6. ResetInOrder'
    BY DEF Inv, ResetInOrder, Live, store
  <1> QED
    BY <1>1, <1>3, <1>4, <1>5, <1>6 DEF Inv

------------------------------------------------------------------------------
(* CompleteQuotationUploadCommandHandler *)

LEMMA InitInv == Init => Inv
PROOF
  <1> SUFFICES ASSUME Init PROVE Inv
    OBVIOUS
  <1> USE DEF Init, NoRow, NoSuchJob, NoRequest, Idle, Quiet
  <1>1. TypeOK
    BY IntakeAssumption DEF TypeOK, Bodied, Slot, Task, RowStates, JobStates
  <1>2. Asked /\ Told /\ Distinct
    BY DEF Asked, Told, Distinct, Live
  <1>3. Untaken
    BY DEF Untaken, Jobs, Ids
  <1>4. JobsMatchState /\ ParsedOnceAsDeclared
    BY DEF JobsMatchState, ParsedOnceAsDeclared, Live, Parsed
  <1>5. \A w \in Workers : Carries(w)
    BY DEF Carries
  <1>6. \A v, w \in Workers : v # w => Apart(v, w)
    BY DEF Apart, Open, OpenSteps
  <1>7. ResetInOrder
    BY DEF ResetInOrder
  <1> QED
    BY <1>1, <1>2, <1>3, <1>4, <1>5, <1>6, <1>7 DEF Inv

\* What a request turns into is a request.
LEMMA RequestTypes ==
  ASSUME Inv, NEW r \in Requests, NEW q \in Slot, q.pc # "idle" => q.body \in Calls,
         requests' = [requests EXCEPT ![r] = q]
  PROVE  requests' \in [Requests -> Slot] /\ Asked'
PROOF
  <1>1. requests \in [Requests -> Slot]
    BY DEF Inv, TypeOK, Slot
  <1>2. requests' \in [Requests -> Slot]
    BY <1>1
  <1>3. \A x \in Requests : requests'[x] = IF x = r THEN q ELSE requests[x]
    BY <1>1
  <1> QED
    BY <1>2, <1>3 DEF Inv, Asked

LEMMA FreeTypes ==
  ASSUME Inv, NEW r \in Requests, Free(r)
  PROVE  requests' \in [Requests -> Slot] /\ Asked'
PROOF
  <1>1. NoRequest \in Slot /\ NoRequest.pc = "idle"
    BY DEF NoRequest, Slot, Bodied
  <1> QED
    BY <1>1, RequestTypes DEF Free

LEMMA ProceedTypes ==
  ASSUME Inv, NEW r \in Requests, NEW pc \in {"duplicate", "verify", "insert"},
         NEW body \in Calls, Proceed(r, pc, body)
  PROVE  requests' \in [Requests -> Slot] /\ Asked' /\ UNCHANGED answers
PROOF
  <1> DEFINE q == [pc |-> pc, body |-> body]
  <1>1. q \in Slot /\ q.body \in Calls
    BY DEF Slot, Bodied
  <1>2. requests' = [requests EXCEPT ![r] = q] /\ UNCHANGED answers
    BY DEF Proceed
  <1> HIDE DEF q
  <1> QED
    BY <1>1, <1>2, RequestTypes

\* An answer about a row there is, of the content and note that was asked for.
LEMMA AnswerTold ==
  ASSUME Inv, NEW r \in Requests, NEW body \in Calls, NEW i \in Live, Answer(r, body, i),
         quotations[i].body.hash = body.hash, quotations[i].body.note = body.note,
         UNCHANGED <<quotations, issued>>
  PROVE  Told' /\ answers' \subseteq [body : Calls, id : Ids]
PROOF
  <1>1. i \in Ids /\ i <= issued
    BY DEF Live, Inv, Untaken, Ids, TypeOK
  <1>2. answers' = answers \cup {[body |-> body, id |-> i]}
    BY DEF Answer
  <1> QED
    BY <1>1, <1>2 DEF Inv, TypeOK, Told

\* The steps that answer only from what is there, or not at all.
LEMMA LookupStep ==
  ASSUME Inv, NEW r \in Requests,
         Complete(r) \/ FindDuplicate(r) \/ VerifyUpload(r) \/ Abandon(r)
  PROVE  Inv'
PROOF
  <1>1. /\ UNCHANGED <<store, jobs, completions, tx, reset, issued>>
        /\ UNCHANGED <<quotations>>
        /\ calls' \in Nat /\ faults' \in Nat
    BY DEF Complete, FindDuplicate, VerifyUpload, Abandon, Inv, TypeOK, store
  <1>2. ASSUME UNCHANGED answers
        PROVE  Told' /\ answers' \subseteq [body : Calls, id : Ids]
    BY <1>1, <1>2 DEF Inv, TypeOK, Told
  <1>3. ASSUME Free(r), UNCHANGED answers PROVE Inv'
    BY <1>1, <1>2, <1>3, FreeTypes, RequestStep
  <1>4. ASSUME NEW pc \in {"duplicate", "verify", "insert"}, NEW body \in Calls,
               Proceed(r, pc, body)
        PROVE  Inv'
    <2>1. requests' \in [Requests -> Slot] /\ Asked' /\ UNCHANGED answers
      BY <1>4, ProceedTypes
    <2> QED
      BY <1>1, <1>2, <2>1, RequestStep
  <1>5. ASSUME NEW body \in Calls, NEW i \in Live, Answer(r, body, i),
               quotations[i].body.hash = body.hash, quotations[i].body.note = body.note
        PROVE  Inv'
    <2>1. Free(r)
      BY <1>5 DEF Answer
    <2>2. Told' /\ answers' \subseteq [body : Calls, id : Ids]
      BY <1>1, <1>5, AnswerTold
    <2> QED
      BY <1>1, <2>1, <2>2, FreeTypes, RequestStep
  <1>6. CASE Complete(r)
    <2>1. PICK body \in Bodies :
            \/ Proceed(r, "duplicate", body)
            \/ \E i \in WithKey(body.key) :
                 IF Replays(i, body) THEN Answer(r, body, i) ELSE Refuse(r)
      BY <1>6 DEF Complete
    <2>2. body \in Calls
      BY IntakeAssumption
    <2>3. CASE Proceed(r, "duplicate", body)
      BY <2>2, <2>3, <1>4
    <2>4. CASE \E i \in WithKey(body.key) :
                 IF Replays(i, body) THEN Answer(r, body, i) ELSE Refuse(r)
      BY <2>2, <2>4, <1>3, <1>5 DEF WithKey, Replays, Refuse
    <2> QED
      BY <2>1, <2>3, <2>4
  <1>7. CASE FindDuplicate(r)
    <2> DEFINE body == requests[r].body
    <2>1. body \in Calls
      BY <1>7 DEF FindDuplicate, Inv, Asked
    <2>2. CASE Proceed(r, "verify", body)
      BY <2>1, <2>2, <1>4
    <2>3. CASE \E i \in WithHash(body.hash) :
                 IF quotations[i].body.note = body.note THEN Answer(r, body, i) ELSE Refuse(r)
      BY <2>1, <2>3, <1>3, <1>5 DEF WithHash, Refuse
    <2> QED
      BY <1>7, <2>2, <2>3 DEF FindDuplicate
  <1>8. CASE VerifyUpload(r)
    <2> DEFINE body == requests[r].body
    <2>1. body \in Calls
      BY <1>8 DEF VerifyUpload, Inv, Asked
    <2> QED
      BY <1>8, <2>1, <1>3, <1>4 DEF VerifyUpload, Refuse
  <1>9. CASE Abandon(r)
    BY <1>9, <1>3 DEF Abandon, Refuse
  <1> QED
    BY <1>6, <1>7, <1>8, <1>9

\* An upload is accepted: the new row's id was not taken.
LEMMA InsertStep ==
  ASSUME Inv, NEW r \in Requests, Insert(r)
  PROVE  Inv'
PROOF
  <1> DEFINE body == requests[r].body
             i == issued + 1
             row == [state |-> "UPLOADED", version |-> 1, body |-> body]
             j == <<i, "preflight">>
  <1>1. /\ requests[r].pc = "insert"
        /\ body \in Calls /\ issued \in Nat
        /\ UNCHANGED <<scenarios, objects, completions, tx, reset, calls, faults>>
    BY DEF Insert, Inv, Asked, TypeOK
  <1>2. CASE Refuse(r) /\ UNCHANGED <<quotations, jobs, issued>>
    <2>1. UNCHANGED <<store, jobs, completions, tx, reset, issued, calls, faults, answers>>
      BY <1>1, <1>2 DEF store, Refuse
    <2>2. Told' /\ answers' \subseteq [body : Calls, id : Ids]
      BY <2>1 DEF Inv, TypeOK, Told, store
    <2>3. calls' \in Nat /\ faults' \in Nat
      BY <2>1 DEF Inv, TypeOK
    <2> QED
      BY <1>2, <2>1, <2>2, <2>3, FreeTypes, RequestStep DEF Refuse
  <1>3. CASE /\ Unique(body) /\ i \in Ids /\ issued' = i
             /\ quotations' = [quotations EXCEPT ![i] = row]
             /\ jobs' = [jobs EXCEPT ![j] = Created]
             /\ Answer(r, body, i)
    <2> HIDE DEF row, body
    <2>0. /\ row \in [state : RowStates, version : Nat, body : Bodied]
          /\ row.state = "UPLOADED" /\ row.version = 1 /\ row.body = body
      BY <1>1 DEF row, RowStates, Pending, Bodied
    <2>1. /\ quotations' \in [Ids -> [state : RowStates, version : Nat, body : Bodied]]
          /\ \A x \in Ids : quotations'[x] = IF x = i THEN row ELSE quotations[x]
      BY <1>3, <2>0 DEF Inv, TypeOK
    <2>2. /\ j \in Jobs
          /\ Created \in [status : JobStates, attempts : Nat] /\ Created.status = "created"
      BY <1>3 DEF Jobs, Kinds, Created, JobStates
    <2>3. /\ jobs' \in [Jobs -> [status : JobStates, attempts : Nat]]
          /\ \A x \in Jobs : jobs'[x] = IF x = j THEN Created ELSE jobs[x]
      <3> HIDE DEF j
      <3> QED BY <1>3, <2>2 DEF Inv, TypeOK
    <2>4. /\ requests' \in [Requests -> Slot] /\ Asked'
          /\ answers' = answers \cup {[body |-> body, id |-> i]}
      BY <1>3, FreeTypes DEF Answer
    <2>5. TypeOK'
      BY <1>1, <1>3, <2>1, <2>3, <2>4 DEF Inv, TypeOK, Ids
    <2>6. /\ i \notin Live /\ Live' = Live \cup {i}
          /\ \A x \in Live : x <= issued /\ x # i /\ quotations'[x] = quotations[x]
      BY <1>1, <1>3, <2>0, <2>1 DEF Inv, Untaken, Live, Ids
    <2>7. Untaken'
      <3>1. SUFFICES ASSUME NEW x \in Ids PROVE Untaken!(x)'
        BY DEF Untaken
      <3>2. CASE x = i
        BY <1>1, <1>3, <2>0, <2>1, <3>2 DEF Ids
      <3>3. CASE x # i
        <4>1. \A k \in Kinds : <<x, k>> \in Jobs /\ jobs'[<<x, k>>] = jobs[<<x, k>>]
          BY <2>3, <3>3 DEF Jobs
        <4>2. Untaken!(x)
          BY DEF Inv, Untaken
        <4> QED
          BY <1>1, <1>3, <2>1, <3>3, <4>1, <4>2 DEF Ids
      <3> QED
        BY <3>2, <3>3
    <2>8. Distinct'
      <3>1. \A x \in Live : /\ quotations[x].body.hash # body.hash
                             /\ quotations[x].body.key # body.key
        BY <1>3 DEF Unique, WithKey, WithHash
      <3> QED
        BY <2>0, <2>1, <2>6, <3>1, <1>3 DEF Inv, Distinct, Live
    <2>9. Told'
      <3>1. SUFFICES ASSUME NEW a \in answers' PROVE Told!(a)'
        BY DEF Told
      <3>2. CASE a \in answers
        <4>1. a.id \in Ids /\ a.id <= issued
          BY <3>2 DEF Inv, TypeOK, Told
        <4>2. a.id <= i /\ a.id # i
          BY <1>1, <4>1 DEF Ids
        <4> QED
          BY <1>3, <2>1, <3>2, <4>1, <4>2 DEF Inv, Told
      <3>3. CASE a = [body |-> body, id |-> i]
        BY <1>1, <1>3, <2>0, <2>1, <3>3
      <3> QED
        BY <2>4, <3>2, <3>3
    <2>10. JobsMatchState'
      <3>1. SUFFICES ASSUME NEW x \in Live' PROVE JobsMatchState!(x)'
        BY DEF JobsMatchState
      <3>2. CASE x = i
        <4>1. \A k \in Kinds : /\ <<i, k>> \in Jobs /\ <<i, k>> \notin completions
                                /\ jobs[<<i, k>>].status = "none"
          BY <1>1, <1>3 DEF Inv, Untaken, Jobs, Ids
        <4>2. /\ jobs'[<<i, "preflight">>].status = "created"
              /\ jobs'[<<i, "parse">>].status = "none"
              /\ jobs'[<<i, "match">>].status = "none"
          BY <2>2, <2>3, <4>1 DEF Kinds
        <4> QED
          BY <1>1, <1>3, <2>0, <2>1, <3>2, <4>1, <4>2 DEF Kinds, Parsed
      <3>3. CASE x \in Live
        <4>1. \A k \in Kinds : jobs'[<<x, k>>] = jobs[<<x, k>>]
          BY <2>3, <2>6, <3>3 DEF Jobs, Live
        <4>2. JobsMatchState!(x)
          BY <3>3 DEF Inv, JobsMatchState
        <4> QED
          BY <1>1, <2>6, <3>3, <4>1, <4>2 DEF Kinds
      <3> QED
        BY <2>6, <3>2, <3>3
    <2>11. ParsedOnceAsDeclared'
      <3>1. scenarios[i] = 0
        BY <1>1, <1>3 DEF Inv, Untaken, Ids
      <3> QED
        BY <1>1, <2>0, <2>1, <3>1 DEF Inv, ParsedOnceAsDeclared, Parsed
    <2>12. ASSUME NEW w \in Workers PROVE Carries(w)'
      <3>1. ASSUME tx[w].pc # "idle"
            PROVE  /\ tx[w].job \in Jobs /\ jobs[tx[w].job].status # "none"
                   /\ tx[w].job[1] \in Ids /\ tx[w].job[1] # i
        <4>1. tx[w].job \in Jobs /\ jobs[tx[w].job].status # "none"
          BY <3>1 DEF Inv, Carries
        <4> QED
          BY <1>1, <4>1, JobPair DEF Inv, Untaken, Ids
      <3>2. tx[w].pc # "idle" => jobs'[tx[w].job].status # "none" /\ Row(w)' = Row(w)
        BY <1>1, <2>1, <2>2, <2>3, <3>1 DEF Row, Id
      <3>3. Open(w) => tx[w].job \notin completions
        BY DEF Inv, Carries, Open, OpenSteps
      <3> QED
        BY <1>1, <3>2, <3>3, WorkerStays
    <2>13. ASSUME NEW v \in Workers, NEW w \in Workers, v # w PROVE Apart(v, w)'
      BY <1>1, <2>13 DEF Inv, Apart, Open
    <2>14. ResetInOrder'
      <3>1. i \notin reset.rows /\ \A x \in reset.rows : x \in Nat
        BY <1>1 DEF Inv, ResetInOrder, TypeOK, Ids
      <3>2. \A x \in reset.rows : x <= issued'
        BY <1>1, <1>3, <3>1 DEF Inv, ResetInOrder
      <3> QED
        BY <1>1, <2>6, <3>1, <3>2 DEF Inv, ResetInOrder
    <2> QED
      BY <2>4, <2>5, <2>7, <2>8, <2>9, <2>10, <2>11, <2>12, <2>13, <2>14 DEF Inv
  <1> QED
    BY <1>2, <1>3 DEF Insert

------------------------------------------------------------------------------
(* The worker's steps before its commit *)

\* A step of worker w that changes at most its slot and the row of its job.
LEMMA WorkerStep ==
  ASSUME Inv, NEW w \in Workers, NEW t \in Task, tx' = [tx EXCEPT ![w] = t],
         UNCHANGED <<store, completions, Elsewhere>>, faults' \in Nat,
         jobs' \in [Jobs -> [status : JobStates, attempts : Nat]], Moved,
         Carries(w)', \A v \in Workers \ {w} : Apart(w, v)'
  PROVE  Inv'
PROOF
  <1>1. tx' \in [Workers -> Task] /\ \A v \in Workers : tx'[v] = IF v = w THEN t ELSE tx[v]
    BY DEF Inv, TypeOK
  <1>2. TypeOK'
    BY <1>1 DEF Inv, TypeOK, store, Elsewhere
  <1>3. Untaken' /\ Distinct' /\ Told' /\ JobsMatchState' /\ ParsedOnceAsDeclared'
    BY RowsStay DEF store, Elsewhere
  <1>4. Asked' /\ ResetInOrder'
    BY DEF Inv, Asked, ResetInOrder, Live, store, Elsewhere
  <1>5. ASSUME NEW v \in Workers PROVE Carries(v)'
    <2>1. CASE v # w
      <3>1. /\ tx[v].pc # "idle" => jobs[tx[v].job].status # "none" /\ tx[v].job \in Jobs
            /\ Open(v) => tx[v].job \notin completions
        BY DEF Inv, Carries, Open, OpenSteps
      <3> QED
        BY <1>1, <2>1, <3>1, WorkerStays DEF Moved, Row, Id, store
    <2> QED
      BY <2>1
  <1>6. ASSUME NEW u \in Workers, NEW v \in Workers, u # v PROVE Apart(u, v)'
    <2>1. CASE u # w /\ v # w
      BY <1>1, <1>6, <2>1 DEF Inv, Apart, Open
    <2>2. CASE u = w \/ v = w
      BY <1>6, <2>2 DEF Apart
    <2> QED
      BY <2>1, <2>2
  <1> QED
    BY <1>2, <1>3, <1>4, <1>5, <1>6 DEF Inv

\* The worker is free again: nothing is left to rely on.
LEMMA FreedWorker ==
  ASSUME Inv, NEW w \in Workers, tx' = [tx EXCEPT ![w] = Idle],
         UNCHANGED <<store, completions, Elsewhere>>, faults' \in Nat,
         jobs' \in [Jobs -> [status : JobStates, attempts : Nat]], Moved
  PROVE  Inv'
PROOF
  <1>1. Idle \in Task /\ Idle.pc = "idle"
    BY DEF Idle, Task
  <1>2. tx'[w] = Idle
    BY <1>1 DEF Inv, TypeOK
  <1>3. Carries(w)' /\ \A v \in Workers \ {w} : Apart(w, v)'
    BY <1>1, <1>2 DEF Carries, Apart, Open, OpenSteps
  <1> QED
    BY <1>1, <1>3, WorkerStep

\* The worker goes on in a transaction of its own: it relies on what it did.
LEMMA WorkerGoesOn ==
  ASSUME Inv, NEW w \in Workers, NEW t \in Task, tx' = [tx EXCEPT ![w] = t],
         UNCHANGED <<store, jobs, completions, Elsewhere, faults>>,
         t.job = tx[w].job, Open(w), t.pc \in OpenSteps, Carries(w)'
  PROVE  Inv'
PROOF
  <1>1. Moved /\ jobs' \in [Jobs -> [status : JobStates, attempts : Nat]] /\ faults' \in Nat
    BY DEF Moved, Inv, TypeOK
  <1>2. \A v \in Workers : tx'[v] = IF v = w THEN t ELSE tx[v]
    BY DEF Inv, TypeOK
  <1>3. \A v \in Workers \ {w} : Apart(w, v)'
    BY <1>2 DEF Inv, Apart, Open
  <1> QED
    BY <1>1, <1>3, WorkerStep

\* What pg-boss does to a job that is active is to move it on.
LEMMA JobMoves ==
  ASSUME Inv, NEW j \in Jobs, NEW job \in [status : JobStates, attempts : Nat],
         jobs' = [jobs EXCEPT ![j] = job], jobs[j].status # "none", job.status # "none",
         job.status = "completed" => jobs[j].status = "completed" \/ j \in completions
  PROVE  jobs' \in [Jobs -> [status : JobStates, attempts : Nat]] /\ Moved
PROOF
  <1>1. jobs' \in [Jobs -> [status : JobStates, attempts : Nat]]
    BY DEF Inv, TypeOK
  <1>2. \A x \in Jobs : jobs'[x] = IF x = j THEN job ELSE jobs[x]
    BY DEF Inv, TypeOK
  <1> QED
    BY <1>1, <1>2 DEF Moved

LEMMA RequeuedJob ==
  ASSUME NEW job \in [status : JobStates, attempts : Nat]
  PROVE  /\ Requeued(job) \in [status : JobStates, attempts : Nat]
         /\ Requeued(job).status \in {"retry", "failed"}
PROOF
  <1> DEFINE s == IF job.attempts < MaxAttempts THEN "retry" ELSE "failed"
  <1>1. s \in {"retry", "failed"} /\ s \in JobStates
    BY DEF JobStates
  <1>2. Requeued(job) = [job EXCEPT !.status = s]
    BY DEF Requeued
  <1> HIDE DEF s
  <1> QED
    BY <1>1, <1>2

\* Rolled back.
LEMMA ThrowStep ==
  ASSUME Inv, NEW w \in Workers, tx[w].pc # "idle", Throw(w),
         UNCHANGED <<store, completions, Elsewhere>>, faults' \in Nat
  PROVE  Inv'
PROOF
  <1> DEFINE j == tx[w].job
             job == IF jobs[j].status = "active" THEN Requeued(jobs[j]) ELSE jobs[j]
  <1>1. j \in Jobs /\ jobs[j].status # "none"
    BY DEF Inv, Carries
  <1>2. /\ job \in [status : JobStates, attempts : Nat] /\ job.status # "none"
        /\ job.status = "completed" => jobs[j].status = "completed"
    BY <1>1, RequeuedJob DEF Inv, TypeOK
  <1>3. jobs' = [jobs EXCEPT ![j] = job] /\ tx' = [tx EXCEPT ![w] = Idle]
    BY DEF Throw
  <1> HIDE DEF j, job
  <1>4. jobs' \in [Jobs -> [status : JobStates, attempts : Nat]] /\ Moved
    BY <1>1, <1>2, <1>3, JobMoves
  <1> QED
    BY <1>3, <1>4, FreedWorker

\* A worker that goes on keeps its job and its outcome.
LEMMA GotoSlot ==
  ASSUME Inv, NEW w \in Workers, NEW pc \in {"claim", "ack"} \cup OpenSteps, Goto(w, pc)
  PROVE  \E t \in Task : /\ t.pc = pc /\ t.job = tx[w].job /\ t.outcome = tx[w].outcome
                         /\ tx' = [tx EXCEPT ![w] = t] /\ tx'[w] = t
PROOF
  <1> DEFINE t == [tx[w] EXCEPT !.pc = pc]
  <1>1. t \in Task /\ t.pc = pc /\ t.job = tx[w].job /\ t.outcome = tx[w].outcome
    BY DEF Inv, TypeOK, Task
  <1>2. tx' = [tx EXCEPT ![w] = t]
    BY DEF Goto
  <1> HIDE DEF t
  <1>3. tx'[w] = t
    BY <1>2 DEF Inv, TypeOK
  <1> QED
    BY <1>1, <1>2, <1>3

\* A delivery begins: its job is active again.
LEMMA FetchStep ==
  ASSUME Inv, NEW w \in Workers, Fetch(w)
  PROVE  Inv'
PROOF
  <1>1. PICK j \in Jobs :
          /\ j[2] = Queue[w] /\ jobs[j].status \in {"created", "retry"}
          /\ jobs' = [jobs EXCEPT ![j] = [status |-> "active", attempts |-> jobs[j].attempts + 1]]
          /\ tx' = [tx EXCEPT ![w] = [Idle EXCEPT !.pc = "claim", !.job = j]]
    BY DEF Fetch
  <1> DEFINE job == [status |-> "active", attempts |-> jobs[j].attempts + 1]
             t   == [Idle EXCEPT !.pc = "claim", !.job = j]
  <1>2. job \in [status : JobStates, attempts : Nat] /\ job.status = "active"
    BY DEF Inv, TypeOK, JobStates
  <1>3. t \in Task /\ t.pc = "claim" /\ t.job = j
    BY DEF Idle, Task
  <1>4. jobs' = [jobs EXCEPT ![j] = job] /\ tx' = [tx EXCEPT ![w] = t]
    BY <1>1
  <1> HIDE DEF job, t
  <1>5. jobs' \in [Jobs -> [status : JobStates, attempts : Nat]] /\ Moved
    BY <1>1, <1>2, <1>4, JobMoves
  <1>6. tx'[w] = t /\ jobs'[j] = job
    BY <1>4 DEF Inv, TypeOK
  <1>7. Carries(w)' /\ \A v \in Workers \ {w} : Apart(w, v)'
    BY <1>1, <1>2, <1>3, <1>6 DEF Carries, Apart, Open, OpenSteps
  <1>8. faults' \in Nat /\ UNCHANGED <<store, completions, Elsewhere>>
    BY DEF Fetch, Inv, TypeOK, Elsewhere
  <1> QED
    BY <1>3, <1>4, <1>5, <1>7, <1>8, WorkerStep

\* The completion's key is claimed: by no other open transaction.
LEMMA ClaimStep ==
  ASSUME Inv, NEW w \in Workers, Claim(w)
  PROVE  Inv'
PROOF
  <1> DEFINE j  == tx[w].job
             pc == IF j \in completions THEN "ack" ELSE FirstStep(j)
  <1>1. /\ j \in Jobs /\ j[2] = Queue[w] /\ jobs[j].status # "none"
        /\ Queue[w] \in {"preflight", "parse"}
    BY IntakeAssumption DEF Claim, Inv, Carries
  <1>2. pc \in {"ack", "read", "load"} /\ pc \in {"claim", "ack"} \cup OpenSteps
    BY DEF FirstStep, OpenSteps
  <1>3. PICK t \in Task : /\ t.pc = pc /\ t.job = j
                          /\ tx' = [tx EXCEPT ![w] = t] /\ tx'[w] = t
    BY <1>2, GotoSlot DEF Claim
  <1>4. /\ UNCHANGED <<store, jobs, completions, Elsewhere>> /\ faults' \in Nat
        /\ Moved /\ jobs' \in [Jobs -> [status : JobStates, attempts : Nat]]
    BY DEF Claim, Elsewhere, Moved, Inv, TypeOK
  <1>5. Carries(w)'
    BY <1>1, <1>2, <1>3, <1>4 DEF Carries, Open, OpenSteps, FirstStep
  <1>6. \A v \in Workers \ {w} : tx'[v] = tx[v]
    BY <1>3 DEF Inv, TypeOK
  <1>7. \A v \in Workers \ {w} : Apart(w, v)'
    BY <1>3, <1>6 DEF Claim, Apart, Open
  <1> QED
    BY <1>3, <1>4, <1>5, <1>7, WorkerStep

\* The object is read, or its absence throws.
LEMMA ReadStep ==
  ASSUME Inv, NEW w \in Workers, NEW pc \in {"preflight", "parse"}, Open(w),
         Queue[w] = pc, ReadObject(w, pc, Results(tx[w].job)), UNCHANGED StepOnly
  PROVE  Inv'
PROOF
  <1>1. /\ tx[w].pc # "idle" /\ faults' \in Nat
        /\ UNCHANGED <<store, completions, Elsewhere, faults>>
    BY DEF Open, OpenSteps, Inv, TypeOK, StepOnly
  <1>2. CASE Throw(w)
    BY <1>1, <1>2, ThrowStep
  <1>3. CASE UNCHANGED jobs /\ \E o \in Results(tx[w].job) :
               tx' = [tx EXCEPT ![w].pc = pc, ![w].outcome = o]
    <2>1. PICK o \in Results(tx[w].job) : tx' = [tx EXCEPT ![w].pc = pc, ![w].outcome = o]
      BY <1>3
    <2>2. o \in {"none"} \cup Outcome /\ pc \in OpenSteps
      BY DEF Results, Outcomes, Outcome, Ended, Parsed, OpenSteps
    <2>3. PICK t \in Task : /\ t.pc = pc /\ t.job = tx[w].job /\ t.outcome = o
                            /\ tx' = [tx EXCEPT ![w] = t]
      <3> DEFINE t == [tx[w] EXCEPT !.pc = pc, !.outcome = o]
      <3>1. t \in Task /\ t.pc = pc /\ t.job = tx[w].job /\ t.outcome = o
        BY <2>2 DEF Inv, TypeOK, Task
      <3>2. tx' = [tx EXCEPT ![w] = t]
        BY <2>1 DEF Inv, TypeOK
      <3> QED
        BY <3>1, <3>2
    <2>4. tx'[w] = t
      BY <2>3 DEF Inv, TypeOK
    <2>5. Results(t.job)' = Results(t.job)
      BY <1>1, <2>3 DEF Results, Outcomes, store
    <2>6. Carries(w)'
      BY <1>1, <1>3, <2>3, <2>4, <2>5 DEF Inv, Carries, Open, OpenSteps
    <2> QED
      BY <1>1, <1>3, <2>2, <2>3, <2>6, WorkerGoesOn
  <1> QED
    BY <1>2, <1>3 DEF ReadObject

\* The row is in the state the job's update starts from, or the job throws.
LEMMA TransitionStep ==
  ASSUME Inv, NEW w \in Workers, tx[w].pc \in {"preflight", "parse"},
         TransitionFrom(w, Before(tx[w].job)), UNCHANGED StepOnly
  PROVE  Inv'
PROOF
  <1>1. /\ tx[w].pc # "idle" /\ faults' \in Nat /\ Open(w)
        /\ UNCHANGED <<store, completions, Elsewhere, faults>>
    BY DEF Open, OpenSteps, Inv, TypeOK, StepOnly
  <1>2. CASE Throw(w)
    BY <1>1, <1>2, ThrowStep
  <1>3. CASE Row(w).state = Before(tx[w].job) /\ Goto(w, "commit") /\ UNCHANGED jobs
    <2>1. PICK t \in Task : /\ t.pc = "commit" /\ t.job = tx[w].job
                            /\ t.outcome = tx[w].outcome
                            /\ tx' = [tx EXCEPT ![w] = t] /\ tx'[w] = t
      BY <1>3, GotoSlot DEF OpenSteps
    <2>2. Results(t.job)' = Results(t.job)
      BY <1>1, <2>1 DEF Results, Outcomes, store
    <2>3. Carries(w)'
      BY <1>1, <1>3, <2>1, <2>2 DEF Inv, Carries, Open, OpenSteps, Before, Row, Id, store
    <2> QED
      BY <1>1, <1>3, <2>1, <2>3, WorkerGoesOn DEF OpenSteps
  <1> QED
    BY <1>2, <1>3 DEF TransitionFrom

\* The parse has a row that waits for it: of one that is parsed the claim would
\* have been refused.
LEMMA LoadStep ==
  ASSUME Inv, NEW w \in Workers, LoadParseTarget(w)
  PROVE  Inv'
PROOF
  <1>1. /\ tx[w].pc = "load" /\ faults' \in Nat /\ Open(w)
        /\ UNCHANGED <<store, completions, Elsewhere, faults>>
    BY DEF LoadParseTarget, Open, OpenSteps, Inv, TypeOK, StepOnly
  <1>2. CASE Throw(w)
    BY <1>1, <1>2, ThrowStep
  <1>3. CASE Row(w).state = "PARSING" /\ Goto(w, "fetch") /\ UNCHANGED jobs
    <2>1. PICK t \in Task : /\ t.pc = "fetch" /\ t.job = tx[w].job
                            /\ tx' = [tx EXCEPT ![w] = t] /\ tx'[w] = t
      BY <1>3, GotoSlot DEF OpenSteps
    <2>2. Carries(w)'
      BY <1>1, <1>3, <2>1 DEF Inv, Carries, Open, OpenSteps
    <2> QED
      BY <1>1, <1>3, <2>1, <2>2, WorkerGoesOn DEF OpenSteps
  <1>4. ~AlreadyParsed(Id(w))
    <2>1. /\ tx[w].job \in Jobs /\ tx[w].job[2] = "parse" /\ tx[w].job \notin completions
      BY <1>1 DEF Inv, Carries
    <2>2. Id(w) \in Ids /\ <<Id(w), "parse">> \notin completions
      BY <2>1, JobPair DEF Id
    <2> QED
      BY <2>2 DEF Inv, JobsMatchState, AlreadyParsed, Live, Parsed
  <1> QED
    BY <1>2, <1>3, <1>4 DEF LoadParseTarget

LEMMA AcknowledgeStep ==
  ASSUME Inv, NEW w \in Workers, Acknowledge(w)
  PROVE  Inv'
PROOF
  <1> DEFINE j   == tx[w].job
             s   == IF jobs[j].status = "active" THEN "completed" ELSE jobs[j].status
             job == [jobs[j] EXCEPT !.status = s]
  <1>1. j \in Jobs /\ jobs[j].status # "none" /\ j \in completions
    BY DEF Acknowledge, Inv, Carries
  <1>2. /\ job \in [status : JobStates, attempts : Nat]
        /\ job.status = s /\ s # "none"
    BY <1>1 DEF Inv, TypeOK, JobStates
  <1>3. jobs' = [jobs EXCEPT ![j] = job] /\ tx' = [tx EXCEPT ![w] = Idle]
    BY DEF Acknowledge
  <1>4. faults' \in Nat /\ UNCHANGED <<store, completions, Elsewhere>>
    BY DEF Acknowledge, StepOnly, Inv, TypeOK
  <1> HIDE DEF j, s, job
  <1>5. jobs' \in [Jobs -> [status : JobStates, attempts : Nat]] /\ Moved
    BY <1>1, <1>2, <1>3, JobMoves
  <1> QED
    BY <1>3, <1>4, <1>5, FreedWorker

LEMMA FailStep ==
  ASSUME Inv, NEW w \in Workers, Fail(w)
  PROVE  Inv'
  BY ThrowStep DEF Fail, Fault, Open, OpenSteps, Inv, TypeOK

LEMMA CrashStep ==
  ASSUME Inv, NEW w \in Workers, Crash(w)
  PROVE  Inv'
PROOF
  <1>1. /\ tx' = [tx EXCEPT ![w] = Idle] /\ faults' \in Nat
        /\ UNCHANGED <<store, completions, Elsewhere>>
        /\ jobs' \in [Jobs -> [status : JobStates, attempts : Nat]] /\ Moved
    BY DEF Crash, Fault, Moved, Inv, TypeOK
  <1> QED
    BY <1>1, FreedWorker

\* A job expires, whether or not a worker still holds it.
LEMMA ExpiryStep ==
  ASSUME Inv, NEW j \in Jobs, Lapse(j) \/ Outlive(j)
  PROVE  Inv'
PROOF
  <1>1. /\ jobs[j].status = "active" /\ jobs' = [jobs EXCEPT ![j] = Requeued(jobs[j])]
        /\ UNCHANGED <<store, completions, Elsewhere, tx>> /\ faults' \in Nat
    BY DEF Lapse, Outlive, Fault, Inv, TypeOK
  <1> DEFINE job == Requeued(jobs[j])
  <1>2. /\ job \in [status : JobStates, attempts : Nat]
        /\ job.status \in {"retry", "failed"}
    BY RequeuedJob DEF Inv, TypeOK
  <1>3. jobs' = [jobs EXCEPT ![j] = job]
    BY <1>1
  <1> HIDE DEF job
  <1>4. jobs' \in [Jobs -> [status : JobStates, attempts : Nat]] /\ Moved
    BY <1>1, <1>2, <1>3, JobMoves
  <1>5. TypeOK'
    BY <1>1, <1>4 DEF Inv, TypeOK, store, Elsewhere
  <1>6. Untaken' /\ Distinct' /\ Told' /\ JobsMatchState' /\ ParsedOnceAsDeclared'
    BY <1>1, <1>4, RowsStay DEF store, Elsewhere
  <1>7. Asked' /\ ResetInOrder'
    BY <1>1 DEF Inv, Asked, ResetInOrder, Live, store, Elsewhere
  <1>8. ASSUME NEW v \in Workers PROVE Carries(v)'
    <2>1. /\ tx[v].pc # "idle" => jobs[tx[v].job].status # "none" /\ tx[v].job \in Jobs
          /\ Open(v) => tx[v].job \notin completions
      BY DEF Inv, Carries, Open, OpenSteps
    <2> QED
      BY <1>1, <1>4, <2>1, WorkerStays DEF Moved, Row, Id, store
  <1>9. ASSUME NEW u \in Workers, NEW v \in Workers, u # v PROVE Apart(u, v)'
    BY <1>1, <1>9 DEF Inv, Apart, Open
  <1> QED
    BY <1>5, <1>6, <1>7, <1>8, <1>9 DEF Inv

------------------------------------------------------------------------------
(* Commit: the row, its scenarios, the claim and the following job at once *)

LEMMA RowMoves ==
  ASSUME NEW old \in [state : RowStates, version : Nat, body : Bodied], NEW o \in RowStates,
         NEW row, row = [old EXCEPT !.state = o, !.version = @ + 1]
  PROVE  /\ row \in [state : RowStates, version : Nat, body : Bodied]
         /\ row.state = o /\ row.version = old.version + 1 /\ row.body = old.body
PROOF
  <1> DEFINE n == old.version + 1
  <1>1. n \in Nat
    OBVIOUS
  <1>2. row = [old EXCEPT !.state = o, !.version = n]
    OBVIOUS
  <1> HIDE DEF n
  <1>3. /\ row \in [state : RowStates, version : Nat, body : Bodied]
        /\ row.state = o /\ row.version = n /\ row.body = old.body
    BY <1>1, <1>2
  <1> QED
    BY <1>3 DEF n

LEMMA CommitStep ==
  ASSUME Inv, NEW w \in Workers, Commit(w)
  PROVE  Inv'
PROOF
  <1> DEFINE i == Id(w)
             o == tx[w].outcome
             j == tx[w].job
             row == [quotations[i] EXCEPT !.state = o, !.version = @ + 1]
             t == [Idle EXCEPT !.pc = "ack", !.job = j]
  <1>1. /\ j \in Jobs /\ i \in Ids /\ j = <<i, j[2]>> /\ j[2] \in {"preflight", "parse"}
        /\ jobs[j].status # "none" /\ j \notin completions
        /\ o \in Results(j) /\ o # "none" /\ quotations[i].state = Before(j)
    <2>1. /\ j \in Jobs /\ j[2] = Queue[w] /\ jobs[j].status # "none" /\ j \notin completions
          /\ o \in Results(j) /\ quotations[i].state = Before(j)
      BY DEF Commit, Inv, Carries, Open, OpenSteps, Row
    <2>2. i \in Ids /\ j = <<i, j[2]>> /\ j[2] \in {"preflight", "parse"}
      BY <2>1, JobPair, IntakeAssumption DEF Id
    <2>3. o # "none"
      BY <2>1 DEF Results, Outcomes, Parsed
    <2> QED
      BY <2>1, <2>2, <2>3
  <1>2. /\ quotations' = [quotations EXCEPT ![i] = row]
        /\ scenarios' = [scenarios EXCEPT ![i] = IF o \in Parsed THEN @ + 1 ELSE @]
        /\ jobs' = [k \in Jobs |-> IF k \in Following(i, o) THEN Created ELSE jobs[k]]
        /\ completions' = completions \cup {j}
        /\ tx' = [tx EXCEPT ![w] = t]
        /\ UNCHANGED <<objects, Elsewhere, faults>>
    BY <1>1 DEF Commit
  <1>3. /\ row \in [state : RowStates, version : Nat, body : Bodied]
        /\ row.state = o /\ row.version = quotations[i].version + 1
        /\ row.body = quotations[i].body
    <2>1. o \in RowStates
      BY <1>1 DEF Results, Outcomes, RowStates, Pending, Ended
    <2>2. quotations[i] \in [state : RowStates, version : Nat, body : Bodied]
      BY <1>1 DEF Inv, TypeOK
    <2> QED
      BY <2>1, <2>2, RowMoves
  <1>4. t \in Task /\ t.pc = "ack" /\ t.job = j
    BY <1>1 DEF Task, Idle
  <1> HIDE DEF row, t
  <1>5. /\ quotations' \in [Ids -> [state : RowStates, version : Nat, body : Bodied]]
        /\ \A x \in Ids : quotations'[x] = IF x = i THEN row ELSE quotations[x]
        /\ tx' \in [Workers -> Task]
        /\ \A v \in Workers : tx'[v] = IF v = w THEN t ELSE tx[v]
        /\ scenarios' \in [Ids -> Nat]
        /\ \A x \in Ids : scenarios'[x] = IF x = i /\ o \in Parsed THEN scenarios[x] + 1
                                                                  ELSE scenarios[x]
    BY <1>1, <1>2, <1>3, <1>4 DEF Inv, TypeOK
  <1>6. /\ jobs' \in [Jobs -> [status : JobStates, attempts : Nat]]
        /\ \A k \in Jobs : jobs'[k] = IF k \in Following(i, o) THEN Created ELSE jobs[k]
        /\ Created.status = "created"
    BY <1>2 DEF Inv, TypeOK, Created, JobStates
  <1>7. i \in Live /\ Live' = Live
    <2>1. o # "ABSENT" /\ quotations[i].state # "ABSENT"
      BY <1>1 DEF Before, Results, Outcomes, Parsed
    <2>2. \A x \in Ids : quotations'[x].state = "ABSENT" <=> quotations[x].state = "ABSENT"
      BY <1>3, <1>5, <2>1
    <2> QED
      BY <1>1, <2>1, <2>2 DEF Live
  <1>8. /\ i <= issued
        /\ i \in Nat /\ issued \in Nat
    BY <1>7 DEF Inv, Untaken, Live, Ids, TypeOK
  <1>9. TypeOK'
    BY <1>1, <1>2, <1>5, <1>6 DEF Inv, TypeOK, Elsewhere
  <1>10. Asked' /\ Distinct' /\ Told' /\ ResetInOrder'
    <2>1. Asked' /\ ResetInOrder'
      BY <1>2, <1>7 DEF Inv, Asked, ResetInOrder, Elsewhere
    <2>2. \A x \in Ids : quotations'[x].body = quotations[x].body
      BY <1>3, <1>5
    <2>3. Distinct'
      BY <1>7, <2>2 DEF Inv, Distinct, Live
    <2>4. Told'
      BY <1>2, <2>2 DEF Inv, Told, TypeOK, Elsewhere
    <2> QED
      BY <2>1, <2>3, <2>4
  <1>11. Untaken'
    <2>1. SUFFICES ASSUME NEW x \in Ids PROVE Untaken!(x)'
      BY DEF Untaken
    <2>2. x > issued => x # i
      BY <1>8 DEF Ids
    <2>3. \A k \in Kinds : <<x, k>> \in Jobs
      BY DEF Jobs
    <2>4. x > issued => \A k \in Kinds : <<x, k>> # j /\ <<x, k>> \notin Following(i, o)
      BY <1>1, <2>2 DEF Following
    <2>5. issued' = issued
      BY <1>2 DEF Elsewhere
    <2> QED
      BY <1>2, <1>3, <1>5, <1>6, <2>2, <2>3, <2>4, <2>5 DEF Inv, Untaken
  <1>12. ParsedOnceAsDeclared'
    <2>1. quotations[i].state \notin Parsed /\ scenarios[i] = 0
      BY <1>1 DEF Before, Inv, ParsedOnceAsDeclared, Parsed
    <2>2. o \in Parsed => Stored[quotations[i].body.object] = quotations[i].body.hash
      <3>1. o \in {"PARSING", "REJECTED"} \cup Outcomes(j[1]) /\ j[1] = i
        BY <1>1 DEF Results
      <3> QED
        BY <3>1 DEF Outcomes, Parsed
    <2> QED
      BY <1>3, <1>5, <2>1, <2>2 DEF Inv, ParsedOnceAsDeclared
  <1>13. JobsMatchState'
    <2>1. SUFFICES ASSUME NEW x \in Live' PROVE JobsMatchState!(x)'
      BY DEF JobsMatchState
    <2>2. \A k \in Kinds : <<x, k>> \in Jobs
      BY <2>1, <1>7 DEF Jobs, Live
    <2>3. JobsMatchState!(x)
      BY <2>1, <1>7 DEF Inv, JobsMatchState
    <2>4. CASE x # i
      <3>1. \A k \in Kinds : /\ jobs'[<<x, k>>] = jobs[<<x, k>>]
                             /\ <<x, k>> \in completions' <=> <<x, k>> \in completions
        BY <1>1, <1>2, <1>6, <2>2, <2>4 DEF Following
      <3>2. quotations'[x] = quotations[x]
        BY <1>5, <1>7, <2>1, <2>4 DEF Live
      <3> QED
        BY <2>3, <3>1, <3>2 DEF Kinds
    <2>5. CASE x = i /\ j[2] = "preflight"
      <3>1. /\ j = <<i, "preflight">> /\ quotations[i].state = "UPLOADED"
            /\ o \in {"PARSING", "REJECTED"}
        BY <1>1, <2>5 DEF Before, Results
      <3>2. Following(i, o) = IF o = "PARSING" THEN {<<i, "parse">>} ELSE {}
        BY <3>1 DEF Following, Parsed
      <3>3. /\ jobs'[<<i, "preflight">>] = jobs[<<i, "preflight">>]
            /\ jobs'[<<i, "match">>] = jobs[<<i, "match">>]
            /\ o = "PARSING" => jobs'[<<i, "parse">>].status = "created"
            /\ o = "REJECTED" => jobs'[<<i, "parse">>] = jobs[<<i, "parse">>]
        BY <1>6, <2>2, <2>5, <3>1, <3>2 DEF Kinds
      <3>4. \A k \in Kinds : <<i, k>> \in completions' <=>
                                <<i, k>> \in completions \/ k = "preflight"
        BY <1>2, <3>1
      <3>5. quotations'[i].state = o /\ quotations'[i].version = 2
        BY <1>1, <1>3, <1>5, <2>3, <2>5, <3>1
      <3> QED
        BY <2>3, <2>5, <3>1, <3>3, <3>4, <3>5 DEF Kinds, Parsed
    <2>6. CASE x = i /\ j[2] = "parse"
      <3>1. /\ j = <<i, "parse">> /\ quotations[i].state = "PARSING"
            /\ o \in {"PARSE_FAILED"} \cup Parsed
        BY <1>1, <2>6 DEF Before, Results, Outcomes
      <3>2. Following(i, o) = IF o \in Parsed THEN {<<i, "match">>} ELSE {}
        BY <3>1 DEF Following, Parsed
      <3>3. /\ jobs'[<<i, "preflight">>] = jobs[<<i, "preflight">>]
            /\ jobs'[<<i, "parse">>] = jobs[<<i, "parse">>]
            /\ o \in Parsed => jobs'[<<i, "match">>].status = "created"
            /\ o \notin Parsed => jobs'[<<i, "match">>] = jobs[<<i, "match">>]
        BY <1>6, <2>2, <2>6, <3>1, <3>2 DEF Kinds
      <3>4. \A k \in Kinds : <<i, k>> \in completions' <=>
                                <<i, k>> \in completions \/ k = "parse"
        BY <1>2, <3>1
      <3>5. quotations'[i].state = o /\ quotations'[i].version = 3
        BY <1>1, <1>3, <1>5, <2>3, <2>6, <3>1
      <3> QED
        BY <2>3, <2>6, <3>1, <3>3, <3>4, <3>5 DEF Kinds, Parsed
    <2> QED
      BY <1>1, <2>4, <2>5, <2>6
  <1>14. ASSUME NEW v \in Workers PROVE Carries(v)'
    <2>1. CASE v = w
      <3>1. j[2] = Queue[w]
        BY DEF Commit, Inv, Carries
      <3>2. tx'[v] = t /\ jobs'[j].status # "none" /\ j \in completions'
        BY <1>1, <1>2, <1>5, <1>6, <2>1
      <3> QED
        BY <1>1, <1>4, <2>1, <3>1, <3>2 DEF Carries, Open, OpenSteps
    <2>2. CASE v # w
      <3>1. tx[v].pc # "idle" =>
              /\ tx[v].job \in Jobs /\ tx[v].job[1] \in Ids
              /\ jobs[tx[v].job].status # "none"
        BY JobPair DEF Inv, Carries
      <3>2. tx[v].pc # "idle" => jobs'[tx[v].job].status # "none" /\ Row(v)'.body = Row(v).body
        BY <1>3, <1>5, <1>6, <2>2, <3>1 DEF Row, Id
      <3>3. Open(v) => tx[v].job \notin completions /\ tx[v].job # j
        BY <2>2 DEF Inv, Carries, Apart, Commit, Open, OpenSteps
      <3>4. tx[v].pc = "commit" => Id(v) # i
        <4>1. SUFFICES ASSUME tx[v].pc = "commit", Id(v) = i PROVE FALSE
          OBVIOUS
        <4>2. Before(tx[v].job) = Before(j) /\ tx[v].job \in Jobs /\ tx[v].job[2] = Queue[v]
          BY <1>1, <4>1 DEF Inv, Carries, Row
        <4>3. tx[v].job[2] = j[2]
          BY <1>1, <4>2, IntakeAssumption DEF Before
        <4>4. tx[v].job = j
          BY <1>1, <4>1, <4>2, <4>3, JobPair DEF Id
        <4> QED
          BY <3>3, <4>1, <4>4 DEF Open, OpenSteps
      <3>5. tx[v].pc = "commit" => Row(v)'.state = Row(v).state
        BY <1>5, <2>2, <3>1, <3>4 DEF Row, Id
      <3> QED
        BY <1>2, <1>5, <2>2, <3>2, <3>3, <3>5, WorkerStays
    <2> QED
      BY <2>1, <2>2
  <1>15. ASSUME NEW u \in Workers, NEW v \in Workers, u # v PROVE Apart(u, v)'
    BY <1>4, <1>5, <1>15 DEF Inv, Apart, Open, OpenSteps
  <1> QED
    BY <1>9, <1>10, <1>11, <1>12, <1>13, <1>14, <1>15 DEF Inv

------------------------------------------------------------------------------
(* ResetChallengeCommandHandler *)

\* A step of the reset that deletes no row.
LEMMA ResetStep ==
  ASSUME Inv, UNCHANGED <<quotations, scenarios, ResetOnly>>,
         objects' \subseteq Objects,
         reset' \in [pc : {"idle", "scenarios", "rows", "remove", "done"},
                     rows : SUBSET Ids, keys : SUBSET Objects, scenarios : SUBSET Ids],
         ResetInOrder'
  PROVE  Inv'
PROOF
  <1>1. TypeOK'
    BY DEF Inv, TypeOK, ResetOnly
  <1>2. Moved
    BY DEF Moved, ResetOnly
  <1>3. Untaken' /\ Distinct' /\ Told' /\ JobsMatchState' /\ ParsedOnceAsDeclared'
    BY <1>2, RowsStay DEF ResetOnly
  <1>4. Asked'
    BY DEF Inv, Asked, ResetOnly
  <1>5. ASSUME NEW v \in Workers PROVE Carries(v)'
    <2>1. /\ tx[v].pc # "idle" => jobs[tx[v].job].status # "none"
          /\ Open(v) => tx[v].job \notin completions
      BY DEF Inv, Carries, Open, OpenSteps
    <2> QED
      BY <2>1, WorkerStays DEF Row, Id, ResetOnly
  <1>6. ASSUME NEW u \in Workers, NEW v \in Workers, u # v PROVE Apart(u, v)'
    BY <1>6 DEF Inv, Apart, Open, ResetOnly
  <1> QED
    BY <1>1, <1>3, <1>4, <1>5, <1>6 DEF Inv

LEMMA ResetSelectStep == Inv /\ ResetSelect => Inv'
PROOF
  <1> SUFFICES ASSUME Inv, ResetSelect PROVE Inv'
    OBVIOUS
  <1> DEFINE ks == {quotations[i].body.object : i \in Live}
             q  == [reset EXCEPT !.pc = "scenarios", !.rows = Live, !.keys = ks]
  <1>1. ks \subseteq Objects
    BY DEF Inv, Untaken, Live, Ids, TypeOK, Calls
  <1>2. Live \subseteq Ids /\ \A i \in Live : i <= issued
    BY DEF Inv, Untaken, Live, Ids, TypeOK
  <1> HIDE DEF ks
  <1>3. /\ q \in [pc : {"idle", "scenarios", "rows", "remove", "done"},
                  rows : SUBSET Ids, keys : SUBSET Objects, scenarios : SUBSET Ids]
        /\ q.pc = "scenarios" /\ q.rows = Live
    BY <1>1, <1>2 DEF Inv, TypeOK
  <1>4. /\ reset' = q /\ reset.pc = "idle"
        /\ UNCHANGED <<quotations, scenarios, objects, ResetOnly>>
    BY DEF ResetSelect, store, ks
  <1> HIDE DEF q
  <1>5. ResetInOrder'
    BY <1>2, <1>3, <1>4 DEF Inv, ResetInOrder, ResetOnly
  <1> QED
    BY <1>3, <1>4, <1>5, ResetStep DEF Inv, TypeOK

LEMMA ResetScenariosStep == Inv /\ ResetScenarios => Inv'
PROOF
  <1> SUFFICES ASSUME Inv, ResetScenarios PROVE Inv'
    OBVIOUS
  <1> DEFINE is == {i \in Ids : scenarios[i] > 0}
             q  == [reset EXCEPT !.pc = "rows", !.scenarios = is]
  <1>1. /\ q \in [pc : {"idle", "scenarios", "rows", "remove", "done"},
                  rows : SUBSET Ids, keys : SUBSET Objects, scenarios : SUBSET Ids]
        /\ q.pc = "rows" /\ q.rows = reset.rows
    BY DEF Inv, TypeOK
  <1>2. /\ reset' = q /\ reset.pc = "scenarios"
        /\ UNCHANGED <<quotations, scenarios, objects, ResetOnly>>
    BY DEF ResetScenarios, store
  <1> HIDE DEF q
  <1>3. ResetInOrder'
    BY <1>1, <1>2 DEF Inv, ResetInOrder, ResetOnly, Live
  <1> QED
    BY <1>1, <1>2, <1>3, ResetStep DEF Inv, TypeOK

LEMMA ResetRemoveStep == Inv /\ ResetRemove => Inv'
PROOF
  <1> SUFFICES ASSUME Inv, ResetRemove PROVE Inv'
    OBVIOUS
  <1>1. PICK o \in reset.keys : /\ objects' = objects \ {o}
                                /\ reset' = [reset EXCEPT !.keys = @ \ {o}]
    BY DEF ResetRemove
  <1> DEFINE q == [reset EXCEPT !.keys = @ \ {o}]
  <1>2. /\ q \in [pc : {"idle", "scenarios", "rows", "remove", "done"},
                  rows : SUBSET Ids, keys : SUBSET Objects, scenarios : SUBSET Ids]
        /\ q.pc = reset.pc /\ q.rows = reset.rows
    BY DEF Inv, TypeOK
  <1>3. /\ reset' = q /\ reset.pc = "remove" /\ objects' \subseteq Objects
        /\ UNCHANGED <<quotations, scenarios, ResetOnly>>
    BY <1>1 DEF ResetRemove, Inv, TypeOK
  <1> HIDE DEF q
  <1>4. ResetInOrder'
    BY <1>2, <1>3 DEF Inv, ResetInOrder, ResetOnly, Live
  <1> QED
    BY <1>2, <1>3, <1>4, ResetStep

\* Undone before its commit, a reset has removed nothing; after it, the rows are gone.
LEMMA ResetEnds ==
  ASSUME Inv, reset.pc \in {"scenarios", "rows", "remove"},
         reset' = [Quiet EXCEPT !.pc = "done", !.rows = reset.rows],
         UNCHANGED <<store, ResetOnly>>
  PROVE  Inv'
PROOF
  <1> DEFINE q == [Quiet EXCEPT !.pc = "done", !.rows = reset.rows]
  <1>1. /\ q \in [pc : {"idle", "scenarios", "rows", "remove", "done"},
                  rows : SUBSET Ids, keys : SUBSET Objects, scenarios : SUBSET Ids]
        /\ q.pc = "done" /\ q.rows = reset.rows
    BY DEF Inv, TypeOK, Quiet
  <1>2. reset' = q /\ UNCHANGED <<quotations, scenarios, objects, ResetOnly>>
    BY DEF store
  <1> HIDE DEF q
  <1>3. ResetInOrder'
    BY <1>1, <1>2 DEF Inv, ResetInOrder, ResetOnly, Live
  <1> QED
    BY <1>1, <1>2, <1>3, ResetStep DEF Inv, TypeOK

\* The rows go when no transaction has updated one: no commit is under way.
LEMMA ResetRowsStep == Inv /\ ResetRows => Inv'
PROOF
  <1> SUFFICES ASSUME Inv, ResetRows PROVE Inv'
    OBVIOUS
  <1>1. CASE /\ reset' = [Quiet EXCEPT !.pc = "done", !.rows = reset.rows]
             /\ UNCHANGED <<quotations, scenarios>>
    BY <1>1, ResetEnds DEF ResetRows, store
  <1>2. CASE /\ quotations' = [i \in Ids |->
                   [quotations[i] EXCEPT !.state = "ABSENT", !.version = 0]]
             /\ scenarios' = [i \in Ids |-> 0]
             /\ reset' = [Quiet EXCEPT !.pc = "remove", !.rows = reset.rows,
                                       !.keys = reset.keys]
    <2> DEFINE row(i) == [quotations[i] EXCEPT !.state = "ABSENT", !.version = 0]
               q == [Quiet EXCEPT !.pc = "remove", !.rows = reset.rows, !.keys = reset.keys]
    <2>1. \A i \in Ids : /\ row(i) \in [state : RowStates, version : Nat, body : Bodied]
                         /\ row(i).state = "ABSENT" /\ row(i).body = quotations[i].body
      BY DEF Inv, TypeOK, RowStates
    <2>2. /\ q \in [pc : {"idle", "scenarios", "rows", "remove", "done"},
                    rows : SUBSET Ids, keys : SUBSET Objects, scenarios : SUBSET Ids]
          /\ q.pc = "remove" /\ q.rows = reset.rows
      BY DEF Inv, TypeOK, Quiet
    <2>3. /\ quotations' = [i \in Ids |-> row(i)] /\ scenarios' = [i \in Ids |-> 0]
          /\ reset' = q
      BY <1>2
    <2>4. /\ UNCHANGED <<objects, jobs, completions, requests, answers, tx, issued, calls, faults>>
          /\ reset.pc = "rows"
      BY DEF ResetRows, ResetOnly
    <2> HIDE DEF row, q
    <2>5. \A i \in Ids : /\ quotations'[i].state = "ABSENT"
                         /\ quotations'[i].body = quotations[i].body
                         /\ scenarios'[i] = 0
      BY <2>1, <2>3
    <2>6. Live' = {}
      BY <2>5 DEF Live
    <2>7. TypeOK'
      BY <2>1, <2>2, <2>3, <2>4 DEF Inv, TypeOK
    <2>8. Asked' /\ Untaken' /\ Distinct'
      BY <2>4, <2>5, <2>6 DEF Inv, Asked, Untaken, Distinct
    <2>9. Told'
      BY <2>4, <2>5 DEF Inv, Told, TypeOK
    <2>10. JobsMatchState' /\ ParsedOnceAsDeclared'
      BY <2>5, <2>6 DEF JobsMatchState, ParsedOnceAsDeclared, Parsed
    <2>11. ASSUME NEW w \in Workers PROVE Carries(w)'
      <3>1. /\ tx[w].pc # "idle" => /\ jobs[tx[w].job].status # "none"
                                    /\ tx[w].job \in Jobs /\ tx[w].job[1] \in Ids
            /\ Open(w) => tx[w].job \notin completions
        BY JobPair DEF Inv, Carries, Open, OpenSteps
      <3>2. tx[w].pc # "commit"
        <4>1. SUFFICES ASSUME tx[w].pc = "commit" PROVE FALSE
          OBVIOUS
        <4>2. tx[w].outcome # "none" /\ Id(w) \in Ids
          BY <3>1, <4>1 DEF Inv, Carries, Results, Outcomes, Parsed, Id
        <4> QED
          BY <4>1, <4>2 DEF ResetRows, Locked
      <3>3. tx[w].pc # "idle" => Row(w)'.body = Row(w).body
        BY <2>4, <2>5, <3>1 DEF Row, Id
      <3> QED
        BY <2>4, <3>1, <3>2, <3>3, WorkerStays
    <2>12. ASSUME NEW u \in Workers, NEW v \in Workers, u # v PROVE Apart(u, v)'
      BY <2>4, <2>12 DEF Inv, Apart, Open
    <2>13. ResetInOrder'
      BY <2>2, <2>3, <2>4, <2>6 DEF Inv, ResetInOrder
    <2> QED
      BY <2>7, <2>8, <2>9, <2>10, <2>11, <2>12, <2>13 DEF Inv
  <1> QED
    BY <1>1, <1>2 DEF ResetRows

------------------------------------------------------------------------------
(* The theorems *)

LEMMA HandlerStep ==
  ASSUME Inv, NEW w \in Workers, Handler(w)
  PROVE  Inv'
PROOF
  <1>1. ASSUME tx[w].pc # "idle"
        PROVE  /\ tx[w].job[2] = Queue[w]
               /\ Queue[w] = "preflight" => /\ Results(tx[w].job) = {"PARSING", "REJECTED"}
                                            /\ Before(tx[w].job) = "UPLOADED"
               /\ Queue[w] = "parse" => /\ Results(tx[w].job) = Outcomes(Id(w))
                                        /\ Before(tx[w].job) = "PARSING"
    BY <1>1 DEF Inv, Carries, Results, Before, Id
  <1>2. CASE PreflightRead(w)
    <2>1. Queue[w] = "preflight" /\ Open(w)
      BY <1>2 DEF PreflightRead, Inv, Carries, Open, OpenSteps
    <2> QED
      BY <1>1, <1>2, <2>1, ReadStep DEF PreflightRead
  <1>3. CASE FinishPreflight(w)
    <2>1. Queue[w] = "preflight"
      BY <1>3 DEF FinishPreflight, Inv, Carries
    <2> QED
      BY <1>1, <1>3, <2>1, TransitionStep DEF FinishPreflight
  <1>4. CASE ParseRead(w)
    <2>1. Queue[w] = "parse" /\ Open(w)
      BY <1>4 DEF ParseRead, Inv, Carries, Open, OpenSteps
    <2> QED
      BY <1>1, <1>4, <2>1, ReadStep DEF ParseRead
  <1>5. CASE FinishParse(w)
    <2>1. Queue[w] = "parse"
      BY <1>5 DEF FinishParse, Inv, Carries
    <2> QED
      BY <1>1, <1>5, <2>1, TransitionStep DEF FinishParse
  <1> QED
    BY <1>2, <1>3, <1>4, <1>5, FetchStep, ClaimStep, LoadStep, CommitStep, AcknowledgeStep
    DEF Handler

LEMMA NextInv == Inv /\ [Next]_vars => Inv'
PROOF
  <1> SUFFICES ASSUME Inv, [Next]_vars PROVE Inv'
    OBVIOUS
  <1>1. CASE UNCHANGED vars
    <2>1. UNCHANGED <<quotations, scenarios, ResetOnly, objects, reset>>
      BY <1>1 DEF vars, store, ResetOnly
    <2>2. ResetInOrder'
      BY <2>1 DEF Inv, ResetInOrder, Live, ResetOnly
    <2> QED
      BY <2>1, <2>2, ResetStep DEF Inv, TypeOK
  <1>2. ASSUME NEW r \in Requests, Request(r) PROVE Inv'
    BY <1>2, LookupStep, InsertStep DEF Request
  <1>3. ASSUME NEW w \in Workers, Handler(w) \/ Fail(w) \/ Crash(w) PROVE Inv'
    BY <1>3, HandlerStep, FailStep, CrashStep
  <1>4. CASE Reset
    BY <1>4, ResetSelectStep, ResetScenariosStep, ResetRowsStep, ResetRemoveStep, ResetEnds
    DEF Reset, ResetStops
  <1> QED
    BY <1>1, <1>2, <1>3, <1>4, ExpiryStep DEF Next

\* Every state of every behaviour satisfies the inductive invariant: rows, jobs,
\* claims, open transactions and the reset of QuotationIntake fit each other.
THEOREM Invariant == Spec => []Inv
  BY InitInv, NextInv, PTL DEF Spec

\* The state of QuotationIntake keeps its types.
THEOREM TypeCorrect == Spec => []TypeOK
PROOF
  <1>1. Inv => TypeOK
    BY DEF Inv
  <1> QED
    BY <1>1, Invariant, PTL

\* Clients that are answered with a quotation are answered with one of their own
\* content and note, and with the same one for the same content, for any number
\* of concurrent uploads and however their lookups and inserts interleave.
THEOREM AnswersAlwaysAgree == Spec => []AnswersAgree
PROOF
  <1>1. Inv => AnswersAgree
    BY DEF Inv, Told, Distinct, AnswersAgree
  <1> QED
    BY <1>1, Invariant, PTL

\* Each quotation has exactly the jobs done and to do that its state leads on from,
\* through any number of crashes, redeliveries and overruns.
THEOREM JobsFollowRows == Spec => []JobsMatchState
PROOF
  <1>1. Inv => JobsMatchState
    BY DEF Inv
  <1> QED
    BY <1>1, Invariant, PTL

\* The scenarios of a quotation are inserted exactly once, from the bytes its
\* upload declared.
THEOREM ParsedOnce == Spec => []ParsedOnceAsDeclared
PROOF
  <1>1. Inv => ParsedOnceAsDeclared
    BY DEF Inv
  <1> QED
    BY <1>1, Invariant, PTL

\* No reset, wherever it stops, removes a workbook whose quotation it was to
\* delete and has not.
THEOREM RemovedOnlyCleared == Spec => []RemovedAfterCleared
PROOF
  <1>1. Inv => RemovedAfterCleared
    <2>1. SUFFICES ASSUME Inv, NEW i \in Live \cap reset.rows
                   PROVE  quotations[i].body.object \in objects
      BY DEF RemovedAfterCleared
    <2>2. objects = Objects /\ i <= issued /\ i \in Ids
      BY <2>1 DEF Inv, ResetInOrder, Live
    <2> QED
      BY <2>1, <2>2 DEF Inv, Untaken, Calls
  <1> QED
    BY <1>1, Invariant, PTL
=============================================================================
