# Verification of the procurement program

TLA+ modules of what this repository does: how its workers, its API and its
browser workspace take a supplier's spreadsheet to a purchase order, how they
interleave, fail and repeat, what its pure algorithms compute, and what stays true
whatever happens. TLC checks the modules on small instances; TLAPS proves the main
results for every value of the constants.

## 1. The system

The program turns a supplier's spreadsheet into a reviewed quotation, negotiates
it with three simulated suppliers over two rounds, recommends an offer and
issues a purchase order. An API process and worker processes share one
PostgreSQL database and an object store; the job queue (pg-boss) is in the same
database. A browser workspace follows the rest by an event stream.

| Component | State | Operations | Talks to |
|---|---|---|---|
| Quotation intake (`quotation-upload.ts`, `upload-worker.ts`) | quotation row and state, scenarios, lines, evidence, object | reserve, complete upload, preflight, parse | object store, parser process, queue |
| Workbook parser (`packages/parser`) | the archive's inventory, a child process | inspect, spawn, read its answer, find header, runs, lines | intake's parse job |
| Catalog matching (`parser/src/matching.ts`) | none | score, order, propose, select | matching job |
| Quotation review (`matching-worker.ts`, `select-quotation-scenario.ts`, `resolve-*.ts`) | selected scenario, decisions of each line, the buyer's quantities, READY | match, select, resolve match, resolve quantities, start's checks | intake's rows, the quotation's row lock |
| Negotiation (`start-negotiation.ts`, `execute-negotiation-turn.ts`, `decision-worker.ts`) | negotiation row (state, version), turns, offers, fulfilment, capacity event, recommendation | start, turn, advance, decide | queue, model adapters, decision engine |
| Model adapters and supplier policy (`packages/agents`, `domain/src/supplier-policy.ts`) | one turn's attempt and repair advice | interpret a note, plan, propose, validate, repair | a negotiation turn, the policy preview |
| Decision engine (`packages/decision`) | none | eligibility, scores, dominance, tie-break, sensitivity | negotiation |
| Purchase orders (`prepare-`/`issue-purchase-order.ts`) | orders, counter, tokens in clients' hands | preview, issue, replay | negotiation row |
| Worker runtime (`main.ts`, `worker-execution.ts`, `pg-boss-bridge.ts`, `drizzle-unit-of-work.ts`) | process, jobs, `worker_completion`, `worker_failure`, open transactions, connection pool | start, fetch, claim, acknowledge, fail, expire, stop | all handlers |
| Event stream (`events.ts` of repository, route and client) | projection events, cursors | append, poll, connect, resume, drop | every writer, the workspace |
| Web workspace (`useWorkspaceProjection.ts`, `useWorkspaceCommands.ts`, the cards) | projection, command in progress, timers, form | refresh, command, invalidate, review | API, stream |
| Quote copilot (`chat-with-quote-copilot.ts`, its agent, route and page) | messages, a turn in progress, the page's conversation and copy of the quotation | ask, read, inform, stream, answer, suggest, apply | quotation, negotiation, workspace |
| Challenge reset, read models, transport, schema | see `PROJECT.json` | | |

### What is hard, and what makes each component correct

- **One transaction per job.** `IdempotentWorkerExecutionService` opens a
  transaction, inserts the claim and runs the handler inside it; every nested
  `unitOfWork.run` joins it (`drizzle-unit-of-work.ts:48`). A handler's effect
  and its claim therefore stand or fall together, and a job that is delivered
  again, for whatever reason, must change nothing.
- **READ COMMITTED.** A statement sees what others committed before it began.
  What a handler reads is stale as soon as another commits; only unique
  indexes, the compare-and-set of `transition` and `FOR UPDATE` order the rest.
- **Long handlers.** A turn calls two models between its statements. Its job can
  expire meanwhile (pg-boss delivers it again) and the round can end. It holds a
  connection all the while, and a parse asks for a second one.
- **The curveball.** S2 drops to 60% capacity between the rounds: each of its
  offers, made before or after, must be marked and none may win.
- **The ledger.** Numbers without gaps, one order for a negotiation, one for an
  idempotency key, none without a confirmed and current preview.
- **The review.** Decisions are only appended, and the one in force is found by
  `created_at`, which is when its transaction began. READY is sticky while what
  it promised can change, and three pieces of code judge a line: the gate, the
  start, the page.
- **Rules written twice.** The bounds of an answer are in the prompt and in three
  validations; the step of the workflow is worked out by the copilot's agent and
  by the page; each pair must agree, rounding and boundaries included.
- **Copies.** A turn of the chat reads quotation, decision and orders in separate
  statements; a suggestion names what was read, and is applied later, by a page that
  goes by another copy, to a quotation that has moved on.
- **Stream and page.** Ids are taken before they become visible; refreshes,
  commands and events overtake each other; timers outlive what they were set for.
- **The parser.** Output, exit, deadline and limits of the child come in any
  order; blanks, footers and repeated products cut a table, and no row may be
  lost or read twice.

`PROJECT.json` lists the hazards at their lines with the properties that watch them.

## 2. The modules

| Module | What it is |
|---|---|
| `Negotiation` | one negotiation as the workers run it, statement by statement |
| `NegotiationContract` | what the negotiation promises, jobs and transactions left out |
| `NegotiationProofs` | the theorems about it |
| `PurchaseOrder`, `OrderLedger`, `PurchaseOrderProofs` | previews and issue requests of a brand; what the ledger promises; the theorems |
| `QuoteSheet` | what was read of a workbook, and the rules that judge a scenario |
| `QuotationReview`, `ReviewGate`, `QuotationReviewProofs` | the review of one quotation, up to the start of negotiations; what it promises; the theorems |
| `QuotationIntake`, `QuotationIntakeProofs` | uploads, preflight and parse jobs of a brand, and a reset beside them; the theorems |
| `ProjectionStream` | projection events, the server's cursor, the browser's connection |
| `WorkspaceView` | what the page shows and offers of what it was told |
| `Workspace`, `WorkspaceProofs` | one tab over `ProjectionStream` and `WorkspaceView`: refreshes, commands, timers; the theorems about page and stream |
| `ReviewPage` | the review's cards and form, over `QuoteSheet`'s rules |
| `QuoteCopilot` | turns of the chat, what they read and suggest, the page's copy, the suggestions it applies |
| `DecisionEngine` | the decision as operators |
| `CommercialPolicy` | the policy read from the buyer's note, over `DecisionEngine` |
| `SupplierAgent` | the suppliers' tables, the prompt's rules, the validations |
| `Sourcing` | preview, two rounds of turns and the decision, composing the three above |
| `WorkbookSheets` | header, runs, lines and scenarios of a workbook, as operators |
| `WorkbookParser` | archive, child process and answer, over `WorkbookSheets` |
| `CatalogMatcher` | scores, candidates and selection |
| `WorkerRuntime` | the worker process, its pool and its handlers |
| `MCNegotiation`, `MCPurchaseOrder`, `MCQuotationReview`, `MCQuotationIntake`, `MCWorkspace` | symmetry for TLC, a workbook, the uploads, the openings |
| `Services` | `Sourcing`, `QuoteCopilot`, `WorkbookParser`, `WorkerRuntime` and `ReviewPage` (over `CatalogMatcher`) side by side, with what their parameters may be |
| `SourcingProofs` | theorems about negotiation and decision: validations, concessions, recommendations |
| `BuyerProofs` | theorems about copilot, matcher and review page |
| `RuntimeProofs` | theorems about the worker's pool, the parser's child and the scenarios of a workbook |
| `MCServices` | the instances of `Services` for TLC |

### Negotiation

`row`, `turns`, `offers`, `partial` (offers with lines that are not full-order
eligible), `capacityEvent`, `recommendation`, `jobs` and `completions` are what
is committed in the tables of the same meaning. `tx[w]` is what handler slot `w`
is doing: its step, its job, the version it read, and `writes`, what its
transaction wrote and nobody else sees. `Commit` publishes `writes` at once;
`Fail` and `Crash` drop them.

| Action | Code |
|---|---|
| `StartNegotiation` | `StartNegotiationCommandHandler.start`, `scheduleRoundOne` |
| `Fetch`, `Lapse`, `Outlive` | pg-boss: fetch, expiry of a job whose handler is gone, or still runs |
| `Claim` | `worker-execution.ts`: insert, conflict, wait for another's insert |
| `Prepare`, `Submit`, `CountTurns` | `ExecuteNegotiationTurnCommandHandler.execute`, its three groups of statements |
| `AdvanceToRoundTwo`, `AdvanceToDecision` | the methods of these names, with `transition`, `applyCapacityEvent` and `enqueue` |
| `Decide`, `Recommend` | `ContinueDecisionCommandHandler.execute` |
| `Commit`, `Acknowledge`, `Fail`, `Crash` | end of the transaction, of the delivery, an exception, the end of the process |
| `IssuePurchaseOrder` | the one effect of `PurchaseOrder` on the row |

Abstractions: a turn's conversation, prices and terms are left out, its result is
an offer or none; the decision picks any eligible offer or none; the domain
events that only feed the stream are left out (the capacity event, which code
reads back, is kept). `NegotiationContract` folds ROUND_1_COMPLETE and
CAPACITY_EVENT_APPLIED, which no transaction ever commits, into one step.

Four branches of the code turn out unreachable, defence in depth that no
behaviour needs: the miss of the compare-and-set in `transition`, the throw after
it in the decision, and the early returns of both phases of a turn for a job that
is its own round's (`OpenTurn` in the proofs: a claimed and uncommitted turn job
always finds its round open, because the round cannot close without it).

### PurchaseOrder

`state`, `orders` and `counter` are the committed rows; `tokens` the confirmation
tokens handed out; `pc`, `call`, `now` and `number` where each request stands and
its local variables; `answers` and the field `at` of an order are history. The
snapshot of a recommended negotiation cannot change (`FrozenAfterEvaluation`,
and order intents are never updated), so the digest and the selected offer are
the negotiation itself; a request may carry the preview of another negotiation
or of another actor. `Authorize` is the snapshot read FOR UPDATE with the checks
that follow it, `Allocate` the counter's upsert, `Insert` the conflict on the key
and the unique indexes, `Mark` the UPDATE of the state. Times are ticks. One
brand is modelled: nothing of a brand's ledger is shared with another's.
Unreachable in `PurchaseOrder`: the conflicts on offer and number, and the miss
of `markNegotiationCommitted`. The conflict on the key is reachable, by one key
sent for two negotiations at once, and ends in an error, not in two orders.

### QuotationReview

`quotation`, `selection`, `facts` (each line's rows of `match_decision`, in the
order they were committed), `quantity` and `intents` are the committed tables;
`tx[r]` is the transaction of request slot `r`: its step, its command, the time
it began, the quotation row it read and the quantities it read.

| Action | Code |
|---|---|
| `MatchCandidates` | `GenerateMatchCandidatesCommandHandler.execute`, one transaction |
| `Begin`, `RollBack` | `unitOfWork.run`: a request's transaction, and every refusal or loss of it |
| `Lock` | `loadForUpdate`, first statement of each of the three review commands |
| `Write` | what the command may refuse (`assertLatestMatch`, `selectedProductId`, the selected scenario) and its inserts |
| `Judge` | `resolutionSummary`, `hasBlockers`, `transition`, and the commit |
| `StartSelected` ... `StartCreate` | `StartNegotiationCommandHandler.start`, one action for each of its four reads |

`QuoteSheet` holds both rules: `Reviewed` is the gate (`matching-unresolved.ts`,
`commercial-review.ts`), `Negotiable` and `Unclear` what a start makes of the same
rows (`negotiation-start-facts.ts`). A workbook is data: for each line a quantity
or none, whether there is a unit price, the minimum quantities of its tiers,
whether its fields are ambiguous. The amounts of prices are left out.

Abstractions: a write is seen by its own transaction only until the commit, so
`Write` takes no row and `Judge` reads the tables as the command leaves them
(`Selection`, `Facts`, `BuyersQuantity`). The matching job is one step, because
nothing it reads can change while it runs: a resolution needs a row that is
there. Requests that name a line, match or product of another quotation, or a
stale policy, are refused without effect and are the same as `RollBack`. The
database clock is taken not to run backwards. `StartCreate` records the order
intent; from its commit on the negotiation is `Negotiation`'s.

`NoVersionConflict` shows that the optimistic check of `transition` is defence in
depth here: the row is locked from the read to the commit.

### QuotationIntake

`quotations`, `scenarios` (how often a quotation's scenarios were inserted) and
`objects` are the committed rows and the object store; `jobs` and `completions`
are as in `Negotiation`; `requests[r]`, `tx[w]` and `reset` are the open requests,
the workers' transactions and the reset, each with what it has read. `answers`
is history. The row of a deleted quotation keeps its body, which is what its jobs
carry as payload.

| Action | Code |
|---|---|
| `Complete`, `FindDuplicate`, `VerifyUpload` | `CompleteQuotationUploadCommandHandler.execute` up to its transaction: `findReservation` with `replay`, `findByContentHash`, `verifyUpload` |
| `Insert` | its transaction: row, event and preflight job, with both unique indexes |
| `Abandon` | any other end of a request: no catalog, an error, a crash |
| `PreflightRead`, `FinishPreflight` | `CompleteQuotationPreflightCommandHandler`: the object read, `finishPreflight` |
| `LoadParseTarget`, `ParseRead`, `FinishParse` | `ParseQuotationCommandHandler`: `loadParseTarget`, the read with the hash and the parser, `persistParsedQuotation` with `finishParse`, or `markParseFailed` |
| `Commit`, `Fetch`, `Claim`, `Acknowledge`, `Fail`, `Crash`, `Lapse`, `Outlive` | as in `Negotiation`; `Commit` publishes the new state, the scenarios and the next job |
| `ResetSelect` ... `ResetRemove`, `ResetStops` | `challenge-reset.ts`: the object keys, the scenarios, the quotations; then `remove` of each object; or its failure |

Abstractions: a workbook is the hash of its bytes, an object has the hash its
upload declared and that of what was put; whether a preflight is passed and what
the parser finds is a choice, made freely except that bytes of another hash than
declared are never parsed. Reserving an upload signs a URL and changes nothing.
The appended events and the children of a scenario are left out: no step of the
intake reads them. Matching, the next job, is `QuotationReview`'s.

`completedParseReplay` (`upload-worker.ts:25`) is unreachable: no delivery gets to
it once a parse is committed, because the claim committed with it. The code also
moves a quotation from UPLOADED to REJECTED, which `quotationTransitions`
(`states.ts:22`) does not list; nothing consults that table here.

### ProjectionStream, WorkspaceView and Workspace

`rows` are the brand's projection events with the state of the transaction that
wrote each; `nextId` is the identity column, `cursor` the `lastEventId` of the
connection in the server, `wire` what it has written and the browser has not
dispatched, `seen` and `lastEventId` the browser's. `base` is where the last fresh
connection began. `db`, `live` and `made` stand for the server: a quotation is the
set of facts that are true of it, which is all the page tells apart. The others
are the refs and state of the page's hooks; `runs` are the refreshes in flight,
`commands` the commands. `applied`, `behind` and `due` are history.

| Action | Code |
|---|---|
| `Insert`, `CommitRow`, `AppendRow`, `EraseRows` | an event's insert and its commit; both at once; the reset's delete |
| `Connect`, `Poll`, `Drop` | `streamProjectionEvents` with `Last-Event-ID`, `pollProjectionEvents`, its end after three failures or the network's |
| `Dispatch`, `Receives` | the EventSource; `consume`, `isRelevant`, the 50 ms debounce |
| `Breaks` | the stream's error: `onInvalidate`, a refresh with two retries |
| `Debounced`, `MarksStale` | the two timers, the second with the handle that may name another refresh's |
| `ReadsQuotation`, `ReadsNegotiation`, `RequestFails` | `loadWorkspace`, its reads in their order |
| `Answered`, `Overtaken`, `FailsRefresh`, `Retries` | what follows: shown if `refreshSequence` is still the refresh's, else dropped or tried again |
| `Gives`, `Handles`, `Loses`, `ReadsBack`, `Finishes...` | the commands of `useWorkspaceCommands.ts`: begin, the server's effect or refusal, the lost answer, the read after it, finish |
| `Asks`, `Confirms`, `StartsAgain` | the matching poll or Retry, the policy's confirmation, `clearWorkspace` |

`WorkspaceView` has the cards: `CurrentWorkspaceStep` picks the card, each card's
operator the commands it enables. The server is reduced to what it tells the page:
a command is one step, and the modules of the workflow say what it does. A
projection is read at one moment, although the code reads it in several
statements. `EraseRows` takes the rows of open transactions with
it; in the code the reset waits for them or leaves their events behind, about a
quotation no page has open any more (`isRelevant`).

### ReviewPage and CatalogMatcher

`review` is what is stored, `shown` (`page` in the module) the page's copy, `form`
the quantities typed. `Include`, `Exclude` and `Submit` are the commands of the two
cards; `Elsewhere` another tab or an applied suggestion; `Type` and `UseForAll` the
form; `Refresh` a refresh with or without the card's remount, which loses the form.
`Reasons` is the read model's (`read-models/quotation.ts`), `ValidQuantity` the
form's check, `Advised` what the copilot's tool calls safe, and all are compared
with `Reviewed` and `Priced` of `QuoteSheet`, the gate's rules. The matcher decides
what is selected and proposed to begin with: `CatalogMatcher` has the scores of
`matching.ts` in exact thousandths. A text is what it is to each product, the SKU,
a misreading of it, one or two edits from it, or another; the distance itself is
not computed.

### QuoteCopilot

`quotation` is what is committed, in the parts that separate statements read: the
selected layout, the lines with their decisions, whether there is a negotiation, a
decision, an order. A decision of a line has a number, and a match id of the code is a
line with such a number, so that the id a suggestion names ceases to be the latest when the
line is decided again. `turn[t]` is a request on the server with what it still has to
read (`left`) and what it has read (`view`); `page` the browser's conversation, its `copy`
of the quotation and a refresh in flight; `sent` the commands of the page.

| Action | Code |
|---|---|
| `Send` | `sendCopilotMessage`; another tab's turn waits for nothing of this page |
| `Read`, `Ask`, `Inform` | `downstreamContext`: the quotation's reads in any order; the question kept at once on the streaming route; the reads downstream, in any order, if a negotiation was found; the step the model is told |
| `Stream`, `Respond`, `Fail` | the model, and `validCopilotSuggestions` over what the turn has read |
| `Answer`, `Tell` | both messages kept; the conversation the route answers with, read after that |
| `Receive`, `Break` | the page takes the answer, or loses it |
| `Load`, `LoadPart`, `Show` | `loadWorkspace`: conversation and quotation, read part by part, replace what the page has |
| `Apply`, `Perform`, `ReadAnew`, `Finish`, `Drop` | a suggestion's card, judged by the page's copy (`CanApply`); the command, judged by the server (`Effect`, `assertLatestMatch`); the client's reads after it; its answer, refusal or loss |
| `MoveOn`, `SetClock` | the workflow in other hands; the server's clock, which may stand or go back |

The model's text is left out; what it may suggest is any suggestion the parser of its
answer lets through. `offers` pairs a suggestion with the decision its line had when the
model was shown it, and `since` is the stage at which a turn was sent: both are history,
which no action tests.

### DecisionEngine, CommercialPolicy, SupplierAgent and Sourcing

`DecisionEngine` is `packages/decision` in exact arithmetic: weights are twentieths
and scores integers over a common denominator, where the code has decimals of
twenty digits. `CommercialPolicy` is the policy read from the note and its checks.
`SupplierAgent` has both tables of `supplier-policy.ts`, the prompt's requirements
(`Obeys`) and the validations in the code's order (`Refusal`). `Sourcing` runs them:
`PreviewPolicy`, `PlanMove`, `Propose`, `Truncate`, `Refuse`, `GiveUp` for a turn with
its repair attempt, and `Decide` over the latest offer of each supplier. The
language models are external: a proposal is any member of `Answers`, right, or
wrong in one way. The schema's bounds of each installment and of the message are
left out (`SchemaValid`): the model answers under the same schema. When turns overlap or fail is `Negotiation`'s.

### WorkbookSheets and WorkbookParser

`WorkbookSheets` follows `discovery.ts`, `workbook-values.ts` and `workbook.ts`: the
header that scores best, the runs, lines and scenarios, including columns counted
from zero where zero also means not found. A scenario is under the place of its sheet and
of its run, which is what the code numbers and labels it by; the filter for empty runs
is left out, as there are none (theorem `TableIsCut`). `WorkbookParser` is the way there:
`OpenArchive`, `InspectEntry`, `InspectParts` are the preflight's checks on the
archive; `Spawn`, `Parse`, `Write`, `Exit`, `Crash` the child; `Data`, `Deadline`,
`Close` the events of `runParserIsolated`, in any order; `Answer` what the caller
gets. Decompressing and reading XML are external; number formats, evidence, the sizes
the parent's schema allows a workbook and the reasons of a refused entry are left out.

### WorkerRuntime

`process` is how far the process is in starting and stopping; `handlers[<<j, a>>]`
is attempt `a` at job `j` with the connections it holds; `waiting` the pool's queue.
`RunUnit` is `DrizzleUnitOfWork.run`: it joins the open transaction, or asks the pool.
`Read` is the parse's read of its target on the repository's own database, a second
connection. `Claim` waits for another attempt's claim; `RecordFailure` is a unit of
work of its own. `Expire` is pg-boss's, only where a handler waits for a
connection, a claim or a model. pg-boss and pg are external.

## 3. The runs

| Run | Configuration | Distinct states | Question |
|---|---|---|---|
| `overlap` | S1, S2, S3; two turn slots and the decision slot; two deliveries; one fault; handlers may outlive their jobs; symmetry | 401k | is everything committed consistent, does it keep the contract? |
| `serial` | two suppliers, one turn slot, two faults, no overrun; fair | 71k | does a complete round always close, does the negotiation conclude? |
| `strands` | two suppliers, two turn slots, no faults; fair | 5k | finding 1 |
| `issue` | two requests, negotiations, keys and previews, one actor; three instants; fair | 222k | do the requests implement the ledger, and is each answered? |
| `review` | two request slots and the job, four transactions; two scenarios, three lines, two products; symmetry | 229k | do the commands implement the gate? |
| `ambiguity` | one request at a time, five transactions | 362k until found | finding 2 |
| `missed` | one request at a time, three transactions | 460 until found | finding 3 |
| `intake` | two requests, one handler for each queue, two uploads of one workbook (one changed after its hashing) and a key used twice; one fault, one reset; fair | 468k | is one workbook one quotation, parsed once, and does it settle? |
| `follow` | one tab, two events, two refreshes and one command in flight, two commands or faults, one quotation; four openings | 2.26M | does the page only go forward, and miss nothing it was told? |
| `late` | the same | 2k until found | finding 4 |
| `services` | five services side by side, see below | 2.86M | does each keep its promises? |
| `trapped` | the review page alone | 24 until found | finding 5 |

`services` checks parts that share no state: a behaviour is one of the service it
starts with, the variables of the others being off. *Sourcing*: two products, each
answer at either end of its price and term bounds or wrong in one of fifteen ways,
in every turn. *Copilot*: a turn of this page and one of another tab, one line, and four moves among
them: messages, refreshes, applied suggestions, steps of the workflow and of a clock of
two readings.
*Parser*: all 4^6 tables of six rows over two products, blank and footer; other headers, a second and a hidden
sheet; twelve damaged or oversized archives; envelopes to one chunk past the limit.
*Worker*: a parse, a match and a turn, two attempts each (one of the jobs handed
out again), three connections. *Review*: four lines, one with tiers, one without a price, one near two
products, one ambiguous and misread; three commands from this tab or another.

**Bounds.** `MaxAttempts`, `MaxFaults`, `MaxTime` and `MaxTokens` bound
redeliveries, faults, the clock and previews. Two turn slots give every pair of
overlapping handlers, of one job or of two; a third only adds handlers that wait
on the same claims and the same row. Three suppliers in `overlap` are the code's
number; two keep a first and a last turn of each round in the liveness runs. One
fault reaches a throw, a crash or an overrun at every step, and the redelivery
that follows it. Two negotiations and two keys give every collision of the
counter and of the key; three instants put a preview before, at and past its
expiry and the offer's. One actor is enough there, for a preview of another
actor's only fails `ConfirmedInTime`'s check; the theorems have any number. `MaxBegun` bounds the transactions of a review: four are the job and any three
commands, enough to lock, overtake, resolve one match twice and complete a
review from two sides. The workbook has a line the matcher is sure of, one it is
not, an ambiguous one and one that only the buyer's quantity prices. `MaxCalls` is two in `intake`, so that two uploads race; a second
quotation is only accepted after a reset, so the jobs of a deleted quotation meet
those of its successor. Two handlers of one queue, which `overlap` covers, add
only one that waits for the claim. In `follow`, two ids are enough to commit in the
other order and to have an event before and after a reconnect; two refreshes for
one to overtake the other; two of `MaxSpent` for a command that fails, or a drop
during a command. Of the copilot's four
moves the first is a message: the others let a quotation become negotiated, decided and
ordered between the reads of that turn; let a line be decided again between the model's
answer, the page's refresh and the command; let one suggestion be applied twice; or
are the other tab's turn and a clock set back while both run. The model suggests ids there
are, ids there will only be later, and what must be dropped. The worker's pool has 12 connections and three attempts; three
jobs of three queues, two attempts and three connections let the handlers of the
parse, its second attempt among them, meet a pool that others have filled.
The theorems of section 5 do not depend on any of these.

**Deadlock** is not checked: a negotiation that has its order, or whose jobs are
used up, really stops, a ledger or a tab whose bounds are reached does too, and so
does each service when its turns, messages, file or process are done.
`EveryRequestEnds`, `NegotiationConcludes`, `EveryQuotationSettles` and
`SomeHolderGoesOn` say what must not stop.

**Fairness.** `Negotiation`: weak fairness of each slot's delivery and of each
handler's next step (a worker polls for ever; a started handler runs on), and of
`Lapse` (pg-boss's maintenance expires active jobs). Nothing obliges a fault.
`PurchaseOrder`: strong fairness of a request's steps, because PostgreSQL grants
a row lock in the order it was asked for, so that a waiter cannot be passed over
for ever. Ticks, previews, recommendations and failures are not fair.
`QuotationIntake`: weak fairness of each worker (it polls for ever, every step of
its handler returns, the parser is killed after 30 s) and of expiry; requests,
faults and the reset are not fair. Two deliveries cover the one fault.
The other modules state no liveness: their steps are people's, browsers' or
models', or their bounds end the behaviour; of the pool, `SomeHolderGoesOn` states
as an invariant what liveness would need.

**What some properties rest on.** `PriorityServed` holds for the suppliers' tables
and the weights of a priority; it is not true of any weights and any offers. `AnswerFollowsQuestion` speaks of the two messages of one turn: two
turns at once may interleave in the list. `NonePassedOver` speaks of events
committed before the cursor reached their ids, on a stream that began before them;
finding 4 is about the others. `ToldAStageThatWas` is about stages: of the steps of a
review, which can go back, what is read in several statements may add up to one that
never was, and only the page's agreement with it is checked. `AppliedAsShown` is about
matches: a quantity and a layout name no version, and what they replace may be
something else than the model was shown. `SomeHolderGoesOn` asks for fewer parses at once
than the pool has connections: twelve parse jobs that each expire while slow turns
hold the pool, and are then all granted one connection, would wait for each other's
second one for good. `RefreshesForward` is about refreshes: a command's
answer may replace a newer refresh, which the next event repairs.

## 4. Findings

1. **`strands` / `FirstRoundHandled`** - `execute-negotiation-turn.ts:142`. A
   round is closed by the transaction that counts three turns. Two that overlap
   each count at READ COMMITTED before the other commits: both return, both
   commit, and no job is left that counts again. The round is complete and the
   negotiation stays in it. `challenge.md:48` says that after the first round
   completes the system should handle a curveball. With one worker process and
   handlers shorter than their jobs' expiry it cannot happen: `RoundCloses` in
   `serial`, `RoundAlwaysCloses` for every number of jobs and attempts. Locking the
   negotiation row before the count would remove it.
2. **`ambiguity` / `AmbiguityBehindGate`** - `negotiation-start-facts.ts:82`.
   READY belongs to the quotation, not to a scenario, and is never taken back.
   The start checks product, quantity and price of the lines but not whether
   their fields are ambiguous, as the gate does: after a clean layout made the
   quotation READY the buyer can select another with ambiguous lines and start.
   A test (`selection-and-match.test.ts:58`) says the gate keeps ambiguity
   behind it. What the start does re-check is enough for everything else:
   `GateAgrees`.
3. **`missed` / `AllResolvedIsReady`** - `matching-worker.ts:65`. Only the three
   commands judge the gate. If the scenario is selected before the matching job
   commits and every line is matched at once, the review is complete and nobody
   opens the gate; the workspace, which says it will update when the review is
   ready (`MatchCard.tsx:49`), has nothing more to ask of the buyer.
4. **`late` / `ResumesWithoutGap`** - `projection-event.ts:34`. An event takes its
   resume id at insert and is visible at commit, and the stream asks only for ids
   above the last it read. Of two transactions that commit in the other order the
   smaller id is never delivered, on this connection or after a reconnect, though
   `events.ts:48` describes a resumable stream. The page is repaired by the next
   event, or not at all if there is none.
5. **`trapped` / `NoLineTrapped`** - `CommercialReviewCard.tsx:116`. A matched line
   with a quantity and no usable price is shown with a quantity field in place of
   its Exclude button, and no quantity takes its reasons away. The card says
   "Exclude any line that cannot be priced safely" (`:178`). Only a suggestion of
   the copilot, or a reset, gets the buyer past it.

Seen while modelling, without a run of their own, because no line promises
otherwise or a theorem says it better:

- The matcher loses what it corrects: a SKU that one look-alike character of the
  text hides is at distance zero without being exact, scores nothing and is not
  even proposed, while one two edits away is (`matching.ts:83`, theorem
  `MisreadIsLost`).
- A repeat of an issue request that overlaps the first is refused with 409 although
  its own order exists, the key being looked up before the row is locked
  (`issue-purchase-order.ts:83`). No second order is ever created.
- An upload answered with a duplicate's quotation does not record its key
  (`quotation-upload.ts:105`); the same key is later taken for another workbook.
  A duplicate that was rejected or failed to parse is the answer for ever (`:99`).
- A second table under two blank rows that repeats products of the first is cut in
  two where it does, the products seen being kept (`workbook-values.ts:86`). A role
  named in the first column is found again in a later one (`discovery.ts:47`).
- The start reads quantities and decisions in two statements and locks nothing
  (`negotiation-start-facts.ts:46`); sending a confirmation token twice starts two
  negotiations; two lines resolved to one product make every start fail
  (`db/src/schema/quotation.ts:142`).
- A workbook verified before a reset removes its object and inserted after it has a
  row that never settles: the exception `EveryQuotationSettles` names.
- The three review commands ask for the quotation's state, which a started negotiation
  leaves at READY, and for no negotiation (`select-quotation-scenario.ts:46`): a page
  loaded before another tab started it still applies a suggestion, although the model
  is told that the quotation is immutable then (`quote-copilot-context.ts:180`).
- A first connection is sent nothing of what lies between the page's read and its
  own (`routes/events.ts:126`); a second stale timer replaces the first without
  clearing it (`useWorkspaceProjection.ts:71`); a copilot's answer that arrives
  after a reset is shown under the new quotation (`workspaceCopilotCommands.ts:61`).

`NegotiationConcludes` names its exception: a job that uses up its deliveries is
dropped, and since no code sets FAILED its negotiation waits for ever. A
recommendation without a winner also ends a negotiation, in RECOMMENDED.

## 5. The proofs

The proof modules of `Negotiation`, `PurchaseOrder`, `QuotationReview`,
`QuotationIntake` and `Workspace` each rest on one inductive invariant `Inv` and are
laid out alike: `InitInv`, one lemma per action, the induction step, `Invariant`,
then a theorem for each property. `RuntimeProofs`, `BuyerProofs` and `SourcingProofs` do
the same for one or two properties of each service; as `Services` is what TLC checks,
their theorems are about its `Spec`, and `service` says which service a state is of.

Only these are assumed of the constants, and TLC evaluates each on the run's values:
`NegotiationAssumption`, `PurchaseOrderAssumption`, `NoCallAssumption`,
`SheetAssumption`, `IntakeAssumption`, `WorkspaceAssumption`, both `ReviewAssumption`s,
`SourcingAssumption`, `ParserAssumption`, `WorkerAssumption` and `CopilotAssumption`. Of those that say
something of the program: an order has finitely many products, with quantities and
baseline prices above zero, and an answer of a model is one that its schema types
(`SourcingAssumption`); a sheet is a sequence of rows, each a sequence of cells
(`ParserAssumption`); a quotation the chat begins with is one the workflow can be at (each stage follows from
the one before, an undecided line has no status), and what the model suggests has the
fields of its kind (`CopilotAssumption`).

**Negotiation.** The properties are not inductive: they speak of what is
committed, while the danger is in what open transactions are about to commit.
`Inv` adds, for each handler, what it has read and written at each step
(`Handler`), and what of it must still be true when it commits. The argument is
that a turn job is claimed by one transaction and completed by none
(`OpenTurn`), so its round cannot have closed, so the row still has the version
it read; that whoever moves the row is the only one with a turn of that round in
flight (`MoverIsAlone`), so the offers it marks or the jobs it enqueues are all
there are; and that the row's moves are therefore exclusive (`Exclusive`).
`StatementStep` reduces every action that is not a commit to the one handler it
changes. `KeepsContract` maps the commit of a turn to `Answer` (with the closing
of the round if it is the last), the commit of the decision to `Recommend`, and
everything else to a stutter. `RoundAlwaysCloses` has one more
hypothesis, `OneTurnSlot`: handlers of turns do not overlap. Then nobody commits a
turn between a handler's count and its commit, so that a handler which goes to its
commit without moving the row knows another turn is missing (`LeavesRoundOpen`).
That hypothesis is what finding 1 lacks.

**PurchaseOrder.** `Inv` says that a request past `Authorize` still finds its
negotiation RECOMMENDED and one past `Allocate` still holds the next number,
because no other request holds the row or the counter (`Apart`). `CommitFacts`
collects what that gives at the commit: no order has its negotiation, key or
number. `KeepsLedger` maps `Commit` to `Issue` and `Reply` to `Tell`.

**QuotationReview.** That the latest decision by `created_at` is the one
committed last (`LatestIsLast`) follows from an order on each line's rows
(`Ordered`): a request names a row that was committed, and so had begun, before
the request began (`Informed`), and is refused unless that row is the latest; so
it appends a row that began later than all the others, provided nothing is
appended between its check and its commit, which the row lock gives
(`Exclusive`, `StillAccepted`). `ReviewedIsNegotiable` compares the two rules.
`KeepsGate` maps `Judge` to `Select`, `Resolve` or `SetQuantities`, the job to
`Match`, and everything else to a stutter.

**CatalogMatcher.** `ReviewAssumption` of `Services` (readings of each text, ranks, a
`NoProduct` outside the catalog) is the only hypothesis. The possible scores are few
(`Scores`), so that what is selected is either the text's own SKU or the one product
that reads within one edit and is described: every other pair of scores is less than the margin
apart, or below the threshold. `MisreadIsLost` states what the code does.

**Review page.** `PageAgrees` needs that what is stored is typed (`ReviewNext`) and
then compares two rules line by line: a line of the page has no reason exactly if
the gate judges it clear (`ClearIsReasonless`, `StepIsGate`), and the gate
finds a price for any quantity at or above the lowest tier, which is the minimum the
form checks and the copilot advises (`LowestTier`, `PageIsGate`). Candidates are
products because that is all the matcher proposes (`ProposedAreProducts`).

**Quote copilot.** `AnswerFollowsQuestion` is inductive once the times are numbers:
an answer is dated after its question by construction of `AnsweredAt`, whatever the
clock did. The two others rest on how a copy read part by part relates to the quotation
it was read of. Decisions are only appended: a match that was once a line's latest still is, or
the line has gone on to a greater number (`Past`). Stages are only added (`Forward`), each
after the one before (`Committed`), whoever moves the quotation (`CopilotForward`). So each part
of a view, whichever copy it is in, is past, and no part claims a stage that is not there
(`Seen`). `ToldAStageThatWas` needs the other bound too: a stage reached before the turn was sent
is found by every statement sent after it (`Staged`). A turn that found no negotiation
asks for nothing downstream, rightly, for there was none when it was sent. The two packages then
compute the same step of any view (`StepsAgree`). `AppliedAsShown` follows a suggestion
from the model to the command: whatever is kept, streamed, loaded, shown or sent came
through the validation (`OffersInv`), so it names a decision that was the line's latest,
as the model was shown it (`Sound`); if its id is the latest still, when the
server compares them under the row's lock, it is that decision and no other.

**Parser and worker.** `AnswerIsWhole` is not inductive: a child could end well with
chunks still on their way. `ParserInv` adds that what was written is what is in the
pipe and what was received (`Flow`), that a child that ended by itself wrote all of
it, and that the runner settles well only on an empty pipe (`Settlement`).
`SomeHolderGoesOn` rests on `WorkerInv`: a handler's step says how many connections it
holds, and who waits stands at the step that asks, once. If every holder were
blocked, each would be a parse that holds one connection and waits for its second or for
a claim (`AllHoldersParse`): as many parses as connections in use, and the queues run
fewer of them than the pool has connections.

**Workbook.** `EveryRowInOneScenario` is true of every state because it is true of every
workbook, so what is proved is what the scan computes. A scan is a function given by
itself, row by row; that there is one is shown by building it up from the header
(`IteratesExists`, `ScanExists`), and what holds of it by going up the rows (`Upwards`).
`ScanInv` is its loop invariant: the runs that ended are in order, between header and
footer, with no product twice (`WellCut`); the run that goes on holds what was seen since
it began and at most one blank row at its end (`OpenRun`), so that the rows cut off when
it ends name nothing (`Closing`); and a product row above the footer is in a run or in
the one that goes on. `ScanStep` has a case for each kind of row. That the scan begins in
the table at all needs a header (`HeaderIsARow`): reading a row ends (`ReadingExists`)
with a score that is a number, and of finitely many scores one is the first best
(`FirstBest`). `SheetIsCut` and `WorkbookIsCut` carry this to scenarios, which have the
rows of their run that name a product (`HeldRows`) and are told apart by their place.

**QuotationIntake.** `Inv` adds to the properties what is true of ids not yet taken,
that content hash and key are unique among the live rows (`Distinct`), what each open
transaction relies on (`Carries`: the row of a handler about to commit is still in
the state it read) and that two of them never have the same job (`Apart`), and how
far the reset has come (`ResetInOrder`). The reset is the step that
could break `Carries`: its DELETE of the quotations waits for every row a handler has
updated, so no such handler is about to commit when the rows go (`ResetRowsStep`).

**Stream and page.** `NonePassedOver` is about ids, and the poll sorts them, so the
proof begins with a theory of `InOrder` on finite sets (`Sortable`, `Ordered`). Its
invariant puts the cursor, the wire and what the browser dispatched in one
ascending order and says that any committed id between two of them was not visible
in time. `ReceivedIsTold` and `RefreshesForward` need to know of each refresh what it
has read at which moment: what it holds lies between what the page was shown and
what is true at the server, an overtaken one is never shown, and a page that has
received something unknown has a refresh or a timer on its way. Each of the
page's actions has a lemma of its own.

**Sourcing.** `AcceptedIffObedient` compares the prompt with three validations. The
refusal is that of the first check that fails, so none is refused exactly if none
fails (`FirstFailing` lemmas), whatever the number of lines; the round's bounds are
inside the supplier's after rounding (`PricesInside`), which makes the supplier's
own checks redundant for an answer that obeys. `SecondOfferImproves` compares two
totals over lines in different orders: sums are functions on `0 .. n`, and taking the
same product out of both leaves a smaller case (`SumsCompare`), so the order of the
lines does not matter; the tables then give each price (`SecondImproves`).

**Decision.** `WinnerUndominated`: a dominator scores at least as much
(`DominatorScores`, for clamping keeps an order but not a strict one), so it is in
the top-scored set with the winner; the tie-break, which looks at cost, lead and
quality but not at payment, then keeps the dominator too unless it is decided
before, and a recommendation needs a single candidate. So payment, which no
tie-break rule asks about, is never why a dominated offer wins.
`PriorityAlwaysServed` uses what the tables leave: S2 is never eligible
(`EligibleSlate`), so there is at most one offer of S1 and one of S3, of equal quality.
Each score is linear in the normalized cost, lead time and payment, the last two
within known bounds (`HasPoints`, `Apart`), and for every priority the two winners'
inequalities leave no room for the other criteria (`CostPulls`, `LeadPulls`,
`PaymentPulls`): lead times are too far apart and payments too close.

Induction: the library's theorems take an operator as a parameter, which the
provers cannot instantiate, so the modules that need it prove induction over *sets* of
naturals from the well-foundedness of `<` (`LessWF`, `Least`, `SetInduction`, `Upwards`).

`PROJECT.json` lists the theorems with the property each one states.

**Only model-checked.** The liveness properties (`NegotiationConcludes`,
`EveryRequestEnds`, `EveryQuotationSettles`), which are out of the prover's reach; every
safety and action property of a passing run is a theorem. Of the parser, what the
header, the medians and `RequiresInterpretation` make of a sheet has no property beyond
what `EveryRowInOneScenario` needs of them.

## 6. Not modelled

pg-boss's own tables beyond a job's status and attempts, priorities and delays;
the text of conversations, prompts and rationales; the language models beyond what
their answers may be; decompression, XML and number formats; edit distances;
request parsing, authentication and encoding, which have no state; the generated
client and the schema; seeds, environment checks and the repository's lint rules;
the order history and the layout of the page; an API process that stops with
streams open; the tables of review, negotiation and orders that a reset clears;
the projections of `Workspace` torn between two statements (those of `QuoteCopilot` are
read part by part).

## 7. Plan

1. `Negotiation`, `PurchaseOrder`, `QuotationReview`, each with what it promises and
   its proofs - done.
2. `QuotationIntake`, with the theorems about its four properties - done.
3. `ProjectionStream` and `Workspace`, with the theorems about stream and page - done.
4. `Sourcing`, `DecisionEngine`, `QuoteCopilot`, `ReviewPage`, `CatalogMatcher`,
   `WorkerRuntime` and `WorkbookParser`, with theorems for all their properties - done.
5. Next: the refinement of `NegotiationContract` and `OrderLedger` into one ledger of
   commitments.
6. The reset of the other tables, beside the negotiation's jobs.
