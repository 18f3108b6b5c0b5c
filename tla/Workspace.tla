------------------------------ MODULE Workspace ------------------------------
(* The procurement page over the projection stream: refreshes, commands,     *)
(* stream invalidations and timers of one browser tab that overtake each     *)
(* other, and the server whose projections they read.                        *)
EXTENDS ProjectionStream, WorkspaceView

CONSTANTS Runs,          \* bound: refreshes in flight at once
          Slots,         \* bound: commands in flight at once
          MaxSpent,      \* bound: commands given, and requests, polls and connections
                         \* that fail, together
          Quotations,    \* 1..n, bound: quotations uploaded, one after the other
          Start          \* the facts the server may hold when the page opens

\* The server asks suppliers only in a negotiation it has started.
Consistent(facts) == facts \cap {"offered", "decided"} # {} => "started" \in facts

ASSUME WorkspaceAssumption ==
  /\ MaxId \in Nat /\ Runs \subseteq Nat /\ Quotations \subseteq Nat /\ 1 \in Quotations
  /\ Start \subseteq {facts \in SUBSET Facts : Consistent(facts)}

VARIABLES db,            \* the facts of the quotation that exists
          live,          \* that quotation, 0 for none (yet, or after a reset)
          made,          \* quotations created
          qid,           \* quotationId.current, 0 for none
          nid,           \* negotiationId.current is set
          shown,         \* the projection in the component's state
          policy,        \* policyPreview and confirmedPolicyHash
          preview,       \* preview
          pending,       \* pendingAction, "none" for none
          error,         \* an error is shown
          stale,         \* stale
          debounce,      \* refreshTimer is armed
          handle,        \* the refresh whose timer staleTimer names, 0 for none
          leaked,        \* a stale timer is armed that no refresh owns any more
          runs,          \* [Runs -> refresh]
          commands,      \* [Slots -> command]
          spent,         \* commands given and faults that happened
          applied,       \* what the last refresh told since the quotation changed
          behind,        \* a refresh failed since then
          due            \* events received that were about the open workspace

serverVars == <<db, live, made>>
pageVars   == <<qid, nid, shown, policy, preview, pending, error, stale, applied, behind, due>>
timerVars  == <<debounce, handle, leaked>>
vars == <<streamVars, serverVars, pageVars, timerVars, runs, commands, spent>>

WorkspaceTopics == [fact: {"parsed", "started", "offered", "decided", "other"},
                    of: {0} \cup Quotations]

\* A refresh. Its kind, "plain", "stream" or "retry", says what follows it: the
\* last two clear the stale mark. Its phase is "idle", "quotation" or
\* "negotiation" while it reads, then "answered", "failed" or "delayed".
IdleRun == [kind |-> "plain", phase |-> "idle", current |-> FALSE, asked |-> 0, known |-> FALSE,
            quotation |-> {}, negotiation |-> {}, order |-> FALSE, timer |-> FALSE, tries |-> 0]

\* A command: one of Commands, and its phase, "sent", "handled", "read",
\* "polling", "polled" or "failed".
IdleCommand == [kind |-> "reset", phase |-> "idle", of |-> 0, quotation |-> {}]

------------------------------------------------------------------------------
(* Refreshes. Starting one makes every earlier one out of date: it carries    *)
(* the newest refreshSequence.                                                *)

Free(r) == runs[r].phase = "idle"

\* Refreshes are interchangeable: a new one takes the first free place.
Place == CHOOSE r \in Runs : Free(r) /\ \A x \in Runs : Free(x) => r <= x
Room  == \E r \in Runs : Free(r)

Begun(kind, q, n, tries) ==
  [IdleRun EXCEPT !.kind = kind, !.phase = "quotation", !.current = TRUE,
                  !.asked = q, !.known = n, !.timer = kind # "plain", !.tries = tries]

\* The refresh r begins; old is what the refreshes are before that.
Refreshing(old, r, run) ==
  [x \in Runs |-> IF x = r THEN run ELSE [old[x] EXCEPT !.current = FALSE]]

Init ==
  /\ StreamInit
  /\ live \in {0, 1} /\ made = live
  /\ db \in (IF live = 0 THEN {{}} ELSE Start)
  /\ qid = live /\ nid = FALSE
  /\ shown = Nothing /\ applied = Nothing
  /\ policy = "none" /\ preview = FALSE
  /\ pending = "none" /\ error = FALSE /\ stale = FALSE /\ behind = FALSE /\ due = {}
  /\ debounce = FALSE /\ handle = 0 /\ leaked = FALSE
  /\ runs = [[r \in Runs |-> IdleRun] EXCEPT ![1] = Begun("plain", qid, FALSE, 0)]
  /\ commands = [c \in Slots |-> IdleCommand]
  /\ spent = 0

------------------------------------------------------------------------------
(* The server. *)

\* A worker's transaction has written its event.
Writes(fact) ==
  /\ live # 0
  /\ \/ fact = "parsed"  /\ "uploaded" \in db
     \/ fact = "offered" /\ "started" \in db
     \/ fact = "decided" /\ "offered" \in db
  /\ fact \notin db
  /\ \A i \in Ids : rows[i].state = "inserted" => rows[i].topic.fact # fact
  /\ Insert([fact |-> fact, of |-> live])
  /\ UNCHANGED <<serverVars, pageVars, timerVars, runs, commands, spent>>

\* An event of another quotation of the brand.
WritesElsewhere ==
  /\ Insert([fact |-> "other", of |-> 0])
  /\ UNCHANGED <<serverVars, pageVars, timerVars, runs, commands, spent>>

Commits(i) ==
  /\ CommitRow(i)
  /\ db' = IF rows[i].topic.fact = "other" THEN db ELSE db \cup {rows[i].topic.fact}
  /\ UNCHANGED <<live, made, pageVars, timerVars, runs, commands, spent>>

\* The matching job: it appends no event.
Matches ==
  /\ "parsed" \in db /\ "matched" \notin db
  /\ db' = db \cup {"matched"}
  /\ UNCHANGED <<streamVars, live, made, pageVars, timerVars, runs, commands, spent>>

------------------------------------------------------------------------------
(* The stream, as the page follows it. *)

StreamOnly == UNCHANGED <<serverVars, pageVars, timerVars, runs, commands>>

Opens == Connect /\ StreamOnly /\ UNCHANGED spent

Polls == Poll /\ StreamOnly /\ UNCHANGED spent

\* onInvalidate: a workspace that is open is refreshed, up to three times.
Invalidates ==
  IF qid = 0 /\ ~nid
  THEN UNCHANGED <<timerVars, runs>>
  ELSE /\ Room
       /\ runs' = Refreshing(runs, Place, Begun("retry", qid, nid, 0))
       /\ handle' = Place
       /\ UNCHANGED <<debounce, leaked>>

Breaks ==
  /\ spent < MaxSpent
  /\ Drop
  /\ Invalidates
  /\ spent' = spent + 1
  /\ UNCHANGED <<serverVars, pageVars, commands>>

\* isRelevant: the event's aggregate is the open quotation or its negotiation.
Relevant(topic) ==
  /\ topic.of = qid /\ qid # 0
  /\ topic.fact = "parsed" \/ nid

Receives ==
  /\ Dispatch
  /\ IF HandedOn /\ Relevant(rows[Head(wire)].topic)
     THEN debounce' = TRUE /\ due' = due \cup {Head(wire)}
     ELSE UNCHANGED <<debounce, due>>
  /\ UNCHANGED <<serverVars, qid, nid, shown, policy, preview, pending, error, stale, applied, behind,
                 handle, leaked, runs, commands, spent>>

\* MUTANT: an event that arrives while a refresh is running starts no other.
DebouncedUnlessLoading ==
  /\ debounce
  /\ IF \E r \in Runs : runs[r].phase \in {"quotation", "negotiation", "answered"}
     THEN UNCHANGED <<runs, handle>>
     ELSE /\ Room
          /\ runs' = Refreshing(runs, Place, Begun("stream", qid, nid, 0))
          /\ handle' = Place
  /\ debounce' = FALSE
  /\ UNCHANGED <<streamVars, serverVars, pageVars, leaked, commands, spent>>

\* The refresh timer fires: 50 ms after the last relevant event.
Debounced ==
  /\ debounce
  /\ Room
  /\ runs' = Refreshing(runs, Place, Begun("stream", qid, nid, 0))
  /\ handle' = Place
  /\ debounce' = FALSE
  /\ UNCHANGED <<streamVars, serverVars, pageVars, leaked, commands, spent>>

\* A stale timer fires, 400 ms after its refresh began.
MarksStale ==
  /\ \/ \E r \in Runs : /\ runs[r].timer
                        /\ runs' = [runs EXCEPT ![r].timer = FALSE]
                        /\ UNCHANGED leaked
     \/ leaked /\ leaked' = FALSE /\ UNCHANGED runs
  /\ stale' = TRUE
  /\ UNCHANGED <<streamVars, serverVars, qid, nid, shown, policy, preview, pending, error, applied, behind, due,
                 debounce, handle, commands, spent>>

------------------------------------------------------------------------------
(* Refreshes: loadWorkspace and what follows it. *)

\* The first three reads, at one moment; without a quotation only the orders.
ReadsQuotation(r) ==
  LET run   == runs[r]
      q     == IF run.asked = 0 THEN {} ELSE db \cap OfQuotation
      known == run.asked # 0 /\ (run.known \/ "started" \in q)
  IN
  /\ run.phase = "quotation"
  /\ runs' = [runs EXCEPT ![r] =
       IF run.asked \notin {0, live} THEN [run EXCEPT !.phase = "failed"]
       ELSE [run EXCEPT !.phase = IF known THEN "negotiation" ELSE "answered",
                        !.quotation = q, !.known = known,
                        !.order = known /\ "ordered" \in db]]
  /\ UNCHANGED <<streamVars, serverVars, pageVars, timerVars, commands, spent>>

\* Then the negotiation and its decision.
ReadsNegotiation(r) ==
  /\ runs[r].phase = "negotiation"
  /\ runs' = [runs EXCEPT ![r] =
       IF @.asked # live THEN [@ EXCEPT !.phase = "failed"]
       ELSE [@ EXCEPT !.phase = "answered", !.negotiation = db \cap OfNegotiation]]
  /\ UNCHANGED <<streamVars, serverVars, pageVars, timerVars, commands, spent>>

RequestFails(r) ==
  /\ runs[r].phase \in {"quotation", "negotiation"}
  /\ spent < MaxSpent
  /\ spent' = spent + 1
  /\ runs' = [runs EXCEPT ![r].phase = "failed"]
  /\ UNCHANGED <<streamVars, serverVars, pageVars, timerVars, commands>>

\* finally: what the ended refresh r clears is the timer staleTimer names by
\* now, which need not be its own.
Ends(r) ==
  IF runs[r].kind = "plain"
  THEN runs' = [runs EXCEPT ![r] = IdleRun] /\ UNCHANGED timerVars
  ELSE /\ runs' = [x \in Runs |->
            IF x = r THEN IdleRun
            ELSE [runs[x] EXCEPT !.timer = @ /\ x # handle]]
       /\ leaked' = (leaked \/ (runs[r].timer /\ handle # r))
       /\ handle' = IF handle = r THEN 0 ELSE handle
       /\ UNCHANGED debounce

\* A refresh that fails, or that a newer one overtook, answers false: the retry
\* loop waits and tries again, twice.
TriesAgain(r) == runs[r].kind = "retry" /\ runs[r].tries < 2

EndsUnread(r) ==
  IF TriesAgain(r)
  THEN runs' = [runs EXCEPT ![r].phase = "delayed", ![r].current = FALSE] /\ UNCHANGED timerVars
  ELSE Ends(r)

Unmarks(r) == IF runs[r].kind = "plain" \/ TriesAgain(r) THEN stale ELSE FALSE

Overtaken(r) ==
  /\ runs[r].phase = "answered" /\ ~runs[r].current
  /\ EndsUnread(r)
  /\ stale' = Unmarks(r)
  /\ UNCHANGED <<streamVars, serverVars, qid, nid, shown, policy, preview, pending, error, applied, behind, due,
                 commands, spent>>

FailsRefresh(r) ==
  /\ runs[r].phase = "failed"
  /\ EndsUnread(r)
  /\ stale' = Unmarks(r)
  /\ pending' = "none" /\ error' = TRUE /\ behind' = TRUE
  /\ UNCHANGED <<streamVars, serverVars, qid, nid, shown, policy, preview, applied, due,
                 commands, spent>>

\* The newest refresh is shown. What it has no word of stays as it was.
Shows(r) ==
  LET run == runs[r] IN
  /\ shown' = IF run.asked = 0 THEN Nothing
              ELSE [quotation   |-> run.quotation,
                    negotiation |-> IF run.known THEN run.negotiation ELSE shown.negotiation,
                    order       |-> IF run.known THEN run.order ELSE shown.order]
  /\ applied' = IF run.asked = 0 THEN Nothing
                ELSE [quotation |-> run.quotation, negotiation |-> run.negotiation,
                      order |-> run.order]
  /\ nid' = IF run.asked = 0 THEN nid ELSE run.known
  /\ policy' = IF run.asked = 0 THEN "none" ELSE policy
  /\ preview' = (preview /\ run.asked # 0)
  /\ pending' = "none" /\ error' = FALSE /\ stale' = FALSE /\ behind' = FALSE
  /\ Ends(r)
  /\ UNCHANGED <<streamVars, serverVars, qid, due, commands, spent>>

\* MUTANT: the answer is shown whatever was asked since.
AnsweredAnyway(r) == runs[r].phase = "answered" /\ Shows(r)

Answered(r) == runs[r].phase = "answered" /\ runs[r].current /\ Shows(r)

Retries(r) ==
  /\ runs[r].phase = "delayed"
  /\ runs' = Refreshing(runs, r, [Begun("retry", qid, nid, runs[r].tries + 1)
                                    EXCEPT !.timer = runs[r].timer])
  /\ UNCHANGED <<streamVars, serverVars, pageVars, timerVars, commands, spent>>

\* A plain refresh: the catalog polling while matching runs, or the Retry button.
Asks ==
  /\ MatchingPending(shown) \/ error
  /\ \A x \in Runs : runs[x].kind = "plain" => Free(x)
  /\ Room /\ runs' = Refreshing(runs, Place, Begun("plain", qid, nid, 0))
  /\ UNCHANGED <<streamVars, serverVars, pageVars, timerVars, commands, spent>>

------------------------------------------------------------------------------
(* Commands: begin, the server's handling, the read that follows, finish.     *)

\* A page that has a workspace shows its upload card only after a failure.
ByCard(k) ==
  /\ k \in Enabled(shown, policy, preview, pending, stale)
  /\ k = "upload" => qid = 0 \/ error

BySuggestion(k) == k \in Suggestible(shown) /\ pending = "none"

Gives(c, k) ==
  /\ commands[c].phase = "idle" /\ spent < MaxSpent
  /\ ByCard(k) \/ BySuggestion(k)
  /\ commands' = [commands EXCEPT ![c] = [kind |-> k, phase |-> "sent", of |-> qid, quotation |-> {}]]
  /\ spent' = spent + 1
  /\ pending' = k
  /\ error' = FALSE
  /\ IF k = "upload"
     THEN shown' = Nothing /\ policy' = "none" /\ preview' = FALSE
     ELSE UNCHANGED <<shown, policy, preview>>
  /\ UNCHANGED <<streamVars, serverVars, qid, nid, stale, applied, behind, due, timerVars, runs>>

Confirms ==
  /\ policy = "previewed" /\ ~stale
  /\ ReadyToNegotiate(shown) /\ "started" \notin shown.negotiation
  /\ policy' = "confirmed"
  /\ UNCHANGED <<streamVars, serverVars, qid, nid, shown, preview, pending, error, stale, applied, behind, due,
                 timerVars, runs, commands, spent>>

\* A review command that leaves nothing of the selected layout open judges READY.
Judged(facts) ==
  IF {"matched", "selected"} \cup Needs \subseteq facts THEN facts \cup {"ready"} ELSE facts

SelectScenario    == Judged(db \cup {"selected"})
ResolveMatch      == Judged(db \cup {"resolved"})
ResolveQuantities == Judged(db \cup {"quantified"})

\* A command about a quotation that is gone is refused, and one whose time has
\* not come. A review command is not refused once the negotiation has begun; an
\* order issued twice is answered with the first, since the page keeps its
\* idempotency key.
Accepts(c) ==
  LET k == commands[c].kind IN
  \/ k \in {"reset", "upload"}
  \/ /\ commands[c].of = live /\ live # 0
     /\ CASE k = "scenario"                       -> "parsed" \in db
          [] k \in {"match", "commercial-review"} -> "matched" \in db
          [] k \in {"policy", "negotiation"}      -> "ready" \in db
          [] k = "preview-order"                  -> "decided" \in db /\ "ordered" \notin db
          [] k = "issue-order"                    -> "decided" \in db

\* What the server makes of a command, a reset leaving these facts behind.
DoesLeaving(k, remains) ==
  CASE k = "reset"             -> remains
    [] k = "upload"            -> IF live = 0 THEN {"uploaded"} ELSE db
    [] k = "scenario"          -> SelectScenario
    [] k = "match"             -> ResolveMatch
    [] k = "commercial-review" -> ResolveQuantities
    [] k = "negotiation"       -> db \cup {"started"}
    [] k = "issue-order"       -> db \cup {"ordered"}
    [] OTHER                   -> db

Does(k) == DoesLeaving(k, {})

\* Bounds: the quotations, and one start of each one's negotiation.
Handles(c) ==
  LET k == commands[c].kind
      creates == k = "upload" /\ live = 0
  IN
  /\ commands[c].phase = "sent"
  /\ creates => made + 1 \in Quotations
  /\ k = "negotiation" => "started" \notin db
  /\ IF Accepts(c)
     THEN /\ db' = Does(k)
          /\ made' = IF creates THEN made + 1 ELSE made
          /\ live' = IF k = "reset" THEN 0 ELSE IF creates THEN made' ELSE live
          /\ CASE k = "reset"       -> EraseRows
               [] k = "negotiation" -> AppendRow([fact |-> "started", of |-> live])
               [] OTHER             -> UNCHANGED streamVars
          /\ commands' = [commands EXCEPT ![c].phase = "handled",
                                          ![c].of = IF k = "upload" THEN live' ELSE @]
     ELSE /\ commands' = [commands EXCEPT ![c].phase = "failed"]
          /\ UNCHANGED <<serverVars, streamVars>>
  /\ UNCHANGED <<pageVars, timerVars, runs, spent>>

\* The request or its answer is lost.
Loses(c) ==
  /\ commands[c].phase \in {"sent", "handled", "polling"}
  /\ spent < MaxSpent
  /\ spent' = spent + 1
  /\ commands' = [commands EXCEPT ![c].phase = "failed"]
  /\ UNCHANGED <<streamVars, serverVars, pageVars, timerVars, runs>>

ReadsBack(c) ==
  LET command == commands[c] IN
  /\ \/ /\ command.phase = "handled"
        /\ command.kind \in {"upload", "scenario", "match", "commercial-review"}
     \/ command.phase = "polling"
  /\ commands' = [commands EXCEPT ![c] =
       IF command.of # live THEN [command EXCEPT !.phase = "failed"]
       ELSE [command EXCEPT !.phase = IF command.phase = "polling" THEN "polled" ELSE "read",
                            !.quotation = db \cap OfQuotation]]
  /\ UNCHANGED <<streamVars, serverVars, pageVars, timerVars, runs, spent>>

FailsCommand(c) ==
  /\ commands[c].phase = "failed"
  /\ commands' = [commands EXCEPT ![c] = IdleCommand]
  /\ pending' = "none" /\ error' = TRUE
  /\ UNCHANGED <<streamVars, serverVars, qid, nid, shown, policy, preview, stale, applied, behind, due,
                 timerVars, runs, spent>>

\* clearWorkspace: every refresh in flight is out of date, and the page, now
\* without a workspace, asks for the orders.
Clears ==
  /\ qid' = 0 /\ nid' = FALSE
  /\ shown' = Nothing /\ applied' = Nothing
  /\ policy' = "none" /\ preview' = FALSE
  /\ pending' = "none" /\ error' = FALSE /\ stale' = FALSE /\ behind' = FALSE /\ due' = {}
  /\ Room /\ runs' = Refreshing(runs, Place, Begun("plain", 0, FALSE, 0))
  /\ UNCHANGED <<streamVars, serverVars, timerVars, spent>>

StartsAgain == shown.order /\ ~stale /\ Clears /\ UNCHANGED commands

FinishesReset(c) ==
  /\ commands[c].kind = "reset" /\ commands[c].phase = "handled"
  /\ Clears
  /\ commands' = [commands EXCEPT ![c] = IdleCommand]

\* The uploaded quotation becomes the workspace, which is refreshed, and is
\* polled until it is parsed or the polling's budget is used up.
FinishesUpload(c) ==
  /\ commands[c].kind = "upload" /\ commands[c].phase = "read"
  /\ qid' = commands[c].of
  /\ shown' = [shown EXCEPT !.quotation = commands[c].quotation]
  /\ applied' = Nothing /\ behind' = FALSE /\ due' = {}
  /\ pending' = "none"
  /\ Room /\ runs' = Refreshing(runs, Place, Begun("plain", commands[c].of, nid, 0))
  /\ commands' = [commands EXCEPT ![c].phase = "polling"]
  /\ UNCHANGED <<streamVars, serverVars, nid, policy, preview, error, stale, timerVars, spent>>

\* finish: the answer of a command becomes what is shown; the rest stays.
Finish(c, told, derived, previewed, negotiating, followed) ==
  /\ shown' = told
  /\ policy' = derived
  /\ preview' = previewed
  /\ nid' = negotiating
  /\ pending' = "none"
  /\ IF followed
     THEN Room /\ runs' = Refreshing(runs, Place, Begun("plain", qid, negotiating, 0))
     ELSE UNCHANGED runs
  /\ commands' = [commands EXCEPT ![c] = IdleCommand]
  /\ UNCHANGED <<streamVars, serverVars, qid, error, stale, applied, behind, due, timerVars, spent>>

FinishesParsing(c) ==
  /\ commands[c].phase = "polled"
  /\ Finish(c, [shown EXCEPT !.quotation = commands[c].quotation], policy, preview, nid, FALSE)

\* Another layout makes everything after it void, a line's review the policy.
FinishesReview(c) ==
  LET k == commands[c].kind  q == commands[c].quotation IN
  /\ commands[c].phase = "read" /\ k # "upload"
  /\ IF k = "scenario"
     THEN Finish(c, [Nothing EXCEPT !.quotation = q], "none", FALSE, nid, FALSE)
     ELSE Finish(c, [shown EXCEPT !.quotation = q], "none", preview, nid, FALSE)

FinishesPolicy(c) ==
  /\ commands[c].kind = "policy" /\ commands[c].phase = "handled"
  /\ Finish(c, shown, "previewed", preview, nid, FALSE)

FinishesStart(c) ==
  /\ commands[c].kind = "negotiation" /\ commands[c].phase = "handled"
  /\ Finish(c, [shown EXCEPT !.negotiation = {"started"}, !.order = FALSE], policy, FALSE, TRUE, TRUE)

FinishesOrder(c) ==
  LET issued == commands[c].kind = "issue-order" IN
  /\ commands[c].kind \in {"preview-order", "issue-order"} /\ commands[c].phase = "handled"
  /\ Finish(c, [shown EXCEPT !.order = issued], policy, preview \/ ~issued, nid, issued)

------------------------------------------------------------------------------

Serves == \/ \E f \in {"parsed", "offered", "decided"} : Writes(f)
          \/ WritesElsewhere
          \/ \E i \in Ids : Commits(i)
          \/ Matches

Follows == Opens \/ Polls \/ Breaks \/ Receives \/ Debounced \/ MarksStale

Loads == \/ \E r \in Runs : \/ ReadsQuotation(r) \/ ReadsNegotiation(r) \/ RequestFails(r)
                            \/ Overtaken(r) \/ FailsRefresh(r) \/ Answered(r) \/ Retries(r)
         \/ Asks

Commanded == \/ Confirms
             \/ StartsAgain
             \/ \E c \in Slots : \/ \E k \in Commands : Gives(c, k)
                                 \/ Handles(c) \/ Loses(c) \/ ReadsBack(c)
                                 \/ FailsCommand(c) \/ FinishesReset(c) \/ FinishesUpload(c)
                                 \/ FinishesParsing(c) \/ FinishesReview(c)
                                 \/ FinishesPolicy(c) \/ FinishesStart(c) \/ FinishesOrder(c)

Next == Serves \/ Follows \/ Loads \/ Commanded

Spec == Init /\ [][Next]_vars

------------------------------------------------------------------------------
(* Properties. *)

\* A refresh never takes the page back: what one tells includes what the one
\* shown before it told of the same quotation.
RefreshesForward ==
  [][applied' \in {applied, Nothing}
     \/ /\ applied.quotation \subseteq applied'.quotation
        /\ applied.negotiation \subseteq applied'.negotiation]_vars

\* No event that reaches the page is lost in it: once nothing is under way the
\* page has been told of every event that was about the open workspace when it
\* was received, unless a refresh failed.
Quiet == ~debounce /\ \A r \in Runs : Free(r)

ReceivedIsTold ==
  Quiet /\ ~behind =>
    \A i \in due : rows[i].topic.fact \in applied.quotation \cup applied.negotiation
==============================================================================
