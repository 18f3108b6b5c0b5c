--------------------------- MODULE ProjectionStream ---------------------------
(* The resumable stream of projection events: rows that take their resume id *)
(* when they are inserted and become visible when their transaction commits, *)
(* the server's cursor over them, and the browser's EventSource.             *)
EXTENDS Naturals, Sequences, FiniteSets, SequencesExt

CONSTANTS Topics,       \* what an event is about
          MaxId         \* bound: resume ids handed out

VARIABLES rows,         \* per id, its topic and its state: "none", "inserted", "committed",
                       \* "late" when a cursor had passed its id by then, or "gone"
          nextId,       \* the identity column's next value
          link,         \* "down" | "up": the connection, as both ends see it
          cursor,       \* the server's lastEventId on this connection
          wire,         \* events written and not yet dispatched, in order
          seen,         \* ids the browser has dispatched
          lastEventId,  \* the last of them, 0 for none
          base          \* the cursor the last fresh connection began at

streamVars == <<rows, nextId, link, cursor, wire, seen, lastEventId, base>>

Ids == 1..MaxId

StreamInit ==
  /\ rows = [i \in Ids |-> [topic |-> CHOOSE t \in Topics : TRUE, state |-> "none"]]
  /\ nextId = 1
  /\ link = "down"
  /\ cursor = 0
  /\ wire = <<>> /\ seen = {} /\ lastEventId = 0 /\ base = 0

\* What a statement sees at READ COMMITTED.
Visible == {i \in Ids : rows[i].state \in {"committed", "late"}}

Since(last) == {i \in Visible : i > last}

\* resume_id is an ascending integer, and both the query and the writer sort by it.
InOrder(ids) ==
  CHOOSE s \in [1 .. Cardinality(ids) -> ids] :
    /\ \A k, l \in DOMAIN s : k < l => s[k] < s[l]
    /\ \A i \in ids : \E k \in DOMAIN s : s[k] = i

------------------------------------------------------------------------------
(* Writers. *)

Insert(topic) ==
  /\ nextId <= MaxId
  /\ rows' = [rows EXCEPT ![nextId] = [topic |-> topic, state |-> "inserted"]]
  /\ nextId' = nextId + 1
  /\ UNCHANGED <<link, cursor, wire, seen, lastEventId, base>>

\* A transaction that inserts and commits with nothing in between.
AppendRow(topic) ==
  /\ nextId <= MaxId
  /\ rows' = [rows EXCEPT ![nextId] = [topic |-> topic, state |-> "committed"]]
  /\ nextId' = nextId + 1
  /\ UNCHANGED <<link, cursor, wire, seen, lastEventId, base>>

\* The reset deletes the brand's events; the identity column goes on.
EraseRows ==
  /\ rows' = [i \in Ids |-> IF i < nextId THEN [rows[i] EXCEPT !.state = "gone"] ELSE rows[i]]
  /\ UNCHANGED <<nextId, link, cursor, wire, seen, lastEventId, base>>

Passed(i) == i <= (IF link = "up" THEN cursor ELSE lastEventId)

CommitRow(i) ==
  /\ rows[i].state = "inserted"
  /\ rows' = [rows EXCEPT ![i].state = IF Passed(i) THEN "late" ELSE "committed"]
  /\ UNCHANGED <<nextId, link, cursor, wire, seen, lastEventId, base>>

------------------------------------------------------------------------------
(* The connection. *)

LastOf(batch, last) == IF batch = <<>> THEN last ELSE Last(batch)

\* What a connection begins with: the rows since Last-Event-ID. A browser that
\* has dispatched nothing sends no such header; it is told of none of them, and
\* of nothing older than them later.
ConnectAfter(last) ==
  LET batch == InOrder(Since(last)) IN
  /\ link = "down"
  /\ link' = "up"
  /\ wire' = IF last = 0 THEN <<>> ELSE batch
  /\ cursor' = LastOf(batch, last)
  /\ base' = IF last = 0 THEN cursor' ELSE base
  /\ UNCHANGED <<rows, nextId, seen, lastEventId>>

\* MUTANT: a reconnect resumes where the server had written, not where the
\* browser had read.
ConnectAfterCursor == ConnectAfter(cursor)

Connect == ConnectAfter(lastEventId)

Poll ==
  LET batch == InOrder(Since(cursor)) IN
  /\ link = "up"
  /\ wire' = wire \o batch
  /\ cursor' = LastOf(batch, cursor)
  /\ UNCHANGED <<rows, nextId, link, seen, lastEventId, base>>

\* The network drops it, or the server ends it after three polls that failed in a
\* row; what was on its way is lost.
Drop ==
  /\ link = "up"
  /\ link' = "down" /\ wire' = <<>>
  /\ UNCHANGED <<rows, nextId, cursor, seen, lastEventId, base>>

\* consume: an id seen before is not handed on.
Dispatch ==
  /\ wire # <<>>
  /\ wire' = Tail(wire)
  /\ seen' = seen \cup {Head(wire)}
  /\ lastEventId' = Head(wire)
  /\ UNCHANGED <<rows, nextId, link, cursor, base>>

HandedOn == Head(wire) \notin seen

------------------------------------------------------------------------------
(* Properties. *)

Reached(i) == i \in seen \/ \E k \in DOMAIN wire : wire[k] = i

\* Across polls, drops and reconnects no event is passed over: one that was
\* visible before the cursor reached its id, on a stream that began before it,
\* has been dispatched or is on its way.
NonePassedOver ==
  link = "up" =>
    \A i \in Ids : /\ rows[i].state = "committed"
                   /\ base < i /\ i <= cursor
                   => Reached(i)

\* events.ts:48 calls it a resumable stream: then an event past which the stream
\* has moved was delivered, also one whose transaction committed late.
ResumesWithoutGap ==
  link = "up" =>
    \A i \in Ids : i \in Visible /\ base < i /\ i <= cursor => Reached(i)
==============================================================================
