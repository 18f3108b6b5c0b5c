--------------------------- MODULE WorkspaceProofs ---------------------------
(***************************************************************************)
(* Theorems about the projection stream and the page that follows it, for  *)
(* any number of events, refreshes, commands and quotations.               *)
(***************************************************************************)
EXTENDS Workspace, Integers, WellFoundedInduction, FiniteSetTheorems, TLAPS

------------------------------------------------------------------------------
(* Sets of numbers.  The induction theorems of the library take an operator, *)
(* so that induction is over sets here: of the naturals below, and the least. *)

Less == {p \in Nat \X Nat : p[1] < p[2]}

LEMMA LessWF == IsWellFoundedOn(Less, Nat)
  <1>1. IsWellFoundedOn(OpToRel(<, Nat), Nat)
    BY NatLessThanWellFounded
  <1>2. OpToRel(<, Nat) = Less
    BY DEF OpToRel, Less
  <1> QED
    BY <1>1, <1>2

LEMMA Least ==
    ASSUME NEW T, T \subseteq Nat, T # {}
    PROVE  \E x \in T : \A y \in T : x <= y
  <1>1. PICK x \in T : \A y \in T : <<y, x>> \notin Less
    BY LessWF, WFMin
  <1>2. ASSUME NEW y \in T PROVE x <= y
    <2>1. <<y, x>> \in Less <=> y < x
      BY DEF Less
    <2> QED
      BY <1>1, <2>1
  <1> QED
    BY <1>2

LEMMA SetInduction ==
    ASSUME NEW S, 0 \in S, \A n \in Nat : n \in S => n + 1 \in S
    PROVE  Nat \subseteq S
  <1>1. SUFFICES ASSUME Nat \ S # {} PROVE FALSE
    OBVIOUS
  <1>2. PICK x \in Nat \ S : \A y \in Nat \ S : x <= y
    BY <1>1, Least
  <1>3. x # 0 /\ x - 1 \in Nat /\ x - 1 \in S
    BY <1>2
  <1> QED
    BY <1>2, <1>3

------------------------------------------------------------------------------
(* InOrder *)

Ascends(s) == \A k, l \in DOMAIN s : k < l => s[k] < s[l]
Onto(s, S) == \A i \in S : \E k \in DOMAIN s : s[k] = i

(* Every finite set of numbers has its order.                              *)
LEMMA Sortable ==
    ASSUME NEW n \in Nat, NEW S \in SUBSET (1 .. n)
    PROVE  /\ IsFiniteSet(S) /\ Cardinality(S) \in Nat
           /\ \E s \in [1 .. Cardinality(S) -> S] : Ascends(s) /\ Onto(s, S)
  <1> DEFINE Sorted(T) == \E s \in [1 .. Cardinality(T) -> T] : Ascends(s) /\ Onto(s, T)
             P == {m \in Nat : \A T \in SUBSET (1 .. m) : IsFiniteSet(T) /\ Sorted(T)}
  <1>1. 0 \in P
    <2>1. SUFFICES ASSUME NEW T \in SUBSET (1 .. 0) PROVE IsFiniteSet(T) /\ Sorted(T)
      OBVIOUS
    <2>2. T = {} /\ IsFiniteSet({}) /\ Cardinality({}) = 0
      BY FS_EmptySet

    <2> DEFINE s == [k \in 1 .. 0 |-> 0]
    <2>3. s \in [1 .. 0 -> {}] /\ DOMAIN s = {}
      OBVIOUS
    <2>4. Ascends(s) /\ Onto(s, {})
      BY <2>3 DEF Ascends, Onto
    <2> QED
      BY <2>2, <2>3, <2>4
  <1>2. ASSUME NEW m \in Nat, m \in P PROVE m + 1 \in P
    <2>1. SUFFICES ASSUME NEW T \in SUBSET (1 .. m + 1) PROVE IsFiniteSet(T) /\ Sorted(T)
      OBVIOUS
    <2> DEFINE R == T \ {m + 1}
    <2>2. R \in SUBSET (1 .. m)
      OBVIOUS
    <2>3. IsFiniteSet(R) /\ Sorted(R)
      BY <1>2, <2>2
    <2>4. CASE m + 1 \notin T
      BY <2>3, <2>4, R = T
    <2>5. CASE m + 1 \in T
      <3>1. T = R \cup {m + 1} /\ m + 1 \notin R
        BY <2>5
      <3>2. PICK r \in [1 .. Cardinality(R) -> R] : Ascends(r) /\ Onto(r, R)
        BY <2>3
      <3> HIDE DEF R
      <3>3. IsFiniteSet(T) /\ Cardinality(T) = Cardinality(R) + 1 /\ Cardinality(R) \in Nat
        BY <2>3, <3>1, FS_AddElement, FS_CardinalityType
      <3> DEFINE c == Cardinality(R)
                 s == [k \in 1 .. c + 1 |-> IF k = c + 1 THEN m + 1 ELSE r[k]]
      <3> HIDE DEF c
      <3>4. c \in Nat /\ r \in [1 .. c -> R] /\ Cardinality(T) = c + 1
        BY <3>2, <3>3 DEF c
      <3>5. \A k \in 1 .. c : r[k] \in R /\ r[k] \in T /\ r[k] \in 1 .. m
        BY <2>2, <3>1, <3>4
      <3>6. s \in [1 .. c + 1 -> T] /\ Ascends(s)
        <4>1. \A k \in 1 .. c + 1 : s[k] \in T
          BY <2>5, <3>4, <3>5
        <4>2. \A k \in 1 .. c : s[k] = r[k] /\ s[k] \in 1 .. m
          BY <3>4, <3>5
        <4>3. s[c + 1] = m + 1 /\ DOMAIN s = 1 .. c + 1 /\ s \in [1 .. c + 1 -> T]
          BY <3>4, <4>1
        <4> HIDE DEF s
        <4>4. ASSUME NEW k \in 1 .. c + 1, NEW l \in 1 .. c + 1, k < l
              PROVE  s[k] < s[l]
          <5>1. k \in 1 .. c
            BY <3>4, <4>4
          <5>2. CASE l = c + 1
            BY <4>2, <4>3, <5>1, <5>2
          <5>3. CASE l \in 1 .. c
            BY <3>2, <3>4, <4>2, <4>4, <5>1, <5>3 DEF Ascends
          <5> QED
            BY <3>4, <5>2, <5>3
        <4> QED
          BY <4>3, <4>4 DEF Ascends
      <3>7. Onto(s, T)
        <4>1. \A k \in 1 .. c : k \in DOMAIN s /\ s[k] = r[k]
          BY <3>4
        <4>2. c + 1 \in DOMAIN s /\ s[c + 1] = m + 1
          BY <3>4
        <4> HIDE DEF s
        <4> QED
          BY <3>1, <3>2, <3>4, <4>1, <4>2 DEF Onto
      <3> QED
        BY <3>3, <3>4, <3>6, <3>7
    <2> QED
      BY <2>4, <2>5
  <1> HIDE DEF P
  <1>3. Nat \subseteq P
    BY <1>1, <1>2, SetInduction
  <1>4. n \in P
    BY <1>3
  <1>5. IsFiniteSet(S) /\ Sorted(S)
    BY <1>4 DEF P
  <1> QED
    BY <1>5, FS_CardinalityType

LEMMA Ordered ==
    ASSUME MaxId \in Nat, NEW S \in SUBSET Ids
    PROVE  InOrder(S) \in Seq(S) /\ Ascends(InOrder(S)) /\ Onto(InOrder(S), S)
  <1>1. S \in SUBSET (1 .. MaxId)
    BY DEF Ids
  <1>2. /\ Cardinality(S) \in Nat
        /\ \E s \in [1 .. Cardinality(S) -> S] : Ascends(s) /\ Onto(s, S)
    BY <1>1, Sortable
  <1>3. InOrder(S) \in [1 .. Cardinality(S) -> S] /\ Ascends(InOrder(S)) /\ Onto(InOrder(S), S)
    BY <1>2 DEF InOrder, Ascends, Onto
  <1> QED
    BY <1>2, <1>3

------------------------------------------------------------------------------
(* ProjectionStream: the invariant *)

States == {"none", "inserted", "committed", "late", "gone"}

StreamTypes ==
    /\ rows \in [Ids -> [topic : Topics, state : States]]
    /\ nextId \in 1 .. MaxId + 1
    /\ link \in {"up", "down"}
    /\ cursor \in 0 .. MaxId /\ lastEventId \in 0 .. MaxId /\ base \in 0 .. MaxId
    /\ wire \in Seq(Ids) /\ seen \in SUBSET Ids

\* Ids are handed out in order, and nothing follows one that was not.
IdsInOrder ==
    /\ \A i \in Ids : i < nextId <=> rows[i].state # "none"
    /\ cursor < nextId /\ lastEventId < nextId

\* What is on its way lies between the browser's last id and the cursor.
WireBetween ==
    /\ link = "up" => lastEventId <= cursor
    /\ link = "down" => wire = <<>>
    /\ Ascends(wire)
    /\ \A k \in DOMAIN wire : /\ lastEventId < wire[k] /\ wire[k] <= cursor
                              /\ rows[wire[k]].state \in {"committed", "late", "gone"}

\* What was visible in time and lies below the browser's last id was dispatched.
DispatchedBelow ==
    \A i \in Ids : rows[i].state = "committed" /\ base < i /\ i <= lastEventId => i \in seen

StreamInv == StreamTypes /\ IdsInOrder /\ WireBetween /\ DispatchedBelow /\ NonePassedOver

LEMMA StreamStart ==
    ASSUME MaxId \in Nat, Topics # {}, StreamInit
    PROVE  StreamInv
  <1>1. StreamTypes /\ IdsInOrder /\ DispatchedBelow /\ NonePassedOver
    BY DEF StreamInit, StreamTypes, IdsInOrder, DispatchedBelow, NonePassedOver, States, Ids
  <1>2. WireBetween
    BY DEF StreamInit, WireBetween, Ascends
  <1> QED
    BY <1>1, <1>2 DEF StreamInv

(* A step of a writer: it leaves the connection as it is, and a row that becomes *)
(* visible in time lies above the cursor, and above all the browser has read. *)
WriterStep ==
    /\ UNCHANGED <<link, cursor, wire, seen, lastEventId, base>>
    /\ rows' \in [Ids -> [topic : Topics, state : States]]
    /\ nextId' \in 1 .. MaxId + 1 /\ nextId <= nextId'
    /\ \A i \in Ids : i < nextId' <=> rows'[i].state # "none"
    /\ \A i \in Ids : rows[i].state \in {"committed", "late", "gone"}
                         => rows'[i].state \in {"committed", "late", "gone"}
    /\ \A i \in Ids : /\ rows'[i].state = "committed" /\ rows[i].state # "committed"
                      => i > lastEventId /\ (link = "up" => i > cursor)

LEMMA WriterKeeps ==
    ASSUME MaxId \in Nat, StreamInv, WriterStep
    PROVE  StreamInv'
  <1>1. StreamTypes'
    BY DEF StreamInv, WriterStep, StreamTypes
  <1>2. IdsInOrder'
    BY DEF StreamInv, WriterStep, StreamTypes, IdsInOrder, Ids
  <1>3. WireBetween'
    <2>1. \A k \in DOMAIN wire : wire[k] \in Ids
      BY DEF StreamInv, StreamTypes
    <2> QED
      BY <2>1 DEF StreamInv, WriterStep, WireBetween, Ascends
  <1>4. DispatchedBelow'
    BY DEF StreamInv, WriterStep, StreamTypes, DispatchedBelow, Ids
  <1>5. NonePassedOver'
    BY DEF StreamInv, WriterStep, StreamTypes, NonePassedOver, Reached, Ids
  <1> QED
    BY <1>1, <1>2, <1>3, <1>4, <1>5 DEF StreamInv

LEMMA InsertStep ==
    ASSUME MaxId \in Nat, StreamInv, NEW topic \in Topics, Insert(topic) \/ AppendRow(topic)
    PROVE  WriterStep
  <1>1. PICK state \in {"inserted", "committed"} :
            rows' = [rows EXCEPT ![nextId] = [topic |-> topic, state |-> state]]
    BY DEF Insert, AppendRow
  <1>2. /\ nextId \in Ids /\ nextId' = nextId + 1
        /\ UNCHANGED <<link, cursor, wire, seen, lastEventId, base>>
    BY DEF Insert, AppendRow, StreamInv, StreamTypes, Ids
  <1>3. /\ rows \in [Ids -> [topic : Topics, state : States]]
        /\ nextId \in 1 .. MaxId + 1
        /\ cursor < nextId /\ lastEventId < nextId
        /\ \A i \in Ids : i < nextId <=> rows[i].state # "none"
    BY DEF StreamInv, StreamTypes, IdsInOrder
  <1>4. [topic |-> topic, state |-> state] \in [topic : Topics, state : States]
    BY DEF States
  <1>5. /\ rows' \in [Ids -> [topic : Topics, state : States]]
        /\ rows'[nextId].state = state
        /\ \A i \in Ids \ {nextId} : rows'[i] = rows[i]
    BY <1>1, <1>2, <1>3, <1>4
  <1>6. rows[nextId].state = "none"
    BY <1>2, <1>3, <1>5 DEF Ids
  <1>7. \A i \in Ids : i < nextId' <=> rows'[i].state # "none"
    BY <1>2, <1>3, <1>5 DEF Ids
  <1>8. nextId' \in 1 .. MaxId + 1 /\ nextId <= nextId'
    BY <1>2 DEF Ids
  <1>9. \A i \in Ids : rows[i].state # "none" => rows'[i] = rows[i]
    BY <1>5, <1>6
  <1>10. \A i \in Ids : rows'[i].state = "committed" /\ rows[i].state # "committed" => i = nextId
    BY <1>5
  <1>11. nextId > lastEventId /\ nextId > cursor
    BY <1>3 DEF StreamInv, StreamTypes
  <1> QED
    BY <1>2, <1>5, <1>7, <1>8, <1>9, <1>10, <1>11 DEF WriterStep

LEMMA EraseStep ==
    ASSUME MaxId \in Nat, StreamInv, EraseRows
    PROVE  WriterStep
  <1>1. rows \in [Ids -> [topic : Topics, state : States]] /\ nextId \in 1 .. MaxId + 1
    BY DEF StreamInv, StreamTypes
  <1>2. \A i \in Ids : rows'[i] = IF i < nextId THEN [rows[i] EXCEPT !.state = "gone"] ELSE rows[i]
    BY DEF EraseRows
  <1>3. \A i \in Ids : [rows[i] EXCEPT !.state = "gone"] \in [topic : Topics, state : States]
    BY <1>1 DEF States
  <1>4. rows' \in [Ids -> [topic : Topics, state : States]]
    BY <1>1, <1>3 DEF EraseRows
  <1>5. \A i \in Ids : rows'[i].state = IF i < nextId THEN "gone" ELSE rows[i].state
    BY <1>1, <1>2
  <1>6. \A i \in Ids : i < nextId <=> rows[i].state # "none"
    BY DEF StreamInv, IdsInOrder
  <1>7. UNCHANGED <<nextId, link, cursor, wire, seen, lastEventId, base>>
    BY DEF EraseRows
  <1> QED
    BY <1>1, <1>4, <1>5, <1>6, <1>7 DEF WriterStep

LEMMA CommitStep ==
    ASSUME MaxId \in Nat, StreamInv, NEW i \in Ids, CommitRow(i)
    PROVE  WriterStep
  <1>1. rows \in [Ids -> [topic : Topics, state : States]] /\ nextId \in 1 .. MaxId + 1
    BY DEF StreamInv, StreamTypes
  <1>2. PICK state \in {"late", "committed"} :
            /\ rows' = [rows EXCEPT ![i].state = state]
            /\ state = "committed" => ~Passed(i)
    BY DEF CommitRow
  <1>3. /\ rows' \in [Ids -> [topic : Topics, state : States]]
        /\ rows'[i].state = state
        /\ \A j \in Ids \ {i} : rows'[j] = rows[j]
    BY <1>1, <1>2 DEF States
  <1>4. rows[i].state = "inserted"
    BY DEF CommitRow
  <1>5. state = "committed" => i > lastEventId /\ (link = "up" => i > cursor)
    BY <1>2 DEF Passed, StreamInv, StreamTypes, WireBetween, Ids
  <1>6. UNCHANGED <<nextId, link, cursor, wire, seen, lastEventId, base>>
    BY DEF CommitRow
  <1>7. \A j \in Ids : j < nextId <=> rows[j].state # "none"
    BY DEF StreamInv, IdsInOrder
  <1>8. \A j \in Ids : rows'[j].state = IF j = i THEN state ELSE rows[j].state
    BY <1>3
  <1> QED
    BY <1>1, <1>3, <1>4, <1>5, <1>6, <1>7, <1>8 DEF WriterStep

(* What lies after an id, in order: all of it is new, and the last is the   *)
(* highest.                                                                *)
LEMMA Batch ==
    ASSUME MaxId \in Nat, StreamInv, NEW last \in 0 .. MaxId, last < nextId
    PROVE  LET batch == InOrder(Since(last)) IN
           /\ batch \in Seq(Ids) /\ Ascends(batch)
           /\ \A k \in DOMAIN batch : /\ last < batch[k] /\ batch[k] <= LastOf(batch, last)
                                      /\ batch[k] \in Visible
           /\ \A i \in Since(last) : \E k \in DOMAIN batch : batch[k] = i
           /\ LastOf(batch, last) \in last .. MaxId /\ LastOf(batch, last) < nextId
  <1> DEFINE batch == InOrder(Since(last))
  <1> SUFFICES
         /\ batch \in Seq(Ids) /\ Ascends(batch)
         /\ \A k \in DOMAIN batch : /\ last < batch[k] /\ batch[k] <= LastOf(batch, last)
                                    /\ batch[k] \in Visible
         /\ \A i \in Since(last) : \E k \in DOMAIN batch : batch[k] = i
         /\ LastOf(batch, last) \in last .. MaxId /\ LastOf(batch, last) < nextId
    OBVIOUS
  <1>1. Since(last) \in SUBSET Ids
    BY DEF Since, Visible
  <1>2. batch \in Seq(Since(last)) /\ Ascends(batch) /\ Onto(batch, Since(last))
    BY <1>1, Ordered
  <1> HIDE DEF batch
  <1>3. \A k \in DOMAIN batch : batch[k] \in Since(last)
    BY <1>2
  <1>4. \A i \in Since(last) : i \in Visible /\ i \in Ids /\ last < i /\ i < nextId
    BY DEF Since, Visible, StreamInv, IdsInOrder
  <1>5. batch \in Seq(Ids)
    BY <1>1, <1>2
  <1>6. CASE batch = <<>>
    BY <1>2, <1>3, <1>5, <1>6 DEF LastOf, Onto
  <1>7. CASE batch # <<>>
    <2>1. Len(batch) \in Nat /\ Len(batch) > 0 /\ DOMAIN batch = 1 .. Len(batch)
      BY <1>5, <1>7
    <2>2. LastOf(batch, last) = batch[Len(batch)]
      BY <1>7 DEF LastOf, Last
    <2>3. Len(batch) \in DOMAIN batch /\ batch[Len(batch)] \in Since(last)
      BY <1>3, <2>1
    <2>4. \A k \in DOMAIN batch : batch[k] \in Nat
      BY <1>3, <1>4 DEF Ids
    <2>5. ASSUME NEW k \in DOMAIN batch PROVE batch[k] <= batch[Len(batch)]
      <3>1. CASE k = Len(batch)
        BY <3>1, <2>4
      <3>2. CASE k # Len(batch)
        <4>1. k < Len(batch) /\ Len(batch) \in DOMAIN batch
          BY <3>2, <2>1
        <4> QED
          BY <4>1, <1>2, <2>4 DEF Ascends
      <3> QED
        BY <3>1, <3>2
    <2>6. batch[Len(batch)] \in last .. MaxId /\ batch[Len(batch)] < nextId
      BY <1>4, <2>3 DEF Ids
    <2> QED
      BY <1>2, <1>3, <1>4, <1>5, <2>2, <2>5, <2>6 DEF Onto
  <1> QED
    BY <1>6, <1>7

LEMMA ConnectStep ==
    ASSUME MaxId \in Nat, StreamInv, Connect
    PROVE  StreamInv'
  <1> DEFINE last  == lastEventId
             batch == InOrder(Since(last))
             to    == LastOf(batch, last)
  <1>1. last \in 0 .. MaxId /\ last < nextId
    BY DEF StreamInv, StreamTypes, IdsInOrder
  <1>2. /\ batch \in Seq(Ids) /\ Ascends(batch)
        /\ \A k \in DOMAIN batch : last < batch[k] /\ batch[k] <= to /\ batch[k] \in Visible
        /\ \A i \in Since(last) : \E k \in DOMAIN batch : batch[k] = i
        /\ to \in last .. MaxId /\ to < nextId
    BY <1>1, Batch
  <1>3. /\ link' = "up" /\ wire' = (IF last = 0 THEN <<>> ELSE batch) /\ cursor' = to
        /\ base' = (IF last = 0 THEN to ELSE base)
        /\ UNCHANGED <<rows, nextId, seen, lastEventId>>
    BY DEF Connect, ConnectAfter
  <1> HIDE DEF batch, to
  <1>4. StreamTypes'
    BY <1>1, <1>2, <1>3 DEF StreamInv, StreamTypes
  <1>5. IdsInOrder'
    BY <1>1, <1>2, <1>3 DEF StreamInv, IdsInOrder
  <1>6. WireBetween'
    <2>1. CASE last = 0
      BY <1>2, <1>3, <2>1 DEF WireBetween, Ascends
    <2>2. CASE last # 0
      <3>1. wire' = batch
        BY <1>3, <2>2
      <3>2. \A k \in DOMAIN batch : rows[batch[k]].state \in {"committed", "late", "gone"}
        BY <1>2 DEF Visible
      <3> QED
        BY <1>1, <1>2, <1>3, <3>1, <3>2 DEF WireBetween
    <2> QED
      BY <2>1, <2>2
  <1>7. CASE last = 0
    <2>1. base' = cursor' /\ lastEventId' = 0
      BY <1>3, <1>7
    <2>2. DispatchedBelow' /\ NonePassedOver'
      BY <1>2, <1>3, <2>1 DEF DispatchedBelow, NonePassedOver, Ids
    <2> QED
      BY <1>4, <1>5, <1>6, <2>2 DEF StreamInv
  <1>8. CASE last # 0
    <2>1. wire' = batch /\ base' = base
      BY <1>3, <1>8
    <2>2. DispatchedBelow'
      BY <1>3, <2>1 DEF StreamInv, DispatchedBelow
    <2>3. ASSUME NEW i \in Ids, rows[i].state = "committed", base < i, i <= to
          PROVE  i \in seen \/ \E k \in DOMAIN batch : batch[k] = i
      <3>1. CASE i <= last
        BY <3>1, <2>3 DEF StreamInv, DispatchedBelow
      <3>2. CASE i > last
        BY <3>2, <2>3, <1>2 DEF Since, Visible
      <3> QED
        BY <3>1, <3>2, <1>1 DEF Ids
    <2>4. NonePassedOver'
      BY <1>3, <2>1, <2>3 DEF NonePassedOver, Reached
    <2> QED
      BY <1>4, <1>5, <1>6, <2>2, <2>4 DEF StreamInv
  <1> QED
    BY <1>7, <1>8

LEMMA PollStep ==
    ASSUME MaxId \in Nat, StreamInv, Poll
    PROVE  StreamInv'
  <1> DEFINE batch == InOrder(Since(cursor))
             to    == LastOf(batch, cursor)
  <1>1. /\ cursor \in 0 .. MaxId /\ cursor < nextId /\ link = "up"
        /\ lastEventId \in 0 .. MaxId /\ lastEventId <= cursor
        /\ wire \in Seq(Ids)
    BY DEF StreamInv, StreamTypes, IdsInOrder, WireBetween, Poll
  <1>2. /\ batch \in Seq(Ids) /\ Ascends(batch)
        /\ \A k \in DOMAIN batch : cursor < batch[k] /\ batch[k] <= to /\ batch[k] \in Visible
        /\ \A i \in Since(cursor) : \E k \in DOMAIN batch : batch[k] = i
        /\ to \in cursor .. MaxId /\ to < nextId
    BY <1>1, Batch
  <1>3. /\ wire' = wire \o batch /\ cursor' = to
        /\ UNCHANGED <<rows, nextId, link, base, seen, lastEventId>>
    BY DEF Poll
  <1> HIDE DEF batch, to
  <1>4. StreamTypes'
    <2>1. wire' \in Seq(Ids)
      BY <1>1, <1>2, <1>3
    <2> QED
      BY <1>1, <1>2, <1>3, <2>1 DEF StreamInv, StreamTypes
  <1>5. IdsInOrder'
    BY <1>1, <1>2, <1>3 DEF StreamInv, IdsInOrder
  <1> DEFINE n == Len(wire)  m == Len(batch)
  <1>6. /\ n \in Nat /\ m \in Nat
        /\ DOMAIN wire = 1 .. n /\ DOMAIN batch = 1 .. m /\ DOMAIN wire' = 1 .. n + m
        /\ \A k \in 1 .. n : wire'[k] = wire[k] /\ wire[k] \in Ids
        /\ \A k \in n + 1 .. n + m : wire'[k] = batch[k - n] /\ k - n \in 1 .. m
        /\ \A k \in 1 .. m : wire'[n + k] = batch[k] /\ batch[k] \in Ids
    BY <1>1, <1>2, <1>3
  <1> HIDE DEF n, m
  <1>7. \A k \in 1 .. n : /\ lastEventId < wire[k] /\ wire[k] <= cursor
                          /\ rows[wire[k]].state \in {"committed", "late", "gone"}
    BY <1>6 DEF StreamInv, WireBetween
  <1>8. \A k, l \in 1 .. n : k < l => wire[k] < wire[l]
    BY <1>6 DEF StreamInv, WireBetween, Ascends
  <1>9. \A k, l \in 1 .. m : k < l => batch[k] < batch[l]
    BY <1>2, <1>6 DEF Ascends
  <1>10. WireBetween'
    <2>1. ASSUME NEW k \in 1 .. n + m
          PROVE  /\ lastEventId < wire'[k] /\ wire'[k] <= to
                 /\ rows[wire'[k]].state \in {"committed", "late", "gone"}
      <3>1. CASE k \in 1 .. n
        BY <1>1, <1>2, <1>6, <1>7, <3>1 DEF Ids
      <3>2. CASE k \in n + 1 .. n + m
        <4>1. k - n \in DOMAIN batch /\ wire'[k] = batch[k - n] /\ batch[k - n] \in Ids
          BY <1>6, <3>2
        <4>2. cursor < wire'[k] /\ wire'[k] <= to /\ wire'[k] \in Visible
          BY <1>2, <4>1
        <4> QED
          BY <1>1, <4>1, <4>2 DEF Ids, Visible
      <3> QED
        BY <1>6, <3>1, <3>2
    <2>2. ASSUME NEW k \in 1 .. n + m, NEW l \in 1 .. n + m, k < l
          PROVE  wire'[k] < wire'[l]
      <3>1. CASE l \in 1 .. n
        BY <1>6, <1>8, <2>2, <3>1
      <3>2. CASE k \in 1 .. n /\ l \in n + 1 .. n + m
        <4>1. wire'[k] = wire[k] /\ wire[k] \in Ids /\ wire[k] <= cursor
          BY <1>6, <1>7, <3>2
        <4>2. l - n \in DOMAIN batch /\ wire'[l] = batch[l - n] /\ batch[l - n] \in Ids
          BY <1>6, <3>2
        <4>3. cursor < batch[l - n]
          BY <1>2, <4>2
        <4> QED
          BY <1>1, <4>1, <4>2, <4>3 DEF Ids
      <3>3. CASE k \in n + 1 .. n + m
        <4>1. l \in n + 1 .. n + m /\ k - n < l - n
          BY <1>6, <2>2, <3>3
        <4>2. k - n \in 1 .. m /\ l - n \in 1 .. m
          BY <1>6, <3>3, <4>1
        <4>3. batch[k - n] < batch[l - n]
          BY <1>9, <4>1, <4>2
        <4> QED
          BY <1>6, <3>3, <4>1, <4>3
      <3> QED
        BY <1>6, <3>1, <3>2, <3>3
    <2>3. lastEventId' <= cursor' /\ link' = "up"
      BY <1>1, <1>2, <1>3
    <2> QED
      BY <1>3, <1>6, <2>1, <2>2, <2>3 DEF WireBetween, Ascends
  <1>11. DispatchedBelow'
    BY <1>3 DEF StreamInv, DispatchedBelow
  <1>12. NonePassedOver'
    <2>1. SUFFICES ASSUME NEW i \in Ids, rows[i].state = "committed", base < i, i <= to
                   PROVE  i \in seen \/ \E k \in DOMAIN wire' : wire'[k] = i
      BY <1>3 DEF NonePassedOver, Reached
    <2>2. CASE i <= cursor
      <3>1. i \in seen \/ \E k \in 1 .. n : wire[k] = i
        BY <1>1, <1>6, <2>1, <2>2 DEF StreamInv, NonePassedOver, Reached
      <3> QED
        BY <1>6, <3>1
    <2>3. CASE i > cursor
      <3>1. \E k \in 1 .. m : batch[k] = i
        BY <1>2, <1>6, <2>1, <2>3 DEF Since, Visible
      <3>2. \A k \in 1 .. m : n + k \in 1 .. n + m
        BY <1>6
      <3> QED
        BY <1>6, <3>1, <3>2
    <2> QED
      BY <1>1, <2>2, <2>3 DEF Ids
  <1> QED
    BY <1>4, <1>5, <1>10, <1>11, <1>12 DEF StreamInv

LEMMA DropStep ==
    ASSUME MaxId \in Nat, StreamInv, Drop
    PROVE  StreamInv'
  <1>1. /\ link' = "down" /\ wire' = <<>>
        /\ UNCHANGED <<rows, nextId, cursor, seen, lastEventId, base>>
    BY DEF Drop
  <1>2. WireBetween' /\ NonePassedOver'
    BY <1>1 DEF WireBetween, NonePassedOver, Ascends
  <1> QED
    BY <1>1, <1>2 DEF StreamInv, StreamTypes, IdsInOrder, DispatchedBelow

LEMMA DispatchStep ==
    ASSUME MaxId \in Nat, StreamInv, Dispatch
    PROVE  StreamInv'
  <1> DEFINE h == Head(wire)
  <1>1. /\ wire \in Seq(Ids) /\ wire # <<>> /\ wire' = Tail(wire)
        /\ seen' = seen \cup {h} /\ lastEventId' = h
        /\ UNCHANGED <<rows, nextId, link, cursor, base>>
    BY DEF Dispatch, StreamInv, StreamTypes
  <1> DEFINE n == Len(wire)
  <1>2. /\ n \in Nat /\ n > 0 /\ DOMAIN wire = 1 .. n /\ h = wire[1] /\ h \in Ids
        /\ DOMAIN wire' = 1 .. n - 1 /\ wire' \in Seq(Ids)
        /\ \A k \in 1 .. n - 1 : wire'[k] = wire[k + 1] /\ k + 1 \in 1 .. n
        /\ \A k \in 1 .. n : wire[k] \in Ids
    BY <1>1
  <1> HIDE DEF n, h
  <1>3. link = "up"
    BY <1>1 DEF StreamInv, StreamTypes, WireBetween
  <1>4. /\ \A k \in 1 .. n : /\ lastEventId < wire[k] /\ wire[k] <= cursor
                             /\ rows[wire[k]].state \in {"committed", "late", "gone"}
        /\ \A k, l \in 1 .. n : k < l => wire[k] < wire[l]
    BY <1>2 DEF StreamInv, WireBetween, Ascends
  <1>5. StreamTypes'
    <2>1. h \in 0 .. MaxId
      BY <1>2 DEF Ids
    <2>2. seen' \in SUBSET Ids
      BY <1>1, <1>2 DEF StreamInv, StreamTypes
    <2> QED
      BY <1>1, <1>2, <2>1, <2>2 DEF StreamInv, StreamTypes
  <1>6. lastEventId < h /\ h <= cursor
    BY <1>2, <1>4
  <1>7. IdsInOrder'
    BY <1>1, <1>2, <1>6 DEF StreamInv, StreamTypes, IdsInOrder, Ids
  <1>8. WireBetween'
    <2>1. \A k \in 1 .. n - 1 : h < wire[k + 1]
      BY <1>2, <1>4
    <2>2. \A k \in 1 .. n - 1 : /\ h < wire'[k] /\ wire'[k] <= cursor
                                /\ rows[wire'[k]].state \in {"committed", "late", "gone"}
      BY <1>2, <1>4, <2>1
    <2>3. \A k, l \in 1 .. n - 1 : k < l => wire'[k] < wire'[l]
      BY <1>2, <1>4
    <2> QED
      BY <1>1, <1>2, <1>3, <1>6, <2>2, <2>3 DEF WireBetween, Ascends
  <1>9. ASSUME NEW i \in Ids, rows[i].state = "committed", base < i, i <= cursor
        PROVE  /\ i <= h => i \in seen'
               /\ i \in seen' \/ \E k \in DOMAIN wire' : wire'[k] = i
    <2>1. i \in seen \/ \E k \in 1 .. n : wire[k] = i
      BY <1>2, <1>3, <1>9 DEF StreamInv, NonePassedOver, Reached
    <2>2. ASSUME NEW k \in 1 .. n, wire[k] = i, k # 1
          PROVE  h < i /\ k - 1 \in 1 .. n - 1 /\ wire'[k - 1] = i
      <3>1. k - 1 \in 1 .. n - 1 /\ wire'[k - 1] = wire[k - 1 + 1] /\ k - 1 + 1 = k /\ 1 < k
        BY <1>2, <2>2
      <3> QED
        BY <1>2, <1>4, <2>2, <3>1
    <2>3. CASE i \in seen
      BY <1>1, <2>3
    <2>4. CASE i = h
      BY <1>1, <2>4
    <2>5. CASE \E k \in 1 .. n : wire[k] = i /\ k # 1
      <3>1. h < i /\ \E k \in DOMAIN wire' : wire'[k] = i
        BY <1>2, <2>2, <2>5
      <3> QED
        BY <1>2, <3>1 DEF Ids
    <2> QED
      BY <1>2, <2>1, <2>3, <2>4, <2>5
  <1>10. DispatchedBelow'
    BY <1>1, <1>2, <1>6, <1>9 DEF DispatchedBelow, StreamInv, StreamTypes, Ids
  <1>11. NonePassedOver'
    BY <1>1, <1>9 DEF NonePassedOver, Reached
  <1> QED
    BY <1>5, <1>7, <1>8, <1>10, <1>11 DEF StreamInv

(* One lemma for all a step can do to the stream.                          *)
StreamMoves ==
    \/ UNCHANGED streamVars
    \/ \E topic \in Topics : Insert(topic) \/ AppendRow(topic)
    \/ EraseRows
    \/ \E i \in Ids : CommitRow(i)
    \/ Connect \/ Poll \/ Drop \/ Dispatch

LEMMA StreamKeeps ==
    ASSUME MaxId \in Nat, StreamInv, StreamMoves
    PROVE  StreamInv'
  <1>1. CASE UNCHANGED streamVars
    BY <1>1 DEF streamVars, StreamInv, StreamTypes, IdsInOrder, WireBetween, DispatchedBelow,
                NonePassedOver, Reached, Ascends
  <1> QED
    BY <1>1, WriterKeeps, InsertStep, EraseStep, CommitStep, ConnectStep, PollStep,
       DropStep, DispatchStep DEF StreamMoves

------------------------------------------------------------------------------
(* Workspace: the invariant *)

Refreshes ==
    [kind : {"plain", "stream", "retry"},
     phase : {"idle", "quotation", "negotiation", "answered", "failed", "delayed"},
     current : BOOLEAN, asked : Nat, known : BOOLEAN,
     quotation : SUBSET OfQuotation, negotiation : SUBSET OfNegotiation, order : BOOLEAN,
     timer : BOOLEAN, tries : Nat]

Orders == [kind : Commands,
           phase : {"idle", "sent", "handled", "read", "polling", "polled", "failed"},
           of : Nat, quotation : SUBSET OfQuotation]

Tellings == [quotation : SUBSET OfQuotation, negotiation : SUBSET OfNegotiation, order : BOOLEAN]

WorkspaceTypes ==
    /\ db \in SUBSET Facts /\ live \in Nat /\ made \in Nat
    /\ qid \in Nat /\ nid \in BOOLEAN
    /\ applied \in Tellings /\ due \in SUBSET Ids
    /\ runs \in [Runs -> Refreshes]
    /\ commands \in [Slots -> Orders]

\* Quotations are numbered as they are created, and only the last may exist.
Numbered ==
    /\ live \in {0, made} /\ made \in {0} \cup Quotations
    /\ qid <= made
    /\ \A r \in Runs : runs[r].asked <= made
    /\ \A c \in Slots : commands[c].of <= made

\* What an event says: nothing of the brand's other quotations, and of the one
\* that exists what its transaction wrote, or will.
Says(i) ==
    LET topic == rows[i].topic  state == rows[i].state IN
    \/ topic.fact = "other" /\ topic.of = 0
    \/ /\ topic.fact # "other" /\ topic.of \in 1 .. made
       /\ state = "gone" => topic.of # live
       /\ state # "gone" => topic.of = live
       /\ state \in {"committed", "late"} => topic.fact \in db
       /\ topic.fact \in {"offered", "decided"} /\ topic.of = live => "started" \in db

EventsSay == \A i \in Ids : rows[i].state # "none" => Says(i)

\* A refresh that is current asks for the workspace that is open, and is the
\* only one.
OneCurrent ==
    /\ \A r \in Runs : runs[r].current => /\ runs[r].asked = qid
                                          /\ runs[r].phase \notin {"idle", "delayed"}
    /\ \A r, x \in Runs : runs[r].current /\ runs[x].current => r = x

\* What was read of the quotation that exists is true of it.
ReadIsTrue ==
    /\ \A r \in Runs : runs[r].asked # 0 /\ runs[r].asked = live =>
                           runs[r].quotation \cup runs[r].negotiation \subseteq db
    /\ qid # 0 /\ qid = live => applied.quotation \cup applied.negotiation \subseteq db
    /\ qid = 0 => applied = Nothing /\ due = {}

\* The current refresh has read no less than the page was told.
ReadsForward ==
    \A r \in Runs : runs[r].current =>
        /\ runs[r].phase \in {"negotiation", "answered"}
               => applied.quotation \subseteq runs[r].quotation
        /\ runs[r].phase = "answered" => applied.negotiation \subseteq runs[r].negotiation

Fact(i) == rows[i].topic.fact
Told(i) == Fact(i) \in applied.quotation \cup applied.negotiation

\* The refresh will tell of the fact, or fail.
Covers(run, fact) ==
    \/ run.phase \in {"quotation", "failed"}
    \/ run.phase = "negotiation" /\ fact \in run.quotation \cup OfNegotiation
    \/ run.phase = "answered" /\ fact \in run.quotation \cup run.negotiation

DueIsOurs == \A i \in due : /\ rows[i].state \in {"committed", "late", "gone"}
                            /\ rows[i].topic.of = qid /\ qid # 0

DueIsCovered == \A i \in due : \A r \in Runs :
    debounce \/ (runs[r].current => Covers(runs[r], Fact(i)))

DueIsUnderWay == \A i \in due :
    debounce \/ behind \/ Told(i) \/ \E r \in Runs : runs[r].current \/ runs[r].phase = "delayed"

PageInv ==
    /\ WorkspaceTypes /\ Numbered /\ Consistent(db) /\ EventsSay
    /\ OneCurrent /\ ReadIsTrue /\ ReadsForward
    /\ DueIsOurs /\ DueIsCovered /\ DueIsUnderWay

WorkspaceInv == StreamInv /\ PageInv

LEMMA BegunIs ==
    ASSUME NEW kind \in {"plain", "stream", "retry"}, NEW q \in Nat, NEW n \in BOOLEAN,
           NEW tries \in Nat
    PROVE  LET b == Begun(kind, q, n, tries) IN
           /\ b \in Refreshes /\ b.phase = "quotation" /\ b.current /\ b.asked = q
           /\ b.quotation = {} /\ b.negotiation = {}
  BY DEF Begun, IdleRun, Refreshes

LEMMA OutdatedIs ==
    ASSUME NEW q \in Refreshes
    PROVE  LET o == [q EXCEPT !.current = FALSE] IN
           /\ o \in Refreshes /\ ~o.current /\ o.phase = q.phase /\ o.asked = q.asked
           /\ o.quotation = q.quotation /\ o.negotiation = q.negotiation
  BY DEF Refreshes

LEMMA RefreshingIs ==
    ASSUME NEW old \in [Runs -> Refreshes], NEW r \in Runs, NEW run \in Refreshes
    PROVE  LET new == Refreshing(old, r, run) IN
           /\ new \in [Runs -> Refreshes] /\ new[r] = run
           /\ \A x \in Runs \ {r} :
                 /\ ~new[x].current /\ new[x].phase = old[x].phase
                 /\ new[x].asked = old[x].asked /\ new[x].quotation = old[x].quotation
                 /\ new[x].negotiation = old[x].negotiation
  <1> DEFINE new == Refreshing(old, r, run)
  <1> SUFFICES
         /\ new \in [Runs -> Refreshes] /\ new[r] = run
         /\ \A x \in Runs \ {r} :
               /\ ~new[x].current /\ new[x].phase = old[x].phase
               /\ new[x].asked = old[x].asked /\ new[x].quotation = old[x].quotation
               /\ new[x].negotiation = old[x].negotiation
    OBVIOUS
  <1>1. \A x \in Runs : new[x] = IF x = r THEN run ELSE [old[x] EXCEPT !.current = FALSE]
    BY DEF Refreshing
  <1>2. \A x \in Runs : old[x] \in Refreshes
    OBVIOUS
  <1>3. new \in [Runs -> Refreshes]
    BY <1>2, OutdatedIs DEF Refreshing
  <1> HIDE DEF new
  <1>4. new[r] = run
    BY <1>1
  <1>5. ASSUME NEW x \in Runs \ {r}
        PROVE  /\ ~new[x].current /\ new[x].phase = old[x].phase
               /\ new[x].asked = old[x].asked /\ new[x].quotation = old[x].quotation
               /\ new[x].negotiation = old[x].negotiation
    <2>1. new[x] = [old[x] EXCEPT !.current = FALSE] /\ old[x] \in Refreshes
      BY <1>1, <1>2
    <2> QED
      BY <2>1, OutdatedIs
  <1> QED
    BY <1>3, <1>4, <1>5

LEMMA PlaceIsFree ==
    ASSUME Runs \subseteq Nat, Room
    PROVE  Place \in Runs /\ Free(Place)
  <1> DEFINE T == {r \in Runs : Free(r)}
  <1>1. PICK r \in T : \A x \in T : r <= x
    BY Least DEF Room
  <1> QED
    BY <1>1 DEF Place

(* A page that asks again is covered for all it has received.              *)
LEMMA NewRefresh ==
    ASSUME PageInv, NEW r \in Runs, NEW run \in Refreshes,
           run.current, run.phase = "quotation", run.asked = qid',
           run.quotation = {}, run.negotiation = {},
           runs' = Refreshing(runs, r, run),
           UNCHANGED <<rows, db, live, made>>,
           nid' \in BOOLEAN, commands' \in [Slots -> Orders],
           \A c \in Slots : commands'[c].of <= made,
           qid' \in Nat, qid' <= made,
           \/ UNCHANGED <<qid, applied, due>>
           \/ applied' = Nothing /\ due' = {}
    PROVE  PageInv'
  <1>1. /\ runs \in [Runs -> Refreshes]
        /\ runs' \in [Runs -> Refreshes] /\ runs'[r] = run
        /\ \A x \in Runs \ {r} :
              /\ ~runs'[x].current /\ runs'[x].phase = runs[x].phase
              /\ runs'[x].asked = runs[x].asked /\ runs'[x].quotation = runs[x].quotation
              /\ runs'[x].negotiation = runs[x].negotiation
    BY RefreshingIs DEF PageInv, WorkspaceTypes
  <1>2. Nothing \in Tellings /\ Nothing.quotation = {} /\ Nothing.negotiation = {}
    BY DEF Nothing, Tellings
  <1>3. WorkspaceTypes' /\ Numbered'
    BY <1>1, <1>2 DEF PageInv, WorkspaceTypes, Numbered
  <1>4. Consistent(db)' /\ EventsSay'
    BY DEF PageInv, Consistent, EventsSay, Says
  <1>5. OneCurrent'
    BY <1>1 DEF OneCurrent
  <1>6. ReadIsTrue'
    BY <1>1, <1>2 DEF PageInv, ReadIsTrue
  <1>7. ReadsForward'
    BY <1>1 DEF ReadsForward
  <1>8. DueIsOurs'
    BY DEF PageInv, DueIsOurs
  <1>9. DueIsCovered' /\ DueIsUnderWay'
    BY <1>1 DEF DueIsCovered, DueIsUnderWay, Covers
  <1> QED
    BY <1>3, <1>4, <1>5, <1>6, <1>7, <1>8, <1>9 DEF PageInv

(* Steps of the commands, and of what the page makes of them.              *)
LEMMA CommandsOnly ==
    ASSUME PageInv, UNCHANGED <<rows, db, live, made, qid, applied, due, debounce, behind, runs>>,
           nid' \in BOOLEAN, commands' \in [Slots -> Orders],
           \A c \in Slots : commands'[c].of <= made
    PROVE  PageInv'
  <1>1. WorkspaceTypes' /\ Numbered'
    BY DEF PageInv, WorkspaceTypes, Numbered
  <1>2. Consistent(db)' /\ EventsSay' /\ OneCurrent' /\ ReadIsTrue' /\ ReadsForward'
    BY DEF PageInv, Consistent, EventsSay, Says, OneCurrent, ReadIsTrue, ReadsForward
  <1>3. DueIsOurs' /\ DueIsCovered' /\ DueIsUnderWay'
    BY DEF PageInv, DueIsOurs, DueIsCovered, DueIsUnderWay, Covers, Told, Fact
  <1> QED
    BY <1>1, <1>2, <1>3 DEF PageInv

(* The server learns more of the quotation that exists.                    *)
LEMMA ServerLearns ==
    ASSUME PageInv,
           UNCHANGED <<live, made, qid, nid, applied, due, debounce, behind, runs>>,
           commands' \in [Slots -> Orders], \A c \in Slots : commands'[c].of <= made,
           db \subseteq db', db' \in SUBSET Facts, Consistent(db'), EventsSay',
           \A i \in due : /\ rows'[i].topic = rows[i].topic
                          /\ rows'[i].state \in {"committed", "late", "gone"}
    PROVE  PageInv'
  <1>1. WorkspaceTypes' /\ Numbered'
    BY DEF PageInv, WorkspaceTypes, Numbered
  <1>2. OneCurrent' /\ ReadIsTrue' /\ ReadsForward'
    BY DEF PageInv, OneCurrent, ReadIsTrue, ReadsForward
  <1>3. DueIsOurs' /\ DueIsCovered' /\ DueIsUnderWay'
    BY DEF PageInv, DueIsOurs, DueIsCovered, DueIsUnderWay, Covers, Told, Fact
  <1> QED
    BY <1>1, <1>2, <1>3 DEF PageInv, Consistent

------------------------------------------------------------------------------
(* Workspace: the server's steps *)

LEMMA TopicIs ==
    ASSUME Topics = WorkspaceTopics, NEW topic \in Topics
    PROVE  /\ topic.fact \in {"parsed", "started", "offered", "decided", "other"}
           /\ topic.fact # "other" => topic.fact \in Facts
  <1>1. topic \in [fact : {"parsed", "started", "offered", "decided", "other"},
                   of : {0} \cup Quotations]
    BY DEF WorkspaceTopics
  <1>2. topic.fact \in {"parsed", "started", "offered", "decided", "other"}
    BY <1>1
  <1> QED
    BY <1>2 DEF Facts

(* A new row: what it says must hold; the rest says what it said.           *)
LEMMA NewRow ==
    ASSUME MaxId \in Nat, StreamInv, PageInv, NEW topic \in Topics,
           NEW state \in {"inserted", "committed"},
           nextId <= MaxId,
           rows' = [rows EXCEPT ![nextId] = [topic |-> topic, state |-> state]]
    PROVE  /\ nextId \in Ids /\ rows'[nextId].topic = topic /\ rows'[nextId].state = state
           /\ \A i \in Ids \ {nextId} : rows'[i] = rows[i]
           /\ \A i \in due : i \in Ids /\ rows'[i].topic = rows[i].topic
                             /\ rows'[i].state \in {"committed", "late", "gone"}
  <1>1. nextId \in Ids /\ rows[nextId].state = "none" /\ due \in SUBSET Ids
    BY DEF StreamInv, StreamTypes, IdsInOrder, Ids, PageInv, WorkspaceTypes
  <1>2. /\ rows'[nextId] = [topic |-> topic, state |-> state]
        /\ \A i \in Ids \ {nextId} : rows'[i] = rows[i]
    BY <1>1 DEF StreamInv, StreamTypes
  <1>3. \A i \in due : rows[i].state \in {"committed", "late", "gone"}
    BY DEF PageInv, DueIsOurs
  <1> QED
    BY <1>1, <1>2, <1>3

LEMMA WritesStep ==
    ASSUME MaxId \in Nat, StreamInv, PageInv, NEW fact \in {"parsed", "offered", "decided"},
           Topics = WorkspaceTopics, Writes(fact)
    PROVE  PageInv'
  <1> DEFINE topic == [fact |-> fact, of |-> live]
  <1>1. /\ rows' = [rows EXCEPT ![nextId] = [topic |-> topic, state |-> "inserted"]]
        /\ nextId <= MaxId /\ live # 0
        /\ fact = "offered" => "started" \in db
        /\ fact = "decided" => "offered" \in db
        /\ UNCHANGED <<db, live, made, qid, nid, applied, due, debounce, behind, runs, commands>>
    BY DEF Writes, Insert, serverVars, pageVars, timerVars
  <1>2. topic \in Topics /\ live \in Nat /\ live <= made
    BY <1>1 DEF WorkspaceTopics, PageInv, Numbered, WorkspaceTypes
  <1>3. /\ nextId \in Ids /\ rows'[nextId].topic = topic /\ rows'[nextId].state = "inserted"
        /\ \A i \in Ids \ {nextId} : rows'[i] = rows[i]
        /\ \A i \in due : i \in Ids /\ rows'[i].topic = rows[i].topic
                          /\ rows'[i].state \in {"committed", "late", "gone"}
    BY <1>1, <1>2, NewRow
  <1>4. fact \in {"offered", "decided"} => "started" \in db
    BY <1>1 DEF PageInv, Consistent
  <1>5. EventsSay'
    <2>1. ASSUME NEW i \in Ids, i = nextId
          PROVE  Says(i)'
      BY <1>1, <1>2, <1>3, <1>4, <2>1 DEF Says
    <2>2. ASSUME NEW i \in Ids \ {nextId}, rows'[i].state # "none"
          PROVE  Says(i)'
      BY <1>1, <1>3, <2>2 DEF PageInv, EventsSay, Says
    <2> QED
      BY <2>1, <2>2 DEF EventsSay
  <1> QED
    BY <1>1, <1>3, <1>5, ServerLearns DEF PageInv, WorkspaceTypes, Numbered

LEMMA WritesElsewhereStep ==
    ASSUME MaxId \in Nat, StreamInv, PageInv, Topics = WorkspaceTopics, WritesElsewhere
    PROVE  PageInv'
  <1> DEFINE topic == [fact |-> "other", of |-> 0]
  <1>1. /\ rows' = [rows EXCEPT ![nextId] = [topic |-> topic, state |-> "inserted"]]
        /\ nextId <= MaxId
        /\ UNCHANGED <<db, live, made, qid, nid, applied, due, debounce, behind, runs, commands>>
    BY DEF WritesElsewhere, Insert, serverVars, pageVars, timerVars
  <1>2. topic \in Topics
    BY DEF WorkspaceTopics
  <1>3. /\ nextId \in Ids /\ rows'[nextId].topic = topic /\ rows'[nextId].state = "inserted"
        /\ \A i \in Ids \ {nextId} : rows'[i] = rows[i]
        /\ \A i \in due : i \in Ids /\ rows'[i].topic = rows[i].topic
                          /\ rows'[i].state \in {"committed", "late", "gone"}
    BY <1>1, <1>2, NewRow
  <1>4. EventsSay'
    <2>1. ASSUME NEW i \in Ids, i = nextId
          PROVE  Says(i)'
      BY <1>3, <2>1 DEF Says
    <2>2. ASSUME NEW i \in Ids \ {nextId}, rows'[i].state # "none"
          PROVE  Says(i)'
      BY <1>1, <1>3, <2>2 DEF PageInv, EventsSay, Says
    <2> QED
      BY <2>1, <2>2 DEF EventsSay
  <1> QED
    BY <1>1, <1>3, <1>4, ServerLearns DEF PageInv, WorkspaceTypes, Numbered

LEMMA CommitsStep ==
    ASSUME StreamInv, PageInv, NEW i \in Ids, Topics = WorkspaceTopics, Commits(i)
    PROVE  PageInv'
  <1> DEFINE topic == rows[i].topic
  <1>1. PICK state \in {"committed", "late"} : rows' = [rows EXCEPT ![i].state = state]
    BY DEF Commits, CommitRow
  <1>2. /\ rows[i].state = "inserted"
        /\ db' = IF topic.fact = "other" THEN db ELSE db \cup {topic.fact}
        /\ UNCHANGED <<live, made, qid, nid, applied, due, debounce, behind, runs, commands>>
    BY DEF Commits, CommitRow, pageVars, timerVars
  <1>3. /\ topic \in Topics /\ rows'[i].topic = topic /\ rows'[i].state = state
        /\ \A j \in Ids \ {i} : rows'[j] = rows[j]
    BY <1>1 DEF StreamInv, StreamTypes
  <1>4. Says(i) /\ due \in SUBSET Ids
    BY <1>2 DEF PageInv, EventsSay, WorkspaceTypes
  <1>5. /\ topic.fact # "other" => topic.fact \in Facts
        /\ topic.fact \in {"offered", "decided"} => "started" \in db
    BY <1>2, <1>3, <1>4, TopicIs DEF Says
  <1>6. db \subseteq db' /\ db' \in SUBSET Facts /\ Consistent(db')
    BY <1>2, <1>5 DEF PageInv, WorkspaceTypes, Consistent
  <1>7. EventsSay'
    <2>1. Says(i)'
      BY <1>2, <1>3, <1>4, <1>6 DEF Says
    <2>2. ASSUME NEW j \in Ids \ {i}, rows'[j].state # "none"
          PROVE  Says(j)'
      BY <1>2, <1>3, <1>6, <2>2 DEF PageInv, EventsSay, Says
    <2> QED
      BY <2>1, <2>2 DEF EventsSay
  <1>8. \A j \in due : /\ rows'[j].topic = rows[j].topic
                       /\ rows'[j].state \in {"committed", "late", "gone"}
    BY <1>2, <1>3, <1>4 DEF PageInv, DueIsOurs
  <1> QED
    BY <1>2, <1>6, <1>7, <1>8, ServerLearns DEF PageInv, WorkspaceTypes, Numbered

LEMMA MatchesStep ==
    ASSUME PageInv, Matches
    PROVE  PageInv'
  <1>1. /\ db' = db \cup {"matched"}
        /\ UNCHANGED <<rows, live, made, qid, nid, applied, due, debounce, behind, runs, commands>>
    BY DEF Matches, streamVars, pageVars, timerVars
  <1>2. db \subseteq db' /\ db' \in SUBSET Facts /\ Consistent(db')
    BY <1>1 DEF PageInv, WorkspaceTypes, Consistent, Facts
  <1>3. EventsSay'
    BY <1>1 DEF PageInv, EventsSay, Says
  <1> QED
    BY <1>1, <1>2, <1>3, ServerLearns DEF PageInv, WorkspaceTypes, Numbered, DueIsOurs

------------------------------------------------------------------------------
(* Workspace: the stream as the page follows it *)

\* What the page and its refreshes read is unchanged.
PageStands == UNCHANGED <<rows, db, live, made, qid, nid, applied, due, debounce, behind, runs, commands>>

LEMMA Stands ==
    ASSUME PageInv, PageStands
    PROVE  PageInv'
  BY CommandsOnly DEF PageStands, PageInv, WorkspaceTypes, Numbered

\* A refresh of the open workspace begins in a free place.
AsksAgain(kind) == Room /\ runs' = Refreshing(runs, Place, Begun(kind, qid, nid, 0))

LEMMA AsksAgainStep ==
    ASSUME Runs \subseteq Nat, PageInv, NEW kind \in {"plain", "stream", "retry"},
           AsksAgain(kind),
           UNCHANGED <<rows, db, live, made, qid, nid, applied, due, commands>>
    PROVE  PageInv'
  <1>1. Place \in Runs
    BY PlaceIsFree DEF AsksAgain
  <1>2. qid \in Nat /\ nid \in BOOLEAN /\ commands \in [Slots -> Orders] /\ qid <= made
        /\ \A c \in Slots : commands[c].of <= made
    BY DEF PageInv, WorkspaceTypes, Numbered
  <1>3. PICK run \in Refreshes : /\ run = Begun(kind, qid, nid, 0)
                                 /\ run.phase = "quotation" /\ run.current /\ run.asked = qid
                                 /\ run.quotation = {} /\ run.negotiation = {}
    BY <1>2, BegunIs
  <1>4. runs' = Refreshing(runs, Place, run)
    BY <1>3 DEF AsksAgain
  <1> QED
    BY <1>1, <1>2, <1>3, <1>4, NewRefresh

LEMMA BreaksStep ==
    ASSUME Runs \subseteq Nat, PageInv, Breaks
    PROVE  PageInv'
  <1>1. UNCHANGED <<rows, db, live, made, qid, nid, applied, due, behind, commands>>
    BY DEF Breaks, Drop, serverVars, pageVars
  <1>2. CASE UNCHANGED <<timerVars, runs>>
    BY <1>1, <1>2, Stands DEF PageStands, timerVars
  <1>3. CASE AsksAgain("retry")
    BY <1>1, <1>3, AsksAgainStep
  <1> QED
    BY <1>2, <1>3 DEF Breaks, Invalidates, AsksAgain

LEMMA DebouncedStep ==
    ASSUME Runs \subseteq Nat, PageInv, Debounced
    PROVE  PageInv'
  BY AsksAgainStep DEF Debounced, AsksAgain, streamVars, serverVars, pageVars

LEMMA AsksStep ==
    ASSUME Runs \subseteq Nat, PageInv, Asks
    PROVE  PageInv'
  BY AsksAgainStep DEF Asks, AsksAgain, streamVars, serverVars, pageVars

LEMMA ReceivesStep ==
    ASSUME StreamInv, PageInv, Receives
    PROVE  PageInv'
  <1>1. UNCHANGED <<rows, db, live, made, qid, nid, applied, behind, runs, commands>>
    BY DEF Receives, Dispatch, serverVars
  <1>2. CASE UNCHANGED <<debounce, due>>
    BY <1>1, <1>2, Stands DEF PageStands
  <1>3. CASE /\ debounce' = TRUE /\ due' = due \cup {Head(wire)}
             /\ Relevant(rows[Head(wire)].topic)
    <2>1. wire # <<>> /\ wire \in Seq(Ids)
      BY DEF Receives, Dispatch, StreamInv, StreamTypes
    <2>2. 1 \in DOMAIN wire /\ Head(wire) = wire[1] /\ Head(wire) \in Ids
      BY <2>1
    <2>3. rows[Head(wire)].state \in {"committed", "late", "gone"}
      BY <2>2 DEF StreamInv, WireBetween
    <2>4. rows[Head(wire)].topic.of = qid /\ qid # 0
      BY <1>3 DEF Relevant
    <2>5. WorkspaceTypes' /\ Numbered' /\ Consistent(db)' /\ EventsSay' /\ OneCurrent'
          /\ ReadIsTrue' /\ ReadsForward'
      BY <1>1, <1>3, <2>2, <2>4 DEF PageInv, WorkspaceTypes, Numbered, Consistent, EventsSay, Says,
                         OneCurrent, ReadIsTrue, ReadsForward
    <2>6. DueIsOurs'
      BY <1>1, <1>3, <2>3, <2>4 DEF PageInv, DueIsOurs
    <2>7. DueIsCovered' /\ DueIsUnderWay'
      BY <1>3 DEF DueIsCovered, DueIsUnderWay
    <2> QED
      BY <2>5, <2>6, <2>7 DEF PageInv
  <1> QED
    BY <1>2, <1>3 DEF Receives

(* A timer of a refresh is no part of what it reads.                       *)
LEMMA Unchanged ==
    ASSUME PageInv, runs' \in [Runs -> Refreshes],
           \A x \in Runs : /\ runs'[x].current = runs[x].current
                           /\ runs'[x].phase = runs[x].phase
                           /\ runs'[x].asked = runs[x].asked
                           /\ runs'[x].quotation = runs[x].quotation
                           /\ runs'[x].negotiation = runs[x].negotiation,
           UNCHANGED <<rows, db, live, made, qid, nid, applied, due, debounce, behind, commands>>
    PROVE  PageInv'
  <1>1. WorkspaceTypes' /\ Numbered'
    BY DEF PageInv, WorkspaceTypes, Numbered
  <1>2. Consistent(db)' /\ EventsSay' /\ OneCurrent' /\ ReadIsTrue' /\ ReadsForward'
    BY DEF PageInv, Consistent, EventsSay, Says, OneCurrent, ReadIsTrue, ReadsForward
  <1>3. DueIsOurs' /\ DueIsCovered' /\ DueIsUnderWay'
    BY DEF PageInv, DueIsOurs, DueIsCovered, DueIsUnderWay, Covers, Told, Fact
  <1> QED
    BY <1>1, <1>2, <1>3 DEF PageInv

LEMMA MarksStaleStep ==
    ASSUME PageInv, MarksStale
    PROVE  PageInv'
  <1>1. UNCHANGED <<rows, db, live, made, qid, nid, applied, due, debounce, behind, commands>>
    BY DEF MarksStale, streamVars, serverVars
  <1>2. CASE UNCHANGED runs
    BY <1>1, <1>2, Stands DEF PageStands
  <1>3. ASSUME NEW r \in Runs, runs' = [runs EXCEPT ![r].timer = FALSE]
        PROVE  PageInv'
    <2>1. runs \in [Runs -> Refreshes]
      BY DEF PageInv, WorkspaceTypes
    <2>2. \A x \in Runs : runs[x] \in Refreshes
                          /\ runs'[x] = IF x = r THEN [runs[x] EXCEPT !.timer = FALSE] ELSE runs[x]
      BY <1>3, <2>1
    <2>3. ASSUME NEW q \in Refreshes
          PROVE  LET o == [q EXCEPT !.timer = FALSE] IN
                 /\ o \in Refreshes /\ o.current = q.current /\ o.phase = q.phase
                 /\ o.asked = q.asked /\ o.quotation = q.quotation
                 /\ o.negotiation = q.negotiation
      BY DEF Refreshes
    <2>4. runs' \in [Runs -> Refreshes]
      BY <1>3, <2>1, <2>2, <2>3
    <2> QED
      BY <1>1, <2>2, <2>3, <2>4, Unchanged
  <1> QED
    BY <1>2, <1>3 DEF MarksStale

------------------------------------------------------------------------------
(* Workspace: what a refresh reads *)

LEMMA FailedIs ==
    ASSUME NEW run \in Refreshes
    PROVE  LET o == [run EXCEPT !.phase = "failed"] IN
           /\ o \in Refreshes /\ o.phase = "failed" /\ o.current = run.current
           /\ o.asked = run.asked /\ o.quotation = run.quotation
           /\ o.negotiation = run.negotiation
  BY DEF Refreshes

LEMMA NegotiationReadIs ==
    ASSUME NEW run \in Refreshes, NEW n \in SUBSET OfNegotiation
    PROVE  LET o == [run EXCEPT !.phase = "answered", !.negotiation = n] IN
           /\ o \in Refreshes /\ o.phase = "answered" /\ o.current = run.current
           /\ o.asked = run.asked /\ o.quotation = run.quotation /\ o.negotiation = n
  BY DEF Refreshes

(* An event of the open workspace, as long as it exists, says what is true of it. *)
LEMMA DueIsTrue ==
    ASSUME Topics = WorkspaceTopics, StreamInv, PageInv, NEW i \in due, qid = live
    PROVE  Fact(i) \in db /\ Fact(i) \in {"parsed"} \cup OfNegotiation
  <1>1. i \in Ids /\ rows[i].state \in {"committed", "late", "gone"}
        /\ rows[i].topic.of = qid /\ qid # 0 /\ rows[i].topic \in Topics
    BY DEF PageInv, WorkspaceTypes, DueIsOurs, StreamInv, StreamTypes
  <1>2. Says(i)
    BY <1>1 DEF PageInv, EventsSay
  <1>3. rows[i].topic.fact # "other" /\ rows[i].topic.fact \in db
    BY <1>1, <1>2 DEF Says
  <1> QED
    BY <1>1, <1>3, TopicIs DEF Fact, OfNegotiation, OfDecision

LEMMA OneRead ==
    ASSUME PageInv, NEW r \in Runs, NEW new \in Refreshes, runs' = [runs EXCEPT ![r] = new],
           new.current = runs[r].current, new.asked = runs[r].asked,
           runs[r].phase \notin {"idle", "delayed"}, new.phase \notin {"idle", "delayed"},
           new.asked # 0 /\ new.asked = live => new.quotation \cup new.negotiation \subseteq db,
           new.current =>
              /\ new.phase \in {"negotiation", "answered"}
                     => applied.quotation \subseteq new.quotation
              /\ new.phase = "answered" => applied.negotiation \subseteq new.negotiation
              /\ \A i \in due : debounce \/ Covers(new, Fact(i)),
           UNCHANGED <<rows, db, live, made, qid, nid, applied, due, debounce, behind, commands>>
    PROVE  PageInv'
  <1>1. runs \in [Runs -> Refreshes]
    BY DEF PageInv, WorkspaceTypes
  <1>2. /\ runs' \in [Runs -> Refreshes] /\ runs'[r] = new
        /\ \A x \in Runs \ {r} : runs'[x] = runs[x]
    BY <1>1
  <1>3. WorkspaceTypes' /\ Numbered'
    BY <1>2 DEF PageInv, WorkspaceTypes, Numbered
  <1>4. Consistent(db)' /\ EventsSay' /\ OneCurrent'
    BY <1>2 DEF PageInv, Consistent, EventsSay, Says, OneCurrent
  <1>5. ReadIsTrue' /\ ReadsForward'
    BY <1>2 DEF PageInv, ReadIsTrue, ReadsForward
  <1>6. DueIsOurs'
    BY DEF PageInv, DueIsOurs
  <1>7. DueIsCovered'
    BY <1>2 DEF PageInv, DueIsCovered, Covers, Fact
  <1>8. DueIsUnderWay'
    BY <1>2 DEF PageInv, DueIsUnderWay, Told, Fact
  <1> QED
    BY <1>3, <1>4, <1>5, <1>6, <1>7, <1>8 DEF PageInv

LEMMA RequestFailsStep ==
    ASSUME PageInv, NEW r \in Runs, RequestFails(r)
    PROVE  PageInv'
  <1>1. runs \in [Runs -> Refreshes] /\ runs[r] \in Refreshes
    BY DEF PageInv, WorkspaceTypes
  <1>2. PICK new \in Refreshes :
            /\ new = [runs[r] EXCEPT !.phase = "failed"]
            /\ new.phase = "failed" /\ new.current = runs[r].current
            /\ new.asked = runs[r].asked /\ new.quotation = runs[r].quotation
            /\ new.negotiation = runs[r].negotiation
    BY <1>1, FailedIs
  <1>3. /\ runs' = [runs EXCEPT ![r] = new] /\ runs[r].phase \in {"quotation", "negotiation"}
        /\ UNCHANGED <<rows, db, live, made, qid, nid, applied, due, debounce, behind, commands>>
    BY <1>2 DEF RequestFails, streamVars, serverVars, pageVars, timerVars
  <1>4. new.asked # 0 /\ new.asked = live => new.quotation \cup new.negotiation \subseteq db
    BY <1>2 DEF PageInv, ReadIsTrue
  <1> QED
    BY <1>2, <1>3, <1>4, OneRead DEF Covers

LEMMA ReadsQuotationStep ==
    ASSUME Topics = WorkspaceTopics, StreamInv, PageInv, NEW r \in Runs, ReadsQuotation(r)
    PROVE  PageInv'
  <1>1. runs \in [Runs -> Refreshes] /\ runs[r] \in Refreshes /\ runs[r].known \in BOOLEAN
    BY DEF PageInv, WorkspaceTypes, Refreshes
  <1>2. /\ runs[r].phase = "quotation"
        /\ UNCHANGED <<rows, db, live, made, qid, nid, applied, due, debounce, behind, commands>>
    BY DEF ReadsQuotation, streamVars, serverVars, pageVars, timerVars
  <1>3. /\ runs[r].current => runs[r].asked = qid
        /\ runs[r].asked # 0 /\ runs[r].asked = live =>
              runs[r].quotation \cup runs[r].negotiation \subseteq db
    BY DEF PageInv, OneCurrent, ReadIsTrue
  <1>4. CASE runs[r].asked \notin {0, live}
    <2>1. PICK new \in Refreshes :
              /\ new = [runs[r] EXCEPT !.phase = "failed"]
              /\ new.phase = "failed" /\ new.current = runs[r].current
              /\ new.asked = runs[r].asked
      BY <1>1, FailedIs
    <2>2. runs' = [runs EXCEPT ![r] = new]
      BY <1>4, <2>1 DEF ReadsQuotation
    <2> QED
      BY <1>2, <1>4, <2>1, <2>2, OneRead DEF Covers
  <1>5. CASE runs[r].asked \in {0, live}
    <2>1. PICK q : q = IF runs[r].asked = 0 THEN {} ELSE db \cap OfQuotation
      OBVIOUS
    <2>2. PICK known : known = (runs[r].asked # 0 /\ (runs[r].known \/ "started" \in q))
      OBVIOUS
    <2>3. PICK order : order = (known /\ "ordered" \in db)
      OBVIOUS
    <2>4. PICK phase : phase = IF known THEN "negotiation" ELSE "answered"
      OBVIOUS
    <2>5. /\ q \in SUBSET OfQuotation /\ known \in BOOLEAN /\ order \in BOOLEAN
          /\ phase \in {"negotiation", "answered"}
      BY <2>1, <2>2, <2>3, <2>4
    <2>6. PICK new \in Refreshes :
              /\ new = [runs[r] EXCEPT !.phase = phase, !.quotation = q, !.known = known,
                                       !.order = order]
              /\ new.phase = phase /\ new.current = runs[r].current
              /\ new.asked = runs[r].asked /\ new.quotation = q
              /\ new.negotiation = runs[r].negotiation
      <3> DEFINE o == [runs[r] EXCEPT !.phase = phase, !.quotation = q, !.known = known,
                                      !.order = order]
      <3>1. /\ o \in Refreshes /\ o.phase = phase /\ o.current = runs[r].current
            /\ o.asked = runs[r].asked /\ o.quotation = q
            /\ o.negotiation = runs[r].negotiation
        BY <1>1, <2>5 DEF Refreshes
      <3> HIDE DEF o
      <3>2. o = [runs[r] EXCEPT !.phase = phase, !.quotation = q, !.known = known,
                                !.order = order]
        BY DEF o
      <3> QED
        BY <3>1, <3>2
    <2>7. runs' = [runs EXCEPT ![r] = new]
      BY <1>5, <2>1, <2>2, <2>3, <2>4, <2>6 DEF ReadsQuotation
    <2>8. new.asked # 0 /\ new.asked = live => new.quotation \cup new.negotiation \subseteq db
      BY <1>3, <2>1, <2>6
    <2>9. ASSUME new.current, new.asked = 0
          PROVE  applied.quotation = {} /\ applied.negotiation = {} /\ due = {}
      BY <1>3, <2>6, <2>9 DEF PageInv, ReadIsTrue, Nothing
    <2>10. ASSUME new.current, new.asked # 0
           PROVE  /\ applied.quotation \subseteq new.quotation
                  /\ new.phase = "answered" => applied.negotiation = {}
                  /\ \A i \in due : Covers(new, Fact(i))
      <3>1. qid = live /\ qid # 0 /\ q = db \cap OfQuotation
        BY <1>3, <1>5, <2>1, <2>6, <2>10
      <3>2. /\ applied.quotation \subseteq db \cap OfQuotation
            /\ applied.negotiation \subseteq db \cap OfNegotiation
        BY <3>1 DEF PageInv, ReadIsTrue, WorkspaceTypes, Tellings
      <3>3. CASE known
        <4>1. new.phase = "negotiation"
          BY <2>4, <2>6, <3>3
        <4>2. \A i \in due : Fact(i) \in q \cup OfNegotiation
          BY <3>1, DueIsTrue DEF OfQuotation
        <4> QED
          BY <2>6, <3>1, <3>2, <4>1, <4>2 DEF Covers
      <3>4. CASE ~known
        <4>1. "started" \notin db
          BY <2>2, <2>6, <2>10, <3>1, <3>4 DEF OfQuotation
        <4>2. db \cap OfNegotiation = {}
          BY <4>1 DEF PageInv, Consistent, OfNegotiation, OfDecision
        <4>3. new.phase = "answered"
          BY <2>4, <2>6, <3>4
        <4>4. \A i \in due : Fact(i) \in q
          BY <3>1, <4>2, DueIsTrue DEF OfQuotation
        <4> QED
          BY <2>6, <3>1, <3>2, <4>2, <4>3, <4>4 DEF Covers
      <3> QED
        BY <3>3, <3>4
    <2>11. new.current =>
              /\ new.phase \in {"negotiation", "answered"}
                     => applied.quotation \subseteq new.quotation
              /\ new.phase = "answered" => applied.negotiation \subseteq new.negotiation
              /\ \A i \in due : debounce \/ Covers(new, Fact(i))
      BY <2>9, <2>10
    <2> QED
      BY <1>2, <2>5, <2>6, <2>7, <2>8, <2>11, OneRead
  <1> QED
    BY <1>4, <1>5

LEMMA ReadsNegotiationStep ==
    ASSUME Topics = WorkspaceTopics, StreamInv, PageInv, NEW r \in Runs, ReadsNegotiation(r)
    PROVE  PageInv'
  <1>1. runs \in [Runs -> Refreshes] /\ runs[r] \in Refreshes
    BY DEF PageInv, WorkspaceTypes
  <1>2. /\ runs[r].phase = "negotiation"
        /\ UNCHANGED <<rows, db, live, made, qid, nid, applied, due, debounce, behind, commands>>
    BY DEF ReadsNegotiation, streamVars, serverVars, pageVars, timerVars
  <1>3. /\ runs[r].current => /\ runs[r].asked = qid
                              /\ applied.quotation \subseteq runs[r].quotation
                              /\ \A i \in due : debounce \/ Covers(runs[r], Fact(i))
        /\ runs[r].asked # 0 /\ runs[r].asked = live =>
              runs[r].quotation \cup runs[r].negotiation \subseteq db
    BY <1>2 DEF PageInv, OneCurrent, ReadIsTrue, ReadsForward, DueIsCovered
  <1>4. CASE runs[r].asked # live
    <2>1. PICK new \in Refreshes :
              /\ new = [runs[r] EXCEPT !.phase = "failed"]
              /\ new.phase = "failed" /\ new.current = runs[r].current
              /\ new.asked = runs[r].asked
      BY <1>1, FailedIs
    <2>2. runs' = [runs EXCEPT ![r] = new]
      BY <1>4, <2>1 DEF ReadsNegotiation
    <2> QED
      BY <1>2, <1>4, <2>1, <2>2, OneRead DEF Covers
  <1>5. CASE runs[r].asked = live
    <2>1. PICK n : n = db \cap OfNegotiation
      OBVIOUS
    <2>2. PICK new \in Refreshes :
              /\ new = [runs[r] EXCEPT !.phase = "answered", !.negotiation = n]
              /\ new.phase = "answered" /\ new.current = runs[r].current
              /\ new.asked = runs[r].asked /\ new.quotation = runs[r].quotation
              /\ new.negotiation = n
      BY <1>1, <2>1, NegotiationReadIs
    <2>3. runs' = [runs EXCEPT ![r] = new]
      BY <1>5, <2>1, <2>2 DEF ReadsNegotiation
    <2>4. ASSUME new.current
          PROVE  /\ applied.negotiation \subseteq new.negotiation
                 /\ \A i \in due : debounce \/ Covers(new, Fact(i))
      <3>1. qid = live
        BY <1>3, <1>5, <2>2, <2>4
      <3>2. CASE qid = 0
        BY <3>2 DEF PageInv, ReadIsTrue, Nothing
      <3>3. CASE qid # 0
        <4>1. applied.negotiation \subseteq n
          BY <2>1, <3>1, <3>3 DEF PageInv, ReadIsTrue, WorkspaceTypes, Tellings
        <4>2. \A i \in due : debounce \/ Fact(i) \in runs[r].quotation \cup OfNegotiation
          BY <1>2, <1>3, <2>2, <2>4 DEF Covers
        <4>3. \A i \in due : debounce \/ Fact(i) \in runs[r].quotation \cup n
          BY <2>1, <3>1, <4>2, DueIsTrue
        <4> QED
          BY <2>2, <4>1, <4>3 DEF Covers
      <3> QED
        BY <3>2, <3>3
    <2> QED
      BY <1>2, <1>3, <2>1, <2>2, <2>3, <2>4, OneRead
  <1> QED
    BY <1>4, <1>5

------------------------------------------------------------------------------
(* Workspace: how a refresh ends *)

LEMMA TimerIs ==
    ASSUME NEW q \in Refreshes, NEW b \in BOOLEAN
    PROVE  LET o == [q EXCEPT !.timer = @ /\ b] IN
           /\ o \in Refreshes /\ o.current = q.current /\ o.phase = q.phase
           /\ o.asked = q.asked /\ o.quotation = q.quotation /\ o.negotiation = q.negotiation
  BY DEF Refreshes

LEMMA IdleIs ==
    /\ IdleRun \in Refreshes /\ ~IdleRun.current /\ IdleRun.phase = "idle"
    /\ IdleRun.asked = 0 /\ IdleRun.quotation = {} /\ IdleRun.negotiation = {}
  BY DEF IdleRun, Refreshes

\* The refresh r is over, or waits to try again; the others are as they were.
Over(r) ==
    /\ runs' \in [Runs -> Refreshes]
    /\ \A x \in Runs \ {r} : /\ runs'[x].current = runs[x].current
                             /\ runs'[x].phase = runs[x].phase
                             /\ runs'[x].asked = runs[x].asked
                             /\ runs'[x].quotation = runs[x].quotation
                             /\ runs'[x].negotiation = runs[x].negotiation
    /\ ~runs'[r].current
    /\ runs'[r].asked \in {0, runs[r].asked}
    /\ runs'[r].asked # 0 => /\ runs'[r].quotation = runs[r].quotation
                             /\ runs'[r].negotiation = runs[r].negotiation
    /\ debounce' = debounce

LEMMA EndsOver ==
    ASSUME PageInv, NEW r \in Runs, Ends(r)
    PROVE  Over(r)
  <1>1. runs \in [Runs -> Refreshes] /\ \A x \in Runs : runs[x] \in Refreshes
    BY DEF PageInv, WorkspaceTypes
  <1>2. CASE runs[r].kind = "plain"
    <2>1. runs' = [runs EXCEPT ![r] = IdleRun] /\ debounce' = debounce
      BY <1>2 DEF Ends, timerVars
    <2>2. /\ runs' \in [Runs -> Refreshes] /\ runs'[r] = IdleRun
          /\ \A x \in Runs \ {r} : runs'[x] = runs[x]
      BY <1>1, <2>1, IdleIs
    <2> QED
      BY <2>1, <2>2, IdleIs DEF Over
  <1>3. CASE runs[r].kind # "plain"
    <2>1. /\ runs' = [x \in Runs |-> IF x = r THEN IdleRun
                                     ELSE [runs[x] EXCEPT !.timer = @ /\ x # handle]]
          /\ debounce' = debounce
      BY <1>3 DEF Ends
    <2>2. \A x \in Runs \ {r} :
             /\ runs'[x] \in Refreshes
             /\ runs'[x].current = runs[x].current /\ runs'[x].phase = runs[x].phase
             /\ runs'[x].asked = runs[x].asked /\ runs'[x].quotation = runs[x].quotation
             /\ runs'[x].negotiation = runs[x].negotiation
      <3>1. SUFFICES ASSUME NEW x \in Runs \ {r}
                     PROVE  /\ runs'[x] \in Refreshes
                            /\ runs'[x].current = runs[x].current
                            /\ runs'[x].phase = runs[x].phase
                            /\ runs'[x].asked = runs[x].asked
                            /\ runs'[x].quotation = runs[x].quotation
                            /\ runs'[x].negotiation = runs[x].negotiation
        OBVIOUS
      <3>2. PICK b \in BOOLEAN : b = (x # handle)
        OBVIOUS
      <3>3. runs'[x] = [runs[x] EXCEPT !.timer = @ /\ b] /\ runs[x] \in Refreshes
        BY <1>1, <2>1, <3>2
      <3> QED
        BY <3>3, TimerIs
    <2>3. runs'[r] = IdleRun
      BY <2>1
    <2>4. runs' \in [Runs -> Refreshes]
      BY <2>1, <2>2, <2>3, IdleIs
    <2> QED
      BY <2>1, <2>2, <2>3, <2>4, IdleIs DEF Over
  <1> QED
    BY <1>2, <1>3

LEMMA DelayedIs ==
    ASSUME NEW q \in Refreshes
    PROVE  LET o == [q EXCEPT !.phase = "delayed", !.current = FALSE] IN
           /\ o \in Refreshes /\ ~o.current /\ o.phase = "delayed"
           /\ o.asked = q.asked /\ o.quotation = q.quotation /\ o.negotiation = q.negotiation
  BY DEF Refreshes

LEMMA EndsUnreadOver ==
    ASSUME PageInv, NEW r \in Runs, EndsUnread(r)
    PROVE  Over(r)
  <1>1. runs \in [Runs -> Refreshes] /\ runs[r] \in Refreshes
    BY DEF PageInv, WorkspaceTypes
  <1>2. CASE ~TriesAgain(r)
    BY <1>2, EndsOver DEF EndsUnread
  <1>3. CASE TriesAgain(r)
    <2>1. PICK o \in Refreshes :
              /\ o = [runs[r] EXCEPT !.phase = "delayed", !.current = FALSE]
              /\ ~o.current /\ o.asked = runs[r].asked /\ o.quotation = runs[r].quotation
              /\ o.negotiation = runs[r].negotiation
      BY <1>1, DelayedIs
    <2>2. /\ runs' = [runs EXCEPT ![r].phase = "delayed", ![r].current = FALSE]
          /\ debounce' = debounce
      BY <1>3 DEF EndsUnread, timerVars
    <2>3. runs' = [runs EXCEPT ![r] = o]
      BY <1>1, <2>1, <2>2
    <2>4. /\ runs' \in [Runs -> Refreshes] /\ runs'[r] = o
          /\ \A x \in Runs \ {r} : runs'[x] = runs[x]
      BY <1>1, <2>3
    <2> QED
      BY <2>1, <2>2, <2>4 DEF Over
  <1> QED
    BY <1>2, <1>3

(* What a refresh that is over leaves behind, whatever is shown then.       *)
LEMMA OverKeeps ==
    ASSUME PageInv, NEW r \in Runs, Over(r),
           UNCHANGED <<rows, db, live, made, qid, due, commands>>, nid' \in BOOLEAN,
           applied' \in Tellings,
           qid # 0 /\ qid = live => applied'.quotation \cup applied'.negotiation \subseteq db,
           qid = 0 => applied' = Nothing,
           applied' = applied \/ runs[r].current
    PROVE  /\ WorkspaceTypes' /\ Numbered' /\ Consistent(db)' /\ EventsSay'
           /\ OneCurrent' /\ ReadIsTrue' /\ ReadsForward' /\ DueIsOurs' /\ DueIsCovered'
  <1>1. WorkspaceTypes'
    BY DEF PageInv, WorkspaceTypes, Over
  <1>2. Numbered'
    BY DEF PageInv, WorkspaceTypes, Numbered, Over
  <1>3. Consistent(db)' /\ EventsSay' /\ DueIsOurs'
    BY DEF PageInv, Consistent, EventsSay, Says, DueIsOurs
  <1>4. OneCurrent' /\ ReadIsTrue'
    BY DEF PageInv, OneCurrent, ReadIsTrue, Over
  <1>5. ReadsForward'
    <2>1. ASSUME NEW x \in Runs, runs'[x].current
          PROVE  x # r /\ runs[x].current /\ applied' = applied
      BY <2>1 DEF PageInv, OneCurrent, Over
    <2> QED
      BY <2>1 DEF PageInv, ReadsForward, Over
  <1>6. DueIsCovered'
    BY DEF PageInv, DueIsCovered, Covers, Fact, Over
  <1> QED
    BY <1>1, <1>2, <1>3, <1>4, <1>5, <1>6

LEMMA OvertakenStep ==
    ASSUME PageInv, NEW r \in Runs, Overtaken(r)
    PROVE  PageInv'
  <1>1. /\ Over(r) /\ runs[r].phase = "answered" /\ ~runs[r].current
        /\ UNCHANGED <<rows, db, live, made, qid, nid, applied, due, behind, commands>>
    BY EndsUnreadOver DEF Overtaken, streamVars, serverVars
  <1>2. DueIsUnderWay'
    BY <1>1 DEF PageInv, DueIsUnderWay, Told, Fact, Over
  <1>3. /\ nid \in BOOLEAN /\ applied \in Tellings
        /\ qid # 0 /\ qid = live => applied.quotation \cup applied.negotiation \subseteq db
        /\ qid = 0 => applied = Nothing
    BY DEF PageInv, WorkspaceTypes, ReadIsTrue
  <1> QED
    BY <1>1, <1>2, <1>3, OverKeeps DEF PageInv

LEMMA FailsRefreshStep ==
    ASSUME PageInv, NEW r \in Runs, FailsRefresh(r)
    PROVE  PageInv'
  <1>1. /\ Over(r) /\ behind' = TRUE
        /\ UNCHANGED <<rows, db, live, made, qid, nid, applied, due, commands>>
    BY EndsUnreadOver DEF FailsRefresh, streamVars, serverVars
  <1>2. DueIsUnderWay'
    BY <1>1 DEF DueIsUnderWay
  <1>3. /\ nid \in BOOLEAN /\ applied \in Tellings
        /\ qid # 0 /\ qid = live => applied.quotation \cup applied.negotiation \subseteq db
        /\ qid = 0 => applied = Nothing
    BY DEF PageInv, WorkspaceTypes, ReadIsTrue
  <1> QED
    BY <1>1, <1>2, <1>3, OverKeeps DEF PageInv

(* What the answered refresh tells.                                        *)
LEMMA AnswerIs ==
    ASSUME PageInv, NEW r \in Runs, Answered(r)
    PROVE  /\ Over(r) /\ runs[r].current /\ runs[r].phase = "answered" /\ runs[r].asked = qid
           /\ UNCHANGED <<rows, db, live, made, qid, due, commands>> /\ nid' \in BOOLEAN
           /\ applied' \in Tellings
           /\ qid = 0 => applied' = Nothing
           /\ qid # 0 => /\ applied'.quotation = runs[r].quotation
                         /\ applied'.negotiation = runs[r].negotiation
  <1>1. /\ Over(r) /\ runs[r].current /\ runs[r].phase = "answered"
        /\ UNCHANGED <<rows, db, live, made, qid, due, commands>>
    BY EndsOver DEF Answered, Shows, streamVars, serverVars
  <1>2. runs[r].asked = qid /\ runs[r] \in Refreshes /\ nid \in BOOLEAN
    BY <1>1 DEF PageInv, OneCurrent, WorkspaceTypes
  <1>3. /\ runs[r].known \in BOOLEAN
        /\ [quotation |-> runs[r].quotation, negotiation |-> runs[r].negotiation,
            order |-> runs[r].order] \in Tellings
    BY <1>2 DEF Refreshes, Tellings
  <1>4. nid' \in BOOLEAN
    BY <1>2, <1>3 DEF Answered, Shows
  <1>5. CASE qid = 0
    <2>1. applied' = Nothing
      BY <1>2, <1>5 DEF Answered, Shows
    <2> QED
      BY <1>1, <1>2, <1>4, <1>5, <2>1 DEF Nothing, Tellings
  <1>6. CASE qid # 0
    <2>1. applied' = [quotation |-> runs[r].quotation, negotiation |-> runs[r].negotiation,
                      order |-> runs[r].order]
      BY <1>2, <1>6 DEF Answered, Shows
    <2> QED
      BY <1>1, <1>2, <1>3, <1>4, <1>6, <2>1
  <1> QED
    BY <1>5, <1>6

LEMMA AnsweredStep ==
    ASSUME PageInv, NEW r \in Runs, Answered(r)
    PROVE  PageInv'
  <1>1. /\ Over(r) /\ runs[r].current /\ runs[r].phase = "answered" /\ runs[r].asked = qid
        /\ UNCHANGED <<rows, db, live, made, qid, due, commands>> /\ nid' \in BOOLEAN
        /\ applied' \in Tellings
        /\ qid = 0 => applied' = Nothing
        /\ qid # 0 => /\ applied'.quotation = runs[r].quotation
                      /\ applied'.negotiation = runs[r].negotiation
    BY AnswerIs
  <1>2. qid # 0 /\ qid = live => applied'.quotation \cup applied'.negotiation \subseteq db
    BY <1>1 DEF PageInv, ReadIsTrue
  <1>3. DueIsUnderWay'
    <2>1. CASE qid = 0
      BY <1>1, <2>1 DEF PageInv, ReadIsTrue, DueIsUnderWay
    <2>2. CASE qid # 0
      <3>1. \A i \in due : debounce \/ Fact(i) \in runs[r].quotation \cup runs[r].negotiation
        BY <1>1 DEF PageInv, DueIsCovered, Covers
      <3>2. debounce' = debounce
        BY <1>1 DEF Over
      <3> QED
        BY <1>1, <2>2, <3>1, <3>2 DEF DueIsUnderWay, Told, Fact
    <2> QED
      BY <2>1, <2>2
  <1> QED
    BY <1>1, <1>2, <1>3, OverKeeps DEF PageInv

Retried(q, n, tries, timer) == [Begun("retry", q, n, tries) EXCEPT !.timer = timer]

LEMMA RetriedIs ==
    ASSUME NEW q \in Nat, NEW n \in BOOLEAN, NEW tries \in Nat, NEW timer \in BOOLEAN,
           NEW run, run = Retried(q, n, tries, timer)
    PROVE  /\ run \in Refreshes /\ run.phase = "quotation" /\ run.current /\ run.asked = q
           /\ run.quotation = {} /\ run.negotiation = {}
  <1> DEFINE b == Begun("retry", q, n, tries)
  <1>1. /\ b \in Refreshes /\ b.phase = "quotation" /\ b.current /\ b.asked = q
        /\ b.quotation = {} /\ b.negotiation = {}
    BY BegunIs
  <1>2. run = [b EXCEPT !.timer = timer]
    BY DEF Retried
  <1> HIDE DEF b
  <1> QED
    BY <1>1, <1>2 DEF Refreshes

LEMMA RetriesStep ==
    ASSUME PageInv, NEW r \in Runs, Retries(r)
    PROVE  PageInv'
  <1> DEFINE tries == runs[r].tries + 1
             timer == runs[r].timer
             run   == Retried(qid, nid, tries, timer)
  <1>1. /\ runs[r] \in Refreshes /\ qid \in Nat /\ nid \in BOOLEAN /\ qid <= made
        /\ commands \in [Slots -> Orders] /\ \A c \in Slots : commands[c].of <= made
    BY DEF PageInv, WorkspaceTypes, Numbered
  <1>2. timer \in BOOLEAN /\ tries \in Nat
    BY <1>1 DEF Refreshes
  <1>3. run = Retried(qid, nid, tries, timer)
    OBVIOUS
  <1>4. runs' = Refreshing(runs, r, run)
    BY DEF Retries, Retried
  <1> HIDE DEF tries, timer, run
  <1>5. /\ run \in Refreshes /\ run.phase = "quotation" /\ run.current /\ run.asked = qid
        /\ run.quotation = {} /\ run.negotiation = {}
    BY <1>1, <1>2, <1>3, RetriedIs
  <1>6. UNCHANGED <<rows, db, live, made, qid, nid, applied, due, commands>>
    BY DEF Retries, streamVars, serverVars, pageVars
  <1> QED
    BY <1>1, <1>4, <1>5, <1>6, NewRefresh

------------------------------------------------------------------------------
(* Workspace: commands *)

LEMMA OneCommand ==
    ASSUME PageInv, NEW c \in Slots, NEW new \in Orders, new.of <= made,
           commands' = [commands EXCEPT ![c] = new]
    PROVE  commands' \in [Slots -> Orders] /\ \A x \in Slots : commands'[x].of <= made
  <1>1. commands \in [Slots -> Orders] /\ \A x \in Slots : commands[x].of <= made
    BY DEF PageInv, WorkspaceTypes, Numbered
  <1> QED
    BY <1>1

LEMMA IdleCommandIs ==
    ASSUME PageInv
    PROVE  IdleCommand \in Orders /\ IdleCommand.of <= made
  BY DEF IdleCommand, Orders, Commands, PageInv, WorkspaceTypes

LEMMA PhaseIs ==
    ASSUME PageInv, NEW c \in Slots,
           NEW phase \in {"handled", "read", "polling", "polled", "failed"}
    PROVE  LET o == [commands[c] EXCEPT !.phase = phase] IN
           o \in Orders /\ o.of = commands[c].of /\ o.of <= made
  <1>1. commands[c] \in Orders /\ commands[c].of <= made
    BY DEF PageInv, WorkspaceTypes, Numbered
  <1> QED
    BY <1>1 DEF Orders

LEMMA PhaseOnly ==
    ASSUME PageInv, NEW c \in Slots,
           NEW phase \in {"handled", "read", "polling", "polled", "failed"},
           commands' = [commands EXCEPT ![c].phase = phase]
    PROVE  commands' \in [Slots -> Orders] /\ \A x \in Slots : commands'[x].of <= made
  <1> DEFINE o == [commands[c] EXCEPT !.phase = phase]
  <1>1. o \in Orders /\ o.of <= made
    BY PhaseIs
  <1>2. commands' = [commands EXCEPT ![c] = o]
    BY DEF PageInv, WorkspaceTypes
  <1> HIDE DEF o
  <1> QED
    BY <1>1, <1>2, OneCommand

LEMMA GivesStep ==
    ASSUME PageInv, NEW c \in Slots, NEW k \in Commands, Gives(c, k)
    PROVE  PageInv'
  <1> DEFINE new == [kind |-> k, phase |-> "sent", of |-> qid, quotation |-> {}]
  <1>1. new \in Orders /\ new.of <= made
    BY DEF Orders, PageInv, WorkspaceTypes, Numbered
  <1>2. /\ commands' = [commands EXCEPT ![c] = new]
        /\ UNCHANGED <<rows, db, live, made, qid, nid, applied, due, debounce, behind, runs>>
    BY DEF Gives, streamVars, serverVars, timerVars
  <1> HIDE DEF new
  <1> QED
    BY <1>1, <1>2, OneCommand, CommandsOnly DEF PageInv, WorkspaceTypes

LEMMA LosesStep ==
    ASSUME PageInv, NEW c \in Slots, Loses(c)
    PROVE  PageInv'
  <1>1. /\ commands' = [commands EXCEPT ![c].phase = "failed"]
        /\ UNCHANGED <<rows, db, live, made, qid, nid, applied, due, debounce, behind, runs>>
    BY DEF Loses, streamVars, serverVars, pageVars, timerVars
  <1> QED
    BY <1>1, PhaseOnly, CommandsOnly DEF PageInv, WorkspaceTypes

LEMMA ReadsBackStep ==
    ASSUME PageInv, NEW c \in Slots, ReadsBack(c)
    PROVE  PageInv'
  <1>1. UNCHANGED <<rows, db, live, made, qid, nid, applied, due, debounce, behind, runs>>
    BY DEF ReadsBack, streamVars, serverVars, pageVars, timerVars
  <1>2. PICK q \in SUBSET OfQuotation : q = db \cap OfQuotation
    OBVIOUS
  <1>3. PICK phase \in {"polled", "read"} :
            phase = IF commands[c].phase = "polling" THEN "polled" ELSE "read"
    OBVIOUS
  <1>4. commands[c] \in Orders /\ commands[c].of <= made
    BY DEF PageInv, WorkspaceTypes, Numbered
  <1>5. CASE commands[c].of # live
    <2>1. commands' = [commands EXCEPT ![c] = [commands[c] EXCEPT !.phase = "failed"]]
      BY <1>5 DEF ReadsBack
    <2> DEFINE o == [commands[c] EXCEPT !.phase = "failed"]
    <2>2. o \in Orders /\ o.of <= made
      BY PhaseIs
    <2> HIDE DEF o
    <2>3. commands' = [commands EXCEPT ![c] = o]
      BY <2>1 DEF o
    <2> QED
      BY <1>1, <2>2, <2>3, OneCommand, CommandsOnly DEF PageInv, WorkspaceTypes
  <1>6. CASE commands[c].of = live
    <2> DEFINE o == [commands[c] EXCEPT !.phase = phase, !.quotation = q]
    <2>1. o \in Orders /\ o.of <= made
      BY <1>4 DEF Orders
    <2>2. commands' = [commands EXCEPT ![c] = o]
      BY <1>2, <1>3, <1>6 DEF ReadsBack
    <2> HIDE DEF o
    <2> QED
      BY <1>1, <2>1, <2>2, OneCommand, CommandsOnly DEF PageInv, WorkspaceTypes
  <1> QED
    BY <1>5, <1>6

LEMMA FailsCommandStep ==
    ASSUME PageInv, NEW c \in Slots, FailsCommand(c)
    PROVE  PageInv'
  <1>1. /\ commands' = [commands EXCEPT ![c] = IdleCommand]
        /\ UNCHANGED <<rows, db, live, made, qid, nid, applied, due, debounce, behind, runs>>
    BY DEF FailsCommand, streamVars, serverVars, timerVars
  <1> QED
    BY <1>1, IdleCommandIs, OneCommand, CommandsOnly DEF PageInv, WorkspaceTypes

LEMMA ConfirmsStep ==
    ASSUME PageInv, Confirms
    PROVE  PageInv'
  BY Stands DEF Confirms, PageStands, streamVars, serverVars, timerVars

LEMMA ClearsStep ==
    ASSUME Runs \subseteq Nat, PageInv, Clears, commands' \in [Slots -> Orders],
           \A x \in Slots : commands'[x].of <= made
    PROVE  PageInv'
  <1>1. /\ Room /\ runs' = Refreshing(runs, Place, Begun("plain", 0, FALSE, 0))
        /\ qid' = 0 /\ nid' = FALSE /\ applied' = Nothing /\ due' = {}
        /\ UNCHANGED <<rows, db, live, made>>
    BY DEF Clears, streamVars, serverVars
  <1>2. Place \in Runs
    BY <1>1, PlaceIsFree
  <1> DEFINE run == Begun("plain", 0, FALSE, 0)
  <1>3. /\ run \in Refreshes /\ run.phase = "quotation" /\ run.current /\ run.asked = 0
        /\ run.quotation = {} /\ run.negotiation = {}
    BY BegunIs
  <1>4. runs' = Refreshing(runs, Place, run)
    BY <1>1
  <1>5. 0 <= made
    BY DEF PageInv, WorkspaceTypes
  <1> HIDE DEF run
  <1> QED
    BY <1>1, <1>2, <1>3, <1>4, <1>5, NewRefresh

LEMMA StartsAgainStep ==
    ASSUME Runs \subseteq Nat, PageInv, StartsAgain
    PROVE  PageInv'
  BY ClearsStep DEF StartsAgain, PageInv, WorkspaceTypes, Numbered

LEMMA FinishesResetStep ==
    ASSUME Runs \subseteq Nat, PageInv, NEW c \in Slots, FinishesReset(c)
    PROVE  PageInv'
  BY ClearsStep, IdleCommandIs, OneCommand DEF FinishesReset

LEMMA FinishesUploadStep ==
    ASSUME Runs \subseteq Nat, PageInv, NEW c \in Slots, FinishesUpload(c)
    PROVE  PageInv'
  <1>1. /\ Room /\ runs' = Refreshing(runs, Place, Begun("plain", commands[c].of, nid, 0))
        /\ qid' = commands[c].of /\ nid' = nid /\ applied' = Nothing /\ due' = {}
        /\ UNCHANGED <<rows, db, live, made>>
        /\ commands' = [commands EXCEPT ![c].phase = "polling"]
    BY DEF FinishesUpload, streamVars, serverVars
  <1>2. Place \in Runs
    BY <1>1, PlaceIsFree
  <1>3. commands[c].of \in Nat /\ commands[c].of <= made /\ nid \in BOOLEAN
    BY DEF PageInv, WorkspaceTypes, Numbered, Orders
  <1> DEFINE run == Begun("plain", commands[c].of, nid, 0)
  <1>4. /\ run \in Refreshes /\ run.phase = "quotation" /\ run.current
        /\ run.asked = commands[c].of /\ run.quotation = {} /\ run.negotiation = {}
    BY <1>3, BegunIs
  <1>5. runs' = Refreshing(runs, Place, run)
    BY <1>1
  <1>6. commands' \in [Slots -> Orders] /\ \A x \in Slots : commands'[x].of <= made
    BY <1>1, PhaseOnly
  <1> HIDE DEF run
  <1> QED
    BY <1>1, <1>2, <1>3, <1>4, <1>5, <1>6, NewRefresh

(* The answer of a command; a refresh follows it or not.                   *)
LEMMA FinishStep ==
    ASSUME Runs \subseteq Nat, PageInv, NEW c \in Slots, NEW told, NEW derived, NEW previewed,
           NEW negotiating \in BOOLEAN, NEW followed \in BOOLEAN,
           Finish(c, told, derived, previewed, negotiating, followed)
    PROVE  PageInv'
  <1>1. /\ commands' \in [Slots -> Orders] /\ \A x \in Slots : commands'[x].of <= made
        /\ nid' \in BOOLEAN
        /\ UNCHANGED <<rows, db, live, made, qid, applied, due, debounce, behind>>
    BY IdleCommandIs, OneCommand DEF Finish, streamVars, serverVars, timerVars
  <1>2. CASE ~followed
    BY <1>1, <1>2, CommandsOnly DEF Finish
  <1>3. CASE followed
    <2>1. Room /\ runs' = Refreshing(runs, Place, Begun("plain", qid, negotiating, 0))
      BY <1>3 DEF Finish
    <2>2. Place \in Runs /\ qid \in Nat /\ qid <= made
      BY <2>1, PlaceIsFree DEF PageInv, WorkspaceTypes, Numbered
    <2> DEFINE run == Begun("plain", qid, negotiating, 0)
    <2>3. /\ run \in Refreshes /\ run.phase = "quotation" /\ run.current /\ run.asked = qid
          /\ run.quotation = {} /\ run.negotiation = {}
      BY <2>2, BegunIs
    <2>4. runs' = Refreshing(runs, Place, run)
      BY <2>1
    <2> HIDE DEF run
    <2> QED
      BY <1>1, <2>2, <2>3, <2>4, NewRefresh
  <1> QED
    BY <1>2, <1>3

LEMMA FinishesStep ==
    ASSUME Runs \subseteq Nat, PageInv, NEW c \in Slots,
           \/ FinishesParsing(c) \/ FinishesReview(c) \/ FinishesPolicy(c)
           \/ FinishesStart(c) \/ FinishesOrder(c)
    PROVE  PageInv'
  <1>1. nid \in BOOLEAN
    BY DEF PageInv, WorkspaceTypes
  <1>2. CASE FinishesParsing(c)
    BY <1>1, <1>2, FinishStep DEF FinishesParsing
  <1>3. CASE FinishesReview(c)
    BY <1>1, <1>3, FinishStep DEF FinishesReview
  <1>4. CASE FinishesPolicy(c)
    BY <1>1, <1>4, FinishStep DEF FinishesPolicy
  <1>5. CASE FinishesStart(c)
    BY <1>1, <1>5, FinishStep DEF FinishesStart
  <1>6. CASE FinishesOrder(c)
    <2>1. PICK issued \in BOOLEAN : issued = (commands[c].kind = "issue-order")
      OBVIOUS
    <2>2. Finish(c, [shown EXCEPT !.order = issued], policy, preview \/ ~issued, nid, issued)
      BY <1>6, <2>1 DEF FinishesOrder
    <2> QED
      BY <1>1, <2>2, FinishStep
  <1> QED
    BY <1>2, <1>3, <1>4, <1>5, <1>6

(* A reset: what events there are say nothing of what comes.                *)
LEMMA Resets ==
    ASSUME MaxId \in Nat, StreamInv, PageInv, EraseRows, db' = {}, live' = 0,
           UNCHANGED <<made, qid, nid, applied, due, debounce, behind, runs>>,
           commands' \in [Slots -> Orders], \A x \in Slots : commands'[x].of <= made
    PROVE  PageInv'
  <1>1. \A i \in Ids : /\ rows'[i].topic = rows[i].topic
                       /\ rows'[i].state = IF i < nextId THEN "gone" ELSE rows[i].state
    <2>1. rows \in [Ids -> [topic : Topics, state : States]]
      BY DEF StreamInv, StreamTypes
    <2>2. \A i \in Ids : rows'[i] = IF i < nextId THEN [rows[i] EXCEPT !.state = "gone"] ELSE rows[i]
      BY DEF EraseRows
    <2> QED
      BY <2>1, <2>2
  <1>2. \A i \in Ids : i < nextId <=> rows[i].state # "none"
    BY DEF StreamInv, IdsInOrder
  <1>3. due \in SUBSET Ids
    BY DEF PageInv, WorkspaceTypes
  <1>4. WorkspaceTypes' /\ Numbered'
    BY DEF PageInv, WorkspaceTypes, Numbered
  <1>5. EventsSay'
    BY <1>1, <1>2 DEF PageInv, EventsSay, Says
  <1>6. Consistent(db)' /\ OneCurrent' /\ ReadIsTrue' /\ ReadsForward'
    BY DEF PageInv, Consistent, OneCurrent, ReadIsTrue, ReadsForward
  <1>7. DueIsOurs'
    BY <1>1, <1>2, <1>3 DEF PageInv, DueIsOurs
  <1>8. DueIsCovered' /\ DueIsUnderWay'
    BY <1>1, <1>3 DEF PageInv, DueIsCovered, DueIsUnderWay, Covers, Told, Fact
  <1> QED
    BY <1>4, <1>5, <1>6, <1>7, <1>8 DEF PageInv

(* A new quotation: nothing that is known or was asked is about it.         *)
LEMMA Creates ==
    ASSUME Quotations \subseteq Nat, PageInv, live = 0, made + 1 \in Quotations,
           db' = {"uploaded"}, made' = made + 1, live' = made + 1,
           UNCHANGED <<rows, qid, nid, applied, due, debounce, behind, runs>>,
           commands' \in [Slots -> Orders], \A x \in Slots : commands'[x].of <= made + 1
    PROVE  PageInv'
  <1>1. /\ made \in Nat /\ qid \in Nat /\ qid <= made
        /\ \A r \in Runs : runs[r].asked \in Nat /\ runs[r].asked <= made
    BY DEF PageInv, WorkspaceTypes, Numbered, Refreshes
  <1>2. WorkspaceTypes'
    BY <1>1 DEF PageInv, WorkspaceTypes, Facts
  <1>3. Numbered'
    BY <1>1 DEF PageInv, Numbered
  <1>4. EventsSay'
    <2>1. ASSUME NEW i \in Ids, rows[i].state # "none", Says(i)
          PROVE  Says(i)'
      BY <1>1, <2>1 DEF Says
    <2> QED
      BY <2>1 DEF PageInv, EventsSay
  <1>5. Consistent(db)' /\ OneCurrent' /\ ReadsForward'
    BY DEF PageInv, Consistent, OneCurrent, ReadsForward
  <1>6. ReadIsTrue'
    BY <1>1 DEF PageInv, ReadIsTrue
  <1>7. DueIsOurs' /\ DueIsCovered' /\ DueIsUnderWay'
    BY DEF PageInv, DueIsOurs, DueIsCovered, DueIsUnderWay, Covers, Told, Fact
  <1> QED
    BY <1>2, <1>3, <1>4, <1>5, <1>6, <1>7 DEF PageInv

LEMMA StartsNegotiation ==
    ASSUME MaxId \in Nat, StreamInv, PageInv, Topics = WorkspaceTopics, live # 0,
           AppendRow([fact |-> "started", of |-> live]), db' = db \cup {"started"},
           UNCHANGED <<live, made, qid, nid, applied, due, debounce, behind, runs>>,
           commands' \in [Slots -> Orders], \A x \in Slots : commands'[x].of <= made
    PROVE  PageInv'
  <1> DEFINE topic == [fact |-> "started", of |-> live]
  <1>1. /\ rows' = [rows EXCEPT ![nextId] = [topic |-> topic, state |-> "committed"]]
        /\ nextId <= MaxId
    BY DEF AppendRow
  <1>2. topic \in Topics /\ live \in Nat /\ live <= made
    BY DEF WorkspaceTopics, PageInv, Numbered, WorkspaceTypes
  <1>3. /\ nextId \in Ids /\ rows'[nextId].topic = topic /\ rows'[nextId].state = "committed"
        /\ \A i \in Ids \ {nextId} : rows'[i] = rows[i]
        /\ \A i \in due : i \in Ids /\ rows'[i].topic = rows[i].topic
                          /\ rows'[i].state \in {"committed", "late", "gone"}
    BY <1>1, <1>2, NewRow
  <1>4. db \subseteq db' /\ db' \in SUBSET Facts /\ Consistent(db')
    BY DEF PageInv, WorkspaceTypes, Consistent, Facts
  <1>5. EventsSay'
    <2>1. ASSUME NEW i \in Ids, i = nextId
          PROVE  Says(i)'
      BY <1>2, <1>3, <2>1 DEF Says
    <2>2. ASSUME NEW i \in Ids \ {nextId}, rows'[i].state # "none"
          PROVE  Says(i)'
      BY <1>3, <1>4, <2>2 DEF PageInv, EventsSay, Says
    <2> QED
      BY <2>1, <2>2 DEF EventsSay
  <1> QED
    BY <1>3, <1>4, <1>5, ServerLearns

(* The other commands teach the server more of the quotation, or nothing.  *)
LEMMA DoesMore ==
    ASSUME PageInv, NEW k \in Commands, k # "reset", k = "upload" => live # 0
    PROVE  db \subseteq Does(k) /\ Does(k) \in SUBSET Facts /\ Consistent(Does(k))
  <1> USE DEF Does, DoesLeaving
  <1>1. db \in SUBSET Facts /\ Consistent(db)
    BY DEF PageInv, WorkspaceTypes
  <1>2. ASSUME NEW fact \in {"selected", "resolved", "quantified", "started", "ordered"}
        PROVE  (db \cup {fact}) \in SUBSET Facts /\ Consistent(db \cup {fact})
    BY <1>1, <1>2 DEF Facts, Consistent
  <1>3. ASSUME NEW d \in SUBSET Facts, Consistent(d)
        PROVE  d \subseteq Judged(d) /\ Judged(d) \in SUBSET Facts /\ Consistent(Judged(d))
    BY <1>3 DEF Judged, Facts, Consistent
  <1>4. CASE k \in {"upload", "policy", "preview-order"}
    BY <1>1, <1>4
  <1>5. CASE k = "scenario"
    BY <1>2, <1>3, <1>5 DEF SelectScenario
  <1>6. CASE k = "match"
    BY <1>2, <1>3, <1>6 DEF ResolveMatch
  <1>7. CASE k = "commercial-review"
    BY <1>2, <1>3, <1>7 DEF ResolveQuantities
  <1>8. CASE k \in {"negotiation", "issue-order"}
    BY <1>2, <1>8
  <1> QED
    BY <1>4, <1>5, <1>6, <1>7, <1>8 DEF Commands

LEMMA HandlesStep ==
    ASSUME MaxId \in Nat, Quotations \subseteq Nat, StreamInv, PageInv,
           Topics = WorkspaceTopics, NEW c \in Slots, Handles(c)
    PROVE  PageInv'
  <1>1. PICK k \in Commands : k = commands[c].kind
    BY DEF PageInv, WorkspaceTypes, Orders
  <1>2. UNCHANGED <<qid, nid, applied, due, debounce, behind, runs>>
    BY DEF Handles, pageVars, timerVars
  <1>3. commands[c] \in Orders /\ commands[c].of <= made /\ live \in {0, made}
        /\ commands \in [Slots -> Orders] /\ made \in Nat
        /\ \A x \in Slots : commands[x].of <= made
    BY DEF PageInv, WorkspaceTypes, Numbered
  <1>4. CASE ~Accepts(c)
    <2>1. /\ commands' = [commands EXCEPT ![c].phase = "failed"]
          /\ UNCHANGED <<rows, db, live, made>>
      BY <1>4 DEF Handles, serverVars, streamVars
    <2> QED
      BY <1>2, <2>1, PhaseOnly, CommandsOnly DEF PageInv, WorkspaceTypes
  <1>5. CASE Accepts(c)
    <2>1. /\ db' = Does(k)
          /\ made' = IF k = "upload" /\ live = 0 THEN made + 1 ELSE made
          /\ live' = IF k = "reset" THEN 0
                     ELSE IF k = "upload" /\ live = 0 THEN made' ELSE live
          /\ k = "upload" /\ live = 0 => made + 1 \in Quotations
          /\ k = "reset" => EraseRows
          /\ k = "negotiation" => AppendRow([fact |-> "started", of |-> live])
          /\ k \notin {"reset", "negotiation"} => rows' = rows
      BY <1>1, <1>5 DEF Handles, streamVars
    <2>2. PICK of : of = IF k = "upload" THEN live' ELSE commands[c].of
      OBVIOUS
    <2>3. of \in Nat /\ of <= made' /\ made <= made'
      BY <1>3, <2>1, <2>2 DEF Orders
    <2> DEFINE new == [commands[c] EXCEPT !.phase = "handled", !.of = of]
    <2>4. new \in Orders /\ new.of = of
      BY <1>3, <2>3 DEF Orders
    <2>5. commands' = [commands EXCEPT ![c] = new]
      BY <1>1, <1>3, <1>5, <2>2 DEF Handles
    <2> HIDE DEF new
    <2>6. commands' \in [Slots -> Orders]
      BY <1>3, <2>4, <2>5
    <2>7. \A x \in Slots : commands'[x].of <= made'
      BY <1>3, <2>1, <2>3, <2>4, <2>5 DEF Orders
    <2>8. CASE k = "reset"
      <3>1. db' = {} /\ live' = 0 /\ made' = made
        BY <2>1, <2>8 DEF Does, DoesLeaving
      <3> QED
        BY <1>2, <2>1, <2>6, <2>7, <2>8, <3>1, Resets
    <2>9. CASE k = "upload" /\ live = 0
      <3>1. db' = {"uploaded"} /\ made' = made + 1 /\ live' = made + 1
        BY <2>1, <2>9 DEF Does, DoesLeaving
      <3> QED
        BY <1>2, <2>1, <2>6, <2>7, <2>9, <3>1, Creates
    <2>10. CASE k = "negotiation"
      <3>1. db' = db \cup {"started"} /\ live # 0 /\ live' = live /\ made' = made
        BY <1>1, <1>5, <2>1, <2>10 DEF Does, DoesLeaving, Accepts
      <3> QED
        BY <1>2, <2>1, <2>6, <2>7, <2>10, <3>1, StartsNegotiation
    <2>11. CASE k \notin {"reset", "negotiation"} /\ (k = "upload" => live # 0)
      <3>1. db \subseteq db' /\ db' \in SUBSET Facts /\ Consistent(db')
        BY <2>1, <2>11, DoesMore
      <3>2. UNCHANGED <<rows, live, made>>
        BY <2>1, <2>11
      <3>3. EventsSay'
        BY <3>1, <3>2 DEF PageInv, EventsSay, Says
      <3>4. \A i \in due : rows[i].state \in {"committed", "late", "gone"}
        BY DEF PageInv, DueIsOurs
      <3> QED
        BY <1>2, <2>6, <2>7, <3>1, <3>2, <3>3, <3>4, ServerLearns
    <2> QED
      BY <2>8, <2>9, <2>10, <2>11
  <1> QED
    BY <1>4, <1>5

------------------------------------------------------------------------------
(* Workspace: the theorems *)

LEMMA InitInv ==
    ASSUME Topics = WorkspaceTopics, Init
    PROVE  WorkspaceInv
  <1>1. [fact |-> "other", of |-> 0] \in Topics
    BY DEF WorkspaceTopics
  <1>2. StreamInv
    BY <1>1, StreamStart, WorkspaceAssumption DEF Init
  <1>3. /\ live \in {0, 1} /\ made = live /\ qid = live /\ nid = FALSE
        /\ db \in SUBSET Facts /\ Consistent(db)
        /\ applied = Nothing /\ due = {}
    BY WorkspaceAssumption DEF Init, Consistent
  <1> live \in Nat /\ made \in Nat /\ qid \in Nat
    BY <1>3
  <1>4. /\ commands = [c \in Slots |-> IdleCommand]
        /\ IdleCommand \in Orders /\ IdleCommand.of = 0
    BY DEF Init, IdleCommand, Orders, Commands
  <1> DEFINE first == Begun("plain", qid, FALSE, 0)
  <1>5. /\ first \in Refreshes /\ first.phase = "quotation" /\ first.asked = qid
        /\ first.quotation = {} /\ first.negotiation = {}
    BY DEF Begun, IdleRun, Refreshes
  <1>6. PICK run \in Refreshes :
            /\ runs = [[r \in Runs |-> IdleRun] EXCEPT ![1] = run]
            /\ run.phase = "quotation" /\ run.asked = qid
            /\ run.quotation = {} /\ run.negotiation = {}
    BY <1>5 DEF Init
  <1>7. /\ runs \in [Runs -> Refreshes]
        /\ \A r \in Runs : runs[r] = IF r = 1 THEN run ELSE IdleRun
    BY <1>6, IdleIs
  <1>8. WorkspaceTypes
    BY <1>3, <1>4, <1>7 DEF WorkspaceTypes, Nothing, Tellings
  <1>9. Numbered
    BY <1>3, <1>4, <1>6, <1>7, IdleIs, WorkspaceAssumption DEF Numbered
  <1>10. EventsSay
    BY DEF Init, StreamInit, EventsSay
  <1>11. OneCurrent /\ ReadIsTrue /\ ReadsForward
    BY <1>3, <1>6, <1>7, IdleIs DEF OneCurrent, ReadIsTrue, ReadsForward, Nothing
  <1>12. DueIsOurs /\ DueIsCovered /\ DueIsUnderWay
    BY <1>3 DEF DueIsOurs, DueIsCovered, DueIsUnderWay
  <1> QED
    BY <1>2, <1>3, <1>8, <1>9, <1>10, <1>11, <1>12 DEF WorkspaceInv, PageInv

(* Of the page's steps and the server's, each moves the stream as its own   *)
(* module has it, or not at all.                                           *)
LEMMA NextMoves ==
    ASSUME Topics = WorkspaceTopics, PageInv, [Next]_vars
    PROVE  StreamMoves
  <1>1. \A fact \in {"parsed", "offered", "decided", "started"} :
            live # 0 => [fact |-> fact, of |-> live] \in Topics
    BY DEF WorkspaceTopics, PageInv, Numbered
  <1>2. [fact |-> "other", of |-> 0] \in Topics
    BY DEF WorkspaceTopics
  <1>3. CASE Serves
    <2>1. ASSUME NEW f \in {"parsed", "offered", "decided"}, Writes(f) PROVE StreamMoves
      BY <1>1, <2>1 DEF Writes, StreamMoves
    <2>2. CASE WritesElsewhere
      BY <1>2, <2>2 DEF WritesElsewhere, StreamMoves
    <2>3. ASSUME NEW i \in Ids, Commits(i) PROVE StreamMoves
      BY <2>3 DEF Commits, StreamMoves
    <2>4. CASE Matches
      BY <2>4 DEF Matches, StreamMoves
    <2> QED
      BY <1>3, <2>1, <2>2, <2>3, <2>4 DEF Serves
  <1>4. CASE Follows
    BY <1>4 DEF Follows, Opens, Polls, Breaks, Receives, Debounced, MarksStale, StreamMoves
  <1>5. CASE Loads
    BY <1>5 DEF Loads, ReadsQuotation, ReadsNegotiation, RequestFails, Overtaken, FailsRefresh,
                Answered, Shows, Retries, Asks, StreamMoves
  <1>6. CASE Commanded
    <2>1. ASSUME NEW c \in Slots, Handles(c) PROVE StreamMoves
      <3>1. CASE Accepts(c) /\ commands[c].kind = "negotiation"
        <4>1. live # 0 /\ AppendRow([fact |-> "started", of |-> live])
          BY <2>1, <3>1 DEF Handles, Accepts
        <4> QED
          BY <1>1, <4>1 DEF StreamMoves
      <3>2. CASE Accepts(c) /\ commands[c].kind = "reset"
        BY <2>1, <3>2 DEF Handles, StreamMoves
      <3>3. CASE Accepts(c) /\ commands[c].kind \notin {"reset", "negotiation"}
        BY <2>1, <3>3 DEF Handles, StreamMoves
      <3>4. CASE ~Accepts(c)
        BY <2>1, <3>4 DEF Handles, StreamMoves
      <3> QED
        BY <3>1, <3>2, <3>3, <3>4
    <2>2. ASSUME NEW c \in Slots, FinishesParsing(c) \/ FinishesReview(c) \/ FinishesPolicy(c)
                                  \/ FinishesStart(c) \/ FinishesOrder(c)
          PROVE  StreamMoves
      BY <2>2 DEF FinishesParsing, FinishesReview, FinishesPolicy, FinishesStart, FinishesOrder,
                  Finish, StreamMoves
    <2>3. CASE Confirms \/ StartsAgain
      BY <2>3 DEF Confirms, StartsAgain, Clears, StreamMoves
    <2>4. ASSUME NEW c \in Slots, \/ \E k \in Commands : Gives(c, k)
                                  \/ Loses(c) \/ ReadsBack(c) \/ FailsCommand(c)
                                  \/ FinishesReset(c) \/ FinishesUpload(c)
          PROVE  StreamMoves
      BY <2>4 DEF Gives, Loses, ReadsBack, FailsCommand, FinishesReset, FinishesUpload, Clears,
                  StreamMoves
    <2> QED
      BY <1>6, <2>1, <2>2, <2>3, <2>4 DEF Commanded
  <1>7. CASE UNCHANGED vars
    BY <1>7 DEF vars, StreamMoves
  <1> QED
    BY <1>3, <1>4, <1>5, <1>6, <1>7 DEF Next

LEMMA NextPage ==
    ASSUME Topics = WorkspaceTopics, StreamInv, PageInv, [Next]_vars
    PROVE  PageInv'
  <1> USE WorkspaceAssumption
  <1>1. CASE Serves
    BY <1>1, WritesStep, WritesElsewhereStep, CommitsStep, MatchesStep DEF Serves
  <1>2. CASE Follows
    <2>1. CASE Opens \/ Polls
      BY <2>1, Stands DEF Opens, Polls, Connect, ConnectAfter, Poll, StreamOnly, PageStands,
                          serverVars, pageVars, timerVars
    <2> QED
      BY <1>2, <2>1, BreaksStep, ReceivesStep, DebouncedStep, MarksStaleStep DEF Follows
  <1>3. CASE Loads
    BY <1>3, ReadsQuotationStep, ReadsNegotiationStep, RequestFailsStep, OvertakenStep,
       FailsRefreshStep, AnsweredStep, RetriesStep, AsksStep DEF Loads
  <1>4. CASE Commanded
    BY <1>4, ConfirmsStep, StartsAgainStep, GivesStep, HandlesStep, LosesStep, ReadsBackStep,
       FailsCommandStep, FinishesResetStep, FinishesUploadStep, FinishesStep DEF Commanded
  <1>5. CASE UNCHANGED vars
    BY <1>5, Stands DEF vars, PageStands, streamVars, serverVars, pageVars, timerVars
  <1> QED
    BY <1>1, <1>2, <1>3, <1>4, <1>5 DEF Next

(* The inductive invariant.                                                *)
THEOREM Invariant ==
    ASSUME Topics = WorkspaceTopics
    PROVE  Spec => []WorkspaceInv
  <1>1. Init => WorkspaceInv
    BY InitInv
  <1>2. WorkspaceInv /\ [Next]_vars => WorkspaceInv'
    BY NextMoves, StreamKeeps, NextPage, WorkspaceAssumption DEF WorkspaceInv
  <1> QED
    BY <1>1, <1>2, PTL DEF Spec

(* The stream passes over no event that was visible in time, through any polls, *)
(* drops and reconnects (routes/events.ts, lib/api/events.ts).             *)
THEOREM StreamPassesOverNone ==
    ASSUME Topics = WorkspaceTopics
    PROVE  Spec => []NonePassedOver
  <1>1. WorkspaceInv => NonePassedOver
    BY DEF WorkspaceInv, StreamInv
  <1> QED
    BY <1>1, Invariant, PTL

(* A page at rest has been told of every event of its workspace that it    *)
(* received, unless a refresh failed (useWorkspaceProjection.ts).          *)
THEOREM ReceivedIsAlwaysTold ==
    ASSUME Topics = WorkspaceTopics
    PROVE  Spec => []ReceivedIsTold
  <1>1. WorkspaceInv => ReceivedIsTold
    BY DEF WorkspaceInv, PageInv, DueIsUnderWay, OneCurrent, ReceivedIsTold, Quiet, Free,
           Told, Fact
  <1> QED
    BY <1>1, Invariant, PTL

Forward ==
    \/ applied' \in {applied, Nothing}
    \/ /\ applied.quotation \subseteq applied'.quotation
       /\ applied.negotiation \subseteq applied'.negotiation

LEMMA NextForward ==
    ASSUME PageInv, Next
    PROVE  Forward
  <1>1. CASE Serves
    BY <1>1 DEF Serves, Writes, WritesElsewhere, Commits, Matches, pageVars, Forward
  <1>2. CASE Follows
    BY <1>2 DEF Follows, Opens, Polls, Breaks, Receives, Debounced, MarksStale, StreamOnly,
                pageVars, Forward
  <1>3. CASE Loads
    <2>1. ASSUME NEW r \in Runs, Answered(r) PROVE Forward
      <3>1. /\ runs[r].current /\ runs[r].phase = "answered"
            /\ qid = 0 => applied' = Nothing
            /\ qid # 0 => /\ applied'.quotation = runs[r].quotation
                          /\ applied'.negotiation = runs[r].negotiation
        BY <2>1, AnswerIs
      <3> QED
        BY <3>1 DEF PageInv, ReadsForward, Forward
    <2>2. ASSUME NEW r \in Runs, \/ ReadsQuotation(r) \/ ReadsNegotiation(r) \/ RequestFails(r)
                                 \/ Overtaken(r) \/ FailsRefresh(r) \/ Retries(r)
          PROVE  Forward
      BY <2>2 DEF ReadsQuotation, ReadsNegotiation, RequestFails, Overtaken, FailsRefresh,
                  Retries, pageVars, Forward
    <2>3. CASE Asks
      BY <2>3 DEF Asks, pageVars, Forward
    <2> QED
      BY <1>3, <2>1, <2>2, <2>3 DEF Loads
  <1>4. CASE Commanded
    <2>1. ASSUME NEW c \in Slots, FinishesParsing(c) \/ FinishesReview(c) \/ FinishesPolicy(c)
                                  \/ FinishesStart(c) \/ FinishesOrder(c)
          PROVE  Forward
      BY <2>1 DEF FinishesParsing, FinishesReview, FinishesPolicy, FinishesStart, FinishesOrder,
                  Finish, Forward
    <2>2. CASE Confirms \/ StartsAgain
      BY <2>2 DEF Confirms, StartsAgain, Clears, Forward
    <2>3. ASSUME NEW c \in Slots, \/ \E k \in Commands : Gives(c, k)
                                  \/ Handles(c) \/ Loses(c) \/ ReadsBack(c) \/ FailsCommand(c)
                                  \/ FinishesReset(c) \/ FinishesUpload(c)
          PROVE  Forward
      BY <2>3 DEF Gives, Handles, Loses, ReadsBack, FailsCommand, FinishesReset, FinishesUpload,
                  Clears, pageVars, Forward
    <2> QED
      BY <1>4, <2>1, <2>2, <2>3 DEF Commanded
  <1> QED
    BY <1>1, <1>2, <1>3, <1>4 DEF Next

(* No refresh takes the page back, however refreshes, commands and timers  *)
(* overtake each other (useWorkspaceProjection.ts).                        *)
THEOREM NeverTakenBack ==
    ASSUME Topics = WorkspaceTopics
    PROVE  Spec => RefreshesForward
  <1>1. WorkspaceInv /\ [Next]_vars =>
            [\/ applied' \in {applied, Nothing}
             \/ /\ applied.quotation \subseteq applied'.quotation
                /\ applied.negotiation \subseteq applied'.negotiation]_vars
    BY NextForward DEF WorkspaceInv, Forward
  <1> QED
    BY <1>1, Invariant, PTL DEF Spec, RefreshesForward
=============================================================================
