--------------------------- MODULE RouterLockProofs ---------------------------
(***************************************************************************)
(* Under its lock the router's operations, written and read one field      *)
(* after another, are single steps, for any number of pipelines and of     *)
(* callers that change the table.                                          *)
(***************************************************************************)
EXTENDS RouterLock, FiniteSetTheorems, TLAPS

Old(c) == {re \in committed.routed : re.endpoint = c.endpoint}

(* What a change comes to, field by field. *)
NewTable(c) ==
    IF c.op = "add"
    THEN committed.routed \cup {[endpoint |-> c.endpoint, exporter |-> c.exporter,
                                 exporterType |-> c.exporterType, properties |-> c.properties]}
    ELSE committed.routed \ Old(c)
NewCount(c) ==
    IF c.op = "add" THEN committed.count + 1 ELSE committed.count - Cardinality(Old(c))
NewByType(c) ==
    [t \in ExporterType |->
        IF c.op = "add" THEN committed.byType[t] + (IF t = c.exporterType THEN 1 ELSE 0)
        ELSE committed.byType[t]
               - Cardinality(Old(c) \cap {re \in committed.routed : re.exporterType = t})]
NewGauge(c) ==
    [t \in ExporterType |->
        IF t \in (IF c.op = "add" THEN {c.exporterType} ELSE {}) \/ committed.exportersCount[t] # NoSeries
        THEN NewByType(c)[t] ELSE NoSeries]

(* Nobody is inside while a writer writes; who waits has something to do.  *)
PlaceInv ==
    /\ at \in [Router \cup Writer -> {"away", "blocked", "gated", "matching", "checking", "leaving",
                                      "waiting", "announced", "writing"}]
    /\ \A r \in Router : at[r] \notin {"waiting", "announced", "writing"}
    /\ \A w \in Writer : /\ at[w] \in {"away", "waiting", "announced", "writing"}
                         /\ at[w] \in {"announced", "writing"} <=> announced = w
    /\ \A w \in Writer : at[w] \in {"waiting", "announced", "writing"} =>
                            change[w] \in Additions \cup Removals
    /\ announced \in Writer \cup {Nobody}
    /\ change \in [Writer -> Additions \cup Removals \cup {NoChange}]
    /\ \A w \in Writer, r \in Router :
          at[w] = "writing" => at[r] \notin {"gated", "matching", "checking", "leaving"}
    /\ todo = [w \in Writer |-> todo[w]]

(* What is committed is a table of the router's. *)
TableInv ==
    /\ IsFiniteSet(committed.routed)
    /\ committed.count \in Int
    /\ committed.byType \in [ExporterType -> Int]

(* How far a writer is, and what it has written.                           *)
WrittenBy(w) ==
    LET c == change[w] IN
    \/ /\ todo[w] = WriteOrder(c.op) /\ routed = committed.routed /\ count = committed.count
       /\ byType = committed.byType /\ exportersCount = committed.exportersCount
    \/ /\ todo[w] = <<"count", "byType", "exportersCount">> /\ c.op = "add"
       /\ routed = NewTable(c) /\ count = committed.count
       /\ byType = committed.byType /\ exportersCount = committed.exportersCount
    \/ /\ todo[w] = <<"byType", "exportersCount">> /\ c.op = "add"
       /\ routed = NewTable(c) /\ count = NewCount(c)
       /\ byType = committed.byType /\ exportersCount = committed.exportersCount
    \/ /\ todo[w] = <<"count", "routed", "exportersCount">> /\ c.op = "remove"
       /\ routed = committed.routed /\ count = committed.count
       /\ byType = NewByType(c) /\ exportersCount = committed.exportersCount
    \/ /\ todo[w] = <<"routed", "exportersCount">> /\ c.op = "remove"
       /\ routed = committed.routed /\ count = NewCount(c)
       /\ byType = NewByType(c) /\ exportersCount = committed.exportersCount
    \/ /\ todo[w] = <<"exportersCount">>
       /\ routed = NewTable(c) /\ count = NewCount(c)
       /\ byType = NewByType(c) /\ exportersCount = committed.exportersCount
    \/ /\ todo[w] = <<>>
       /\ routed = NewTable(c) /\ count = NewCount(c)
       /\ byType = NewByType(c) /\ exportersCount = NewGauge(c)

WriteInv ==
    /\ \A w \in Writer : at[w] = "writing" => WrittenBy(w)
    /\ (\A w \in Writer : at[w] # "writing") => committed = Fields

(* What is to be added is not there, nor does another add it.              *)
AdditionInv ==
    /\ \A w \in Writer : change[w].op = "add" =>
          IF at[w] = "writing" THEN \A re \in committed.routed : re.exporter # change[w].exporter
          ELSE Unregistered(change[w].exporter)
    /\ \A v, w \in Writer : v # w /\ change[v].op = "add" /\ change[w].op = "add" =>
          change[v].exporter # change[w].exporter

(* A Route that has passed the gate has something to look for; one that    *)
(* has looked has its answer.                                              *)
AnswerInv ==
    /\ attrs = [r \in Router |-> attrs[r]] /\ answer = [r \in Router |-> answer[r]]
    /\ \A r \in Router :
          /\ at[r] \in {"away", "blocked", "gated", "matching"} => answer[r] = {}
          /\ at[r] = "matching" => committed.count # 0
    /\ RouteIsAtomic

LockInv == PlaceInv /\ TableInv /\ WriteInv /\ AdditionInv /\ AnswerInv
------------------------------------------------------------------------------
(* The router that is committed answers from its own table. *)
LEMMA CommittedRoute ==
    ASSUME NEW a
    PROVE  Atomic!Route(a) =
              IF committed.count = 0 THEN {}
              ELSE {re.exporter : re \in {x \in committed.routed : MatchesAllRules(a, x.properties)}}
  <1>1. \A p : Atomic!MatchesAllRules(a, p) <=> MatchesAllRules(a, p)
    BY DEF Atomic!MatchesAllRules, MatchesAllRules
  <1> QED
    BY <1>1 DEF Atomic!Route

(* A writer is alone, and nothing else is committed.                       *)
LEMMA Alone ==
    ASSUME PlaceInv, NEW w \in Writer, at[w] = "writing"
    PROVE  \A v \in Writer : at[v] = "writing" => v = w
  BY LockSentinel DEF PlaceInv

(* What is written depends on nothing but the writer and the fields.       *)
LEMMA WrittenStays ==
    ASSUME NEW w \in Writer, WrittenBy(w), change'[w] = change[w], todo'[w] = todo[w],
           UNCHANGED <<committed, routed, count, byType, exportersCount>>
    PROVE  WrittenBy(w)'
  <1>1. /\ NewTable(change[w])' = NewTable(change[w])
        /\ NewCount(change[w])' = NewCount(change[w])
    BY DEF NewTable, NewCount, Old
  <1>2. NewByType(change[w])' = NewByType(change[w])
    BY DEF NewByType, Old
  <1>3. NewGauge(change[w])' = NewGauge(change[w])
    BY <1>2 DEF NewGauge
  <1> QED
    BY <1>1, <1>2, <1>3 DEF WrittenBy, WriteOrder

LEMMA LockInitially == LockInit => LockInv
  <1> SUFFICES ASSUME LockInit PROVE LockInv
    OBVIOUS
  <1>1. PlaceInv
    BY LockSentinel DEF LockInit, PlaceInv
  <1>2. committed = Fields /\ routed = {} /\ count = 0 /\ byType = [t \in ExporterType |-> 0]
    BY DEF LockInit, RouterInit
  <1>3. TableInv
    BY <1>2, FS_EmptySet DEF TableInv, Fields
  <1>4. WriteInv
    BY <1>2 DEF LockInit, WriteInv
  <1>5. AdditionInv
    BY DEF LockInit, AdditionInv, NoChange
  <1>6. AnswerInv
    BY DEF LockInit, AnswerInv, RouteIsAtomic
  <1> QED
    BY <1>1, <1>3, <1>4, <1>5, <1>6 DEF LockInv

(* A call to change the table waits.                                       *)
LEMMA CallChangeKeepsInv ==
    ASSUME LockInv, NEW w \in Writer, NEW c \in Additions \cup Removals, CallChange(w, c)
    PROVE  LockInv'
  <1>1. /\ at[w] = "away" /\ at' = [at EXCEPT ![w] = "waiting"] /\ change' = [change EXCEPT ![w] = c]
        /\ UNCHANGED <<announced, todo, attrs, answer, committed, routed, count, byType, exportersCount>>
    BY DEF CallChange, routerVars
  <1>2. PlaceInv'
    BY <1>1, LockSentinel DEF LockInv, PlaceInv
  <1>3. TableInv'
    BY <1>1 DEF LockInv, TableInv
  <1>4. WriteInv'
    <2>1. \A v \in Writer : at'[v] = "writing" => v # w /\ at[v] = "writing" /\ change'[v] = change[v]
      BY <1>1 DEF LockInv, PlaceInv
    <2>2. \A v \in Writer : at[v] = "writing" => at'[v] = "writing"
      BY <1>1 DEF LockInv, PlaceInv
    <2> QED
      BY <1>1, <2>1, <2>2, WrittenStays DEF LockInv, WriteInv, Fields
  <1>5. AdditionInv'
    <2>1. change'[w] = c /\ at'[w] = "waiting"
          /\ \A v \in Writer \ {w} : change'[v] = change[v] /\ at'[v] = at[v]
      BY <1>1 DEF LockInv, PlaceInv
    <2>2. c.op = "add" => /\ Unregistered(c.exporter)
                          /\ \A v \in Writer : change[v].op = "add" => change[v].exporter # c.exporter
      BY DEF CallChange
    <2> QED
      BY <1>1, <2>1, <2>2 DEF LockInv, AdditionInv, Unregistered
  <1>6. AnswerInv'
    BY <1>1 DEF LockInv, PlaceInv, AnswerInv, RouteIsAtomic, Atomic!Route, Atomic!MatchesAllRules
  <1> QED
    BY <1>2, <1>3, <1>4, <1>5, <1>6 DEF LockInv

(* One writer is announced.                                                *)
LEMMA AnnounceKeepsInv ==
    ASSUME LockInv, NEW w \in Writer, Announce(w)
    PROVE  LockInv'
  <1>1. /\ at[w] = "waiting" /\ announced = Nobody /\ announced' = w
        /\ at' = [at EXCEPT ![w] = "announced"]
        /\ UNCHANGED <<change, todo, attrs, answer, committed, routed, count, byType, exportersCount>>
    BY DEF Announce, NoOtherWriter, routerVars
  <1>2. PlaceInv'
    BY <1>1, LockSentinel DEF LockInv, PlaceInv
  <1>3. TableInv'
    BY <1>1 DEF LockInv, TableInv
  <1>4. \A v \in Writer : at'[v] = "writing" <=> at[v] = "writing"
    BY <1>1 DEF LockInv, PlaceInv
  <1>5. WriteInv'
    BY <1>1, <1>4, WrittenStays DEF LockInv, WriteInv, Fields
  <1>6. AdditionInv'
    BY <1>1, <1>4 DEF LockInv, AdditionInv, Unregistered
  <1>7. AnswerInv'
    BY <1>1 DEF LockInv, PlaceInv, AnswerInv, RouteIsAtomic, Atomic!Route, Atomic!MatchesAllRules
  <1> QED
    BY <1>2, <1>3, <1>5, <1>6, <1>7 DEF LockInv

(* The readers have left: it is alone with what is committed.              *)
LEMMA AcquireKeepsInv ==
    ASSUME LockInv, NEW w \in Writer, Acquire(w)
    PROVE  LockInv'
  <1>1. /\ at[w] = "announced" /\ at' = [at EXCEPT ![w] = "writing"]
        /\ todo' = [todo EXCEPT ![w] = WriteOrder(change[w].op)]
        /\ \A r \in Router : at[r] \notin {"gated", "matching", "checking", "leaving"}
        /\ UNCHANGED <<announced, change, attrs, answer, committed, routed, count, byType, exportersCount>>
    BY DEF Acquire, ReadersLeft, Inside, routerVars
  <1>2. announced = w /\ \A v \in Writer : at[v] # "writing"
    BY <1>1 DEF LockInv, PlaceInv
  <1>3. PlaceInv'
    BY <1>1, <1>2, LockSentinel DEF LockInv, PlaceInv
  <1>4. TableInv'
    BY <1>1 DEF LockInv, TableInv
  <1>5. committed = Fields
    BY <1>2 DEF LockInv, WriteInv
  <1>6. WriteInv'
    <2>1. at'[w] = "writing" /\ todo'[w] = WriteOrder(change[w].op)
          /\ \A v \in Writer : at'[v] = "writing" => v = w
      BY <1>1, <1>2 DEF LockInv, PlaceInv
    <2>2. WrittenBy(w)'
      BY <1>1, <1>5, <2>1 DEF WrittenBy, Fields, WriteOrder
    <2> QED
      BY <2>1, <2>2 DEF WriteInv
  <1>7. AdditionInv'
    <2>1. \A v \in Writer : at'[v] = IF v = w THEN "writing" ELSE at[v]
      BY <1>1 DEF LockInv, PlaceInv
    <2> QED
      BY <1>1, <1>2, <1>5, <2>1 DEF LockInv, AdditionInv, Unregistered, Fields
  <1>8. AnswerInv'
    BY <1>1 DEF LockInv, PlaceInv, AnswerInv, RouteIsAtomic, Atomic!Route, Atomic!MatchesAllRules
  <1> QED
    BY <1>3, <1>4, <1>6, <1>7, <1>8 DEF LockInv

(* One field is written, as the change has it.                             *)
LEMMA WriteAdvances ==
    ASSUME LockInv, NEW w \in Writer, Write(w)
    PROVE  WrittenBy(w)' /\ (routed' = routed \/ routed' = NewTable(change[w]))
  <1> DEFINE c == change[w]
             field == Head(todo[w])
  <1>1. /\ at[w] = "writing" /\ todo[w] # <<>> /\ todo' = [todo EXCEPT ![w] = Tail(todo[w])]
        /\ UNCHANGED <<at, announced, change, attrs, answer, committed>>
        /\ \/ field = "routed" /\ WriteTable(c) /\ UNCHANGED <<count, byType, exportersCount>>
           \/ field = "count" /\ WriteCount(c) /\ UNCHANGED <<routed, byType, exportersCount>>
           \/ field = "byType" /\ WriteByType(c) /\ UNCHANGED <<routed, count, exportersCount>>
           \/ field = "exportersCount" /\ WriteGauge(c) /\ UNCHANGED <<routed, count>>
    BY DEF Write
  <1>2. WrittenBy(w) /\ c \in Additions \cup Removals
    BY <1>1 DEF LockInv, WriteInv, PlaceInv
  <1>3. todo'[w] = Tail(todo[w]) /\ change'[w] = c
    BY <1>1 DEF LockInv, PlaceInv
  <1>4. c.op \in {"add", "remove"}
    BY <1>2 DEF Additions, Removals
  <1>5. /\ NewTable(c)' = NewTable(c) /\ NewCount(c)' = NewCount(c)
    BY <1>1 DEF NewTable, NewCount, Old
  <1>6. NewByType(c)' = NewByType(c)
    BY <1>1 DEF NewByType, Old
  <1>7. NewGauge(c)' = NewGauge(c)
    BY <1>1, <1>6 DEF NewGauge
  <1>8. routed = committed.routed /\ WriteTable(c) => routed' = NewTable(c)
    BY <1>4 DEF WriteTable, NewTable, Old, RoutedTo
  <1>9. c.op = "add" /\ count = committed.count /\ WriteCount(c) => count' = NewCount(c)
    BY DEF WriteCount, NewCount
  <1>10. c.op = "remove" /\ routed = committed.routed /\ count = committed.count /\ WriteCount(c)
           => count' = NewCount(c)
    BY DEF WriteCount, NewCount, Old, NumberRemoved, RoutedTo
  <1>11. c.op = "add" /\ byType = committed.byType /\ WriteByType(c) => byType' = NewByType(c)
    BY DEF WriteByType, NewByType
  <1>12. c.op = "remove" /\ routed = committed.routed /\ byType = committed.byType /\ WriteByType(c)
           => byType' = NewByType(c)
    BY DEF WriteByType, NewByType, Old, RoutedTo, OfType
  <1>13. exportersCount = committed.exportersCount /\ byType = NewByType(c) /\ WriteGauge(c)
           => exportersCount' = NewGauge(c) /\ byType' = byType
    BY DEF WriteGauge, RecordCount, NewGauge
  <1> HIDE DEF c
  <1>14. CASE /\ todo[w] = WriteOrder(c.op) /\ routed = committed.routed /\ count = committed.count
              /\ byType = committed.byType /\ exportersCount = committed.exportersCount
    <2>1. CASE c.op = "add"
      <3>1. todo[w] = <<"routed", "count", "byType", "exportersCount">>
        BY <1>14, <2>1 DEF WriteOrder
      <3>2. field = "routed" /\ todo'[w] = <<"count", "byType", "exportersCount">>
        BY <1>3, <3>1
      <3> QED
        BY <1>1, <1>3, <1>5, <1>8, <1>14, <2>1, <3>2 DEF WrittenBy, c
    <2>2. CASE c.op = "remove"
      <3>1. todo[w] = <<"byType", "count", "routed", "exportersCount">>
        BY <1>14, <2>2 DEF WriteOrder
      <3>2. field = "byType" /\ todo'[w] = <<"count", "routed", "exportersCount">>
        BY <1>3, <3>1
      <3> QED
        BY <1>1, <1>3, <1>6, <1>12, <1>14, <2>2, <3>2 DEF WrittenBy, c
    <2> QED
      BY <1>4, <2>1, <2>2
  <1>15. CASE /\ todo[w] = <<"count", "byType", "exportersCount">> /\ c.op = "add"
              /\ routed = NewTable(c) /\ count = committed.count
              /\ byType = committed.byType /\ exportersCount = committed.exportersCount
    <2>1. field = "count" /\ todo'[w] = <<"byType", "exportersCount">>
      BY <1>3, <1>15
    <2> QED
      BY <1>1, <1>3, <1>5, <1>9, <1>15, <2>1 DEF WrittenBy, c
  <1>16. CASE /\ todo[w] = <<"byType", "exportersCount">> /\ c.op = "add"
              /\ routed = NewTable(c) /\ count = NewCount(c)
              /\ byType = committed.byType /\ exportersCount = committed.exportersCount
    <2>1. field = "byType" /\ todo'[w] = <<"exportersCount">>
      BY <1>3, <1>16
    <2> QED
      BY <1>1, <1>3, <1>5, <1>6, <1>11, <1>16, <2>1 DEF WrittenBy, c
  <1>17. CASE /\ todo[w] = <<"count", "routed", "exportersCount">> /\ c.op = "remove"
              /\ routed = committed.routed /\ count = committed.count
              /\ byType = NewByType(c) /\ exportersCount = committed.exportersCount
    <2>1. field = "count" /\ todo'[w] = <<"routed", "exportersCount">>
      BY <1>3, <1>17
    <2> QED
      BY <1>1, <1>3, <1>5, <1>6, <1>10, <1>17, <2>1 DEF WrittenBy, c
  <1>18. CASE /\ todo[w] = <<"routed", "exportersCount">> /\ c.op = "remove"
              /\ routed = committed.routed /\ count = NewCount(c)
              /\ byType = NewByType(c) /\ exportersCount = committed.exportersCount
    <2>1. field = "routed" /\ todo'[w] = <<"exportersCount">>
      BY <1>3, <1>18
    <2> QED
      BY <1>1, <1>3, <1>5, <1>6, <1>8, <1>18, <2>1 DEF WrittenBy, c
  <1>19. CASE /\ todo[w] = <<"exportersCount">>
              /\ routed = NewTable(c) /\ count = NewCount(c)
              /\ byType = NewByType(c) /\ exportersCount = committed.exportersCount
    <2>1. field = "exportersCount" /\ todo'[w] = <<>>
      BY <1>3, <1>19
    <2> QED
      BY <1>1, <1>3, <1>5, <1>6, <1>7, <1>13, <1>19, <2>1 DEF WrittenBy, c
  <1>20. todo[w] # <<>>
    BY <1>1
  <1> QED
    BY <1>2, <1>14, <1>15, <1>16, <1>17, <1>18, <1>19, <1>20 DEF WrittenBy, c

LEMMA WriteKeepsInv ==
    ASSUME LockInv, NEW w \in Writer, Write(w)
    PROVE  LockInv'
  <1>1. /\ at[w] = "writing" /\ todo' = [todo EXCEPT ![w] = Tail(todo[w])]
        /\ UNCHANGED <<at, announced, change, attrs, answer, committed>>
    BY DEF Write
  <1>2. WrittenBy(w)' /\ (routed' = routed \/ routed' = NewTable(change[w]))
    BY WriteAdvances
  <1>3. \A v \in Writer : at[v] = "writing" => v = w
    BY <1>1, Alone DEF LockInv
  <1>4. PlaceInv'
    BY <1>1 DEF LockInv, PlaceInv
  <1>5. TableInv'
    BY <1>1 DEF LockInv, TableInv
  <1>6. WriteInv'
    BY <1>1, <1>2, <1>3 DEF WriteInv
  <1>7. AdditionInv'
    <2>1. ASSUME NEW v \in Writer, change[v].op = "add", at[v] # "writing"
          PROVE  \A re \in routed' : re.exporter # change[v].exporter
      <3>1. \A re \in routed : re.exporter # change[v].exporter
        BY <2>1 DEF LockInv, AdditionInv, Unregistered
      <3>2. v # w
        BY <1>1, <2>1
      <3>3. change[w].op = "add" => change[w].exporter # change[v].exporter
        BY <2>1, <3>2 DEF LockInv, AdditionInv
      <3>4. IF change[w].op = "add" THEN committed.routed \subseteq routed
            ELSE committed.routed \ Old(change[w]) \subseteq routed
        BY <1>1, <1>3 DEF LockInv, WriteInv, WrittenBy, NewTable
      <3>5. CASE routed' = routed
        BY <3>1, <3>5
      <3>6. CASE routed' = NewTable(change[w])
        BY <3>1, <3>3, <3>4, <3>6 DEF NewTable
      <3> QED
        BY <1>2, <3>5, <3>6
    <2> QED
      BY <1>1, <2>1 DEF LockInv, AdditionInv, Unregistered
  <1>8. AnswerInv'
    BY <1>1 DEF LockInv, AnswerInv, RouteIsAtomic, Atomic!Route, Atomic!MatchesAllRules
  <1> QED
    BY <1>4, <1>5, <1>6, <1>7, <1>8 DEF LockInv

(* What is committed with the lock's release is one operation, of one that *)
(* was not registered if it adds.                                          *)
LEMMA UnlockCommits ==
    ASSUME LockInv, NEW w \in Writer, Unlock(w)
    PROVE  Atomic!RouterNext /\ TableInv'
  <1> DEFINE c == change[w]
  <1>1. at[w] = "writing" /\ todo[w] = <<>> /\ committed' = Fields
    BY DEF Unlock
  <1>2. /\ routed = NewTable(c) /\ count = NewCount(c)
        /\ byType = NewByType(c) /\ exportersCount = NewGauge(c)
    BY <1>1 DEF LockInv, WriteInv, WrittenBy, WriteOrder
  <1>3. c \in Additions \cup Removals
    BY <1>1 DEF LockInv, PlaceInv
  <1>4. /\ committed'.routed = NewTable(c) /\ committed'.count = NewCount(c)
        /\ committed'.byType = NewByType(c) /\ committed'.exportersCount = NewGauge(c)
    BY <1>1, <1>2 DEF Fields
  <1>5. /\ IsFiniteSet(committed.routed) /\ committed.count \in Int
        /\ committed.byType \in [ExporterType -> Int]
    BY DEF LockInv, TableInv
  <1>6. \A S : Atomic!Cardinality(S) = Cardinality(S)
    BY DEF Atomic!Cardinality, Cardinality
  <1>7. CASE c \in Additions
    <2>1. /\ c.op = "add" /\ c.endpoint \in EndpointID /\ c.exporter \in Exporter
          /\ c.properties \in Properties /\ c.exporterType \in ExporterType
      BY <1>7 DEF Additions
    <2>2. Atomic!Unregistered(c.exporter)
      BY <1>1, <2>1 DEF LockInv, AdditionInv, Atomic!Unregistered
    <2>3. committed'.byType = [committed.byType EXCEPT ![c.exporterType] = @ + 1]
      BY <1>4, <1>5, <2>1 DEF NewByType
    <2>4. Atomic!AddExporter(c.endpoint, c.exporter, c.properties, c.exporterType)
      BY <1>4, <2>1, <2>3
      DEF Atomic!AddExporter, Atomic!RecordCount, Atomic!NoSeries, NoSeries, NewTable, NewCount, NewGauge
    <2>5. Atomic!RouterNext
      BY <2>1, <2>2, <2>4 DEF Atomic!RouterNext, Atomic!Properties, Atomic!RoutedExporter, Properties
    <2>6. IsFiniteSet(committed'.routed)
      <3> DEFINE added == [endpoint |-> c.endpoint, exporter |-> c.exporter,
                           exporterType |-> c.exporterType, properties |-> c.properties]
      <3>1. NewTable(c) = committed.routed \cup {added}
        BY <2>1 DEF NewTable
      <3> HIDE DEF added
      <3>2. IsFiniteSet(committed.routed \cup {added})
        BY <1>5, FS_AddElement
      <3> QED
        BY <1>4, <3>1, <3>2
    <2>7. committed'.count \in Int /\ committed'.byType \in [ExporterType -> Int]
      BY <1>4, <1>5, <2>1 DEF NewCount, NewByType
    <2> QED
      BY <2>5, <2>6, <2>7 DEF TableInv
  <1>8. CASE c \in Removals
    <2>1. c.op = "remove" /\ c.endpoint \in EndpointID
      BY <1>8 DEF Removals
    <2>2. Atomic!RoutedTo(c.endpoint) = Old(c)
          /\ \A t : Atomic!OfType(t) = {re \in committed.routed : re.exporterType = t}
      BY DEF Atomic!RoutedTo, Old, Atomic!OfType
    <2>3. Atomic!RemoveExporter(c.endpoint)
      BY <1>4, <1>6, <2>1, <2>2
      DEF Atomic!RemoveExporter, Atomic!NumberRemoved, Atomic!RecordCount, Atomic!NoSeries, NoSeries,
          NewTable, NewCount, NewByType, NewGauge
    <2>4. Atomic!RouterNext
      BY <2>1, <2>3 DEF Atomic!RouterNext
    <2>5. IsFiniteSet(committed'.routed)
      <3>1. NewTable(c) = committed.routed \ Old(c)
        BY <2>1 DEF NewTable
      <3>2. IsFiniteSet(committed.routed \ Old(c))
        BY <1>5, FS_Difference
      <3> QED
        BY <1>4, <3>1, <3>2
    <2>6. \A S : S \subseteq committed.routed => Cardinality(S) \in Nat
      BY <1>5, FS_Subset, FS_CardinalityType
    <2>7. Cardinality(Old(c)) \in Nat
      BY <2>6 DEF Old
    <2>8. \A t : Cardinality(Old(c) \cap {re \in committed.routed : re.exporterType = t}) \in Nat
      BY <2>6
    <2>9. committed'.count \in Int /\ committed'.byType \in [ExporterType -> Int]
      <3> DEFINE n(t) == Cardinality(Old(c) \cap {re \in committed.routed : re.exporterType = t})
      <3>1. NewCount(c) = committed.count - Cardinality(Old(c))
        BY <2>1 DEF NewCount
      <3>2. NewByType(c) = [t \in ExporterType |-> committed.byType[t] - n(t)]
        BY <2>1 DEF NewByType
      <3>3. \A t : n(t) \in Nat
        BY <2>8
      <3> HIDE DEF n
      <3>4. [t \in ExporterType |-> committed.byType[t] - n(t)] \in [ExporterType -> Int]
        BY <1>5, <3>3
      <3> QED
        BY <1>4, <1>5, <2>7, <3>1, <3>2, <3>4
    <2> QED
      BY <2>4, <2>5, <2>9 DEF TableInv
  <1> QED
    BY <1>3, <1>7, <1>8

LEMMA UnlockKeepsInv ==
    ASSUME LockInv, NEW w \in Writer, Unlock(w)
    PROVE  LockInv'
  <1>1. /\ at[w] = "writing" /\ announced' = Nobody /\ change' = [change EXCEPT ![w] = NoChange]
        /\ at' = [g \in Router \cup Writer |->
                     IF g = w THEN "away" ELSE IF at[g] = "blocked" THEN "gated" ELSE at[g]]
        /\ committed' = Fields
        /\ UNCHANGED <<todo, attrs, answer, routed, count, byType, exportersCount>>
    BY DEF Unlock, routerVars
  <1>2. \A v \in Writer : at[v] = "writing" => v = w
    BY <1>1, Alone DEF LockInv
  <1>3. announced = w
    BY <1>1 DEF LockInv, PlaceInv
  <1>4. \A v \in Writer : at'[v] = IF v = w THEN "away" ELSE IF at[v] = "blocked" THEN "gated" ELSE at[v]
    BY <1>1
  <1>5. \A v \in Writer : at'[v] \notin {"announced", "writing"}
    BY <1>3, <1>4 DEF LockInv, PlaceInv
  <1>6. PlaceInv'
    <2>1. /\ at' \in [Router \cup Writer -> {"away", "blocked", "gated", "matching", "checking",
                                            "leaving", "waiting", "announced", "writing"}]
          /\ \A r \in Router : at'[r] \notin {"waiting", "announced", "writing"}
      BY <1>1, LockSentinel DEF LockInv, PlaceInv
    <2>2. \A v \in Writer : at'[v] \in {"waiting", "announced", "writing"} =>
                               v # w /\ at[v] \in {"waiting", "announced", "writing"}
      BY <1>4
    <2>3. change' \in [Writer -> Additions \cup Removals \cup {NoChange}]
          /\ \A v \in Writer : v # w => change'[v] = change[v]
      BY <1>1 DEF LockInv, PlaceInv
    <2>4. \A v \in Writer : at'[v] \in {"waiting", "announced", "writing"} =>
                               change'[v] \in Additions \cup Removals
      BY <2>2, <2>3 DEF LockInv, PlaceInv
    <2> QED
      BY <1>1, <1>5, <2>1, <2>3, <2>4, LockSentinel DEF LockInv, PlaceInv
  <1>7. TableInv'
    BY UnlockCommits
  <1>8. WriteInv'
    BY <1>1, <1>5 DEF WriteInv, Fields
  <1>9. AdditionInv'
    <2>1. change'[w].op = "none" /\ \A v \in Writer : v # w => change'[v] = change[v]
      BY <1>1 DEF LockInv, PlaceInv, NoChange
    <2> QED
      BY <1>1, <1>2, <1>5, <2>1 DEF LockInv, AdditionInv, Unregistered
  <1>10. AnswerInv'
    <2>1. \A r \in Router : at[r] \notin {"gated", "matching", "checking", "leaving"}
      BY <1>1 DEF LockInv, PlaceInv
    <2>2. \A r \in Router : at'[r] \notin {"matching", "checking", "leaving"}
      BY <1>1, <2>1, LockSentinel
    <2>3. \A r \in Router : answer[r] = {}
      BY <2>1 DEF LockInv, PlaceInv, AnswerInv
    <2> QED
      BY <1>1, <2>2, <2>3 DEF LockInv, AnswerInv, RouteIsAtomic
  <1> QED
    BY <1>6, <1>7, <1>8, <1>9, <1>10 DEF LockInv
------------------------------------------------------------------------------
(* A reader that comes while a writer is announced waits outside.           *)
LEMMA CallRouteKeepsInv ==
    ASSUME LockInv, NEW r \in Router, NEW a \in Attributes, CallRoute(r, a)
    PROVE  LockInv'
  <1>1. /\ at[r] = "away" /\ at' = [at EXCEPT ![r] = IF announced = Nobody THEN "gated" ELSE "blocked"]
        /\ attrs' = [attrs EXCEPT ![r] = a]
        /\ UNCHANGED <<announced, change, todo, answer, committed, routed, count, byType, exportersCount>>
    BY DEF CallRoute, routerVars
  <1>2. /\ \A q \in Router \ {r} : at'[q] = at[q] /\ attrs'[q] = attrs[q]
        /\ at'[r] \in {"gated", "blocked"} /\ (at'[r] = "gated" => announced = Nobody)
    BY <1>1 DEF LockInv, PlaceInv, AnswerInv
  <1>3. \A w \in Writer : at'[w] = at[w]
    BY <1>1, LockSentinel DEF LockInv, PlaceInv
  <1>4. \A w \in Writer : at[w] = "writing" => announced # Nobody
    BY LockSentinel DEF LockInv, PlaceInv
  <1>5. PlaceInv'
    <2>1. at' \in [Router \cup Writer -> {"away", "blocked", "gated", "matching", "checking", "leaving",
                                          "waiting", "announced", "writing"}]
      BY <1>1 DEF LockInv, PlaceInv
    <2> QED
      BY <1>1, <1>2, <1>3, <1>4, <2>1 DEF LockInv, PlaceInv
  <1>6. TableInv'
    BY <1>1 DEF LockInv, TableInv
  <1>7. WriteInv'
    BY <1>1, <1>3, WrittenStays DEF LockInv, WriteInv, Fields
  <1>8. AdditionInv'
    BY <1>1, <1>3 DEF LockInv, AdditionInv, Unregistered
  <1>9. AnswerInv'
    <2>1. answer[r] = {}
      BY <1>1 DEF LockInv, AnswerInv
    <2>2. attrs' = [q \in Router |-> attrs'[q]] /\ answer' = [q \in Router |-> answer'[q]]
      BY <1>1 DEF LockInv, AnswerInv
    <2>3. \A q \in Router : Atomic!Route(attrs[q])' = Atomic!Route(attrs'[q])
      BY <1>1 DEF Atomic!Route, Atomic!MatchesAllRules
    <2> QED
      BY <1>1, <1>2, <2>1, <2>2, <2>3 DEF LockInv, AnswerInv, RouteIsAtomic,
         Atomic!Route, Atomic!MatchesAllRules
  <1> QED
    BY <1>5, <1>6, <1>7, <1>8, <1>9 DEF LockInv

(* A reader inside reads what is committed.                                 *)
LEMMA ReaderSeesCommitted ==
    ASSUME LockInv, NEW r \in Router, at[r] \in {"gated", "matching", "checking", "leaving"}
    PROVE  routed = committed.routed /\ count = committed.count
  BY DEF LockInv, PlaceInv, WriteInv, Fields

(* What a step of a reader leaves alone.                                    *)
LEMMA ReaderKeepsInv ==
    ASSUME LockInv, NEW r \in Router,
           at[r] \in {"gated", "matching", "checking", "leaving"},
           NEW next \in {"matching", "checking", "leaving", "away"},
           at' = [at EXCEPT ![r] = next],
           UNCHANGED <<announced, change, todo, committed, routed, count, byType, exportersCount>>,
           AnswerInv'
    PROVE  LockInv'
  <1>1. \A w \in Writer : at'[w] = at[w]
    BY LockSentinel DEF LockInv, PlaceInv
  <1>2. \A w \in Writer : at[w] # "writing"
    BY DEF LockInv, PlaceInv
  <1>3. PlaceInv'
    BY <1>1, <1>2 DEF LockInv, PlaceInv
  <1>4. TableInv'
    BY DEF LockInv, TableInv
  <1>5. WriteInv'
    BY <1>1, <1>2 DEF LockInv, WriteInv, Fields
  <1>6. AdditionInv'
    BY <1>1 DEF LockInv, AdditionInv, Unregistered
  <1> QED
    BY <1>3, <1>4, <1>5, <1>6 DEF LockInv

(* The gate.  A Route that does not pass it has nothing to look for.        *)
LEMMA ReadCountKeepsInv ==
    ASSUME LockInv, NEW r \in Router, ReadCount(r)
    PROVE  LockInv'
  <1>1. /\ at[r] = "gated"
        /\ at' = [at EXCEPT ![r] = IF Rules = {} \/ count = 0 THEN "leaving" ELSE "matching"]
        /\ UNCHANGED <<announced, change, todo, attrs, answer, committed,
                       routed, count, byType, exportersCount>>
    BY DEF ReadCount, routerVars
  <1>2. count = committed.count
    BY <1>1, ReaderSeesCommitted
  <1>3. AnswerInv'
    <2>1. /\ at'[r] = (IF Rules = {} \/ count = 0 THEN "leaving" ELSE "matching")
          /\ \A q \in Router \ {r} : at'[q] = at[q]
      BY <1>1 DEF LockInv, PlaceInv
    <2>2. answer[r] = {}
      BY <1>1 DEF LockInv, AnswerInv
    <2>3. Rules = {} \/ count = 0 => Atomic!Route(attrs[r]) = {}
      BY <1>2 DEF Atomic!Route, Atomic!MatchesAllRules
    <2>4. \A q \in Router : Atomic!Route(attrs[q])' = Atomic!Route(attrs[q])
      BY <1>1 DEF Atomic!Route, Atomic!MatchesAllRules
    <2>5. ~(Rules = {} \/ count = 0) => committed.count # 0
      BY <1>2
    <2>6. \A q \in Router : at'[q] \in {"checking", "leaving"} => answer'[q] = Atomic!Route(attrs[q])'
      BY <1>1, <2>1, <2>2, <2>3, <2>4 DEF LockInv, AnswerInv, RouteIsAtomic
    <2> QED
      BY <1>1, <2>1, <2>2, <2>5, <2>6 DEF LockInv, AnswerInv, RouteIsAtomic
  <1>4. (IF Rules = {} \/ count = 0 THEN "leaving" ELSE "matching")
          \in {"matching", "checking", "leaving", "away"}
    OBVIOUS
  <1> QED
    BY <1>1, <1>3, <1>4, ReaderKeepsInv

(* The table is read as the gate saw it.                                    *)
LEMMA ReadTableKeepsInv ==
    ASSUME LockInv, NEW r \in Router, ReadTable(r)
    PROVE  LockInv'
  <1>1. /\ at[r] = "matching" /\ at' = [at EXCEPT ![r] = "checking"]
        /\ answer' = [answer EXCEPT ![r] =
              {re.exporter : re \in {x \in routed : MatchesAllRules(attrs[r], x.properties)}}]
        /\ UNCHANGED <<announced, change, todo, attrs, committed, routed, count, byType, exportersCount>>
    BY DEF ReadTable, routerVars
  <1>2. routed = committed.routed
    BY <1>1, ReaderSeesCommitted
  <1>3. AnswerInv'
    <2>1. at'[r] = "checking" /\ \A q \in Router \ {r} : at'[q] = at[q] /\ answer'[q] = answer[q]
      BY <1>1 DEF LockInv, PlaceInv, AnswerInv
    <2>2. answer' = [q \in Router |-> answer'[q]] /\ answer'[r] =
              {re.exporter : re \in {x \in routed : MatchesAllRules(attrs[r], x.properties)}}
      BY <1>1 DEF LockInv, AnswerInv
    <2>3. committed.count # 0
      BY <1>1 DEF LockInv, AnswerInv
    <2>4. answer'[r] = Atomic!Route(attrs[r])
      BY <1>2, <2>2, <2>3, CommittedRoute
    <2>5. \A q \in Router : Atomic!Route(attrs[q])' = Atomic!Route(attrs[q])
      BY <1>1 DEF Atomic!Route, Atomic!MatchesAllRules
    <2>6. \A q \in Router : at'[q] \in {"checking", "leaving"} => answer'[q] = Atomic!Route(attrs[q])'
      BY <2>1, <2>4, <2>5 DEF LockInv, AnswerInv, RouteIsAtomic
    <2> QED
      BY <1>1, <2>1, <2>2, <2>6 DEF LockInv, AnswerInv, RouteIsAtomic
  <1> QED
    BY <1>1, <1>3, ReaderKeepsInv

LEMMA CheckAllMatchedKeepsInv ==
    ASSUME LockInv, NEW r \in Router, CheckAllMatched(r)
    PROVE  LockInv'
  <1>1. /\ at[r] = "checking" /\ at' = [at EXCEPT ![r] = "leaving"]
        /\ UNCHANGED <<announced, change, todo, attrs, answer, committed,
                       routed, count, byType, exportersCount>>
    BY DEF CheckAllMatched, routerVars
  <1>2. AnswerInv'
    <2>1. at'[r] = "leaving" /\ \A q \in Router \ {r} : at'[q] = at[q]
      BY <1>1 DEF LockInv, PlaceInv
    <2>2. \A q \in Router : Atomic!Route(attrs[q])' = Atomic!Route(attrs[q])
      BY <1>1 DEF Atomic!Route, Atomic!MatchesAllRules
    <2>3. \A q \in Router : at'[q] \in {"checking", "leaving"} => answer'[q] = Atomic!Route(attrs[q])'
      BY <1>1, <2>1, <2>2 DEF LockInv, AnswerInv, RouteIsAtomic
    <2> QED
      BY <1>1, <2>1, <2>3 DEF LockInv, AnswerInv, RouteIsAtomic
  <1> QED
    BY <1>1, <1>2, ReaderKeepsInv

LEMMA RUnlockKeepsInv ==
    ASSUME LockInv, NEW r \in Router, RUnlock(r)
    PROVE  LockInv'
  <1>1. /\ at[r] = "leaving" /\ at' = [at EXCEPT ![r] = "away"]
        /\ attrs' = [attrs EXCEPT ![r] = NoAttributes] /\ answer' = [answer EXCEPT ![r] = {}]
        /\ UNCHANGED <<announced, change, todo, committed, routed, count, byType, exportersCount>>
    BY DEF RUnlock, routerVars
  <1>2. AnswerInv'
    <2>1. /\ at'[r] = "away" /\ answer'[r] = {}
          /\ \A q \in Router \ {r} :
                at'[q] = at[q] /\ answer'[q] = answer[q] /\ attrs'[q] = attrs[q]
      BY <1>1 DEF LockInv, PlaceInv, AnswerInv
    <2>2. attrs' = [q \in Router |-> attrs'[q]] /\ answer' = [q \in Router |-> answer'[q]]
      BY <1>1 DEF LockInv, AnswerInv
    <2>3. \A q \in Router \ {r} : Atomic!Route(attrs[q])' = Atomic!Route(attrs[q])
      BY <1>1, <2>1 DEF Atomic!Route, Atomic!MatchesAllRules
    <2>4. \A q \in Router : at'[q] \in {"checking", "leaving"} => answer'[q] = Atomic!Route(attrs[q])'
      BY <2>1, <2>3 DEF LockInv, AnswerInv, RouteIsAtomic
    <2> QED
      BY <1>1, <2>1, <2>2, <2>4 DEF LockInv, AnswerInv, RouteIsAtomic
  <1> QED
    BY <1>1, <1>2, ReaderKeepsInv

LEMMA StutterKeepsInv ==
    ASSUME LockInv, UNCHANGED lockVars
    PROVE  LockInv'
  <1>1. UNCHANGED <<at, announced, change, todo, attrs, answer, committed,
                    routed, count, byType, exportersCount>>
    BY DEF lockVars, routerVars
  <1>2. PlaceInv' /\ TableInv' /\ AdditionInv'
    BY <1>1 DEF LockInv, PlaceInv, TableInv, AdditionInv, Unregistered
  <1>3. WriteInv'
    BY <1>1, WrittenStays DEF LockInv, WriteInv, Fields
  <1>4. AnswerInv'
    BY <1>1 DEF LockInv, AnswerInv, RouteIsAtomic, Atomic!Route, Atomic!MatchesAllRules
  <1> QED
    BY <1>2, <1>3, <1>4 DEF LockInv

(* One operation of the router, or none, for every step under the lock.     *)
LEMMA LockStep ==
    ASSUME LockInv, [LockNext]_lockVars
    PROVE  LockInv' /\ [Atomic!RouterNext]_<<committed.routed, committed.count, committed.byType,
                                            committed.exportersCount>>
  <1> DEFINE router == <<committed.routed, committed.count, committed.byType, committed.exportersCount>>
  <1>1. ASSUME NEW w \in Writer, NEW c \in Additions \cup Removals, CallChange(w, c)
        PROVE  LockInv' /\ router' = router
    BY <1>1, CallChangeKeepsInv DEF CallChange
  <1>2. ASSUME NEW w \in Writer, Announce(w)
        PROVE  LockInv' /\ router' = router
    BY <1>2, AnnounceKeepsInv DEF Announce
  <1>3. ASSUME NEW w \in Writer, Acquire(w)
        PROVE  LockInv' /\ router' = router
    BY <1>3, AcquireKeepsInv DEF Acquire
  <1>4. ASSUME NEW w \in Writer, Write(w)
        PROVE  LockInv' /\ router' = router
    <2>1. LockInv'
      BY <1>4, WriteKeepsInv
    <2>2. router' = router
      BY <1>4 DEF Write
    <2> QED
      BY <2>1, <2>2
  <1>5. ASSUME NEW w \in Writer, Unlock(w)
        PROVE  LockInv' /\ Atomic!RouterNext
    BY <1>5, UnlockKeepsInv, UnlockCommits
  <1>6. ASSUME NEW r \in Router, NEW a \in Attributes, CallRoute(r, a)
        PROVE  LockInv' /\ router' = router
    BY <1>6, CallRouteKeepsInv DEF CallRoute
  <1>7. ASSUME NEW r \in Router, RouteStep(r)
        PROVE  LockInv' /\ router' = router
    <2>1. LockInv'
      BY <1>7, ReadCountKeepsInv, ReadTableKeepsInv, CheckAllMatchedKeepsInv, RUnlockKeepsInv
      DEF RouteStep
    <2>2. committed' = committed
      BY <1>7 DEF RouteStep, ReadCount, ReadTable, CheckAllMatched, RUnlock
    <2> QED
      BY <2>1, <2>2
  <1>8. CASE UNCHANGED lockVars
    BY <1>8, StutterKeepsInv DEF lockVars
  <1> QED
    BY <1>1, <1>2, <1>3, <1>4, <1>5, <1>6, <1>7, <1>8 DEF LockNext, WriteStep

(* The lock keeps readers and writers apart: a writer's change is made of   *)
(* what is committed, and a reader reads nothing else (router.go:74-76,     *)
(* 104-106, 150-152).                                                       *)
THEOREM LockInvariant == LockSafety => []LockInv
  <1>1. LockInit => LockInv
    BY LockInitially
  <1>2. LockInv /\ [LockNext]_lockVars => LockInv'
    BY LockStep
  <1> QED
    BY <1>1, <1>2, PTL DEF LockSafety

(* Whatever the writers do while a Route is under way, it returns what the  *)
(* table held in one moment, the gate on the count included                 *)
(* (router.go:150-192).                                                     *)
THEOREM RoutesAtomically == LockSafety => []RouteIsAtomic
  <1>1. LockInv => RouteIsAtomic
    BY DEF LockInv, AnswerInv
  <1> QED
    BY <1>1, LockInvariant, PTL

(* Written field by field under the lock, AddExporter and RemoveExporter    *)
(* are the router's single steps: what is proved of TelemetryRouter is so   *)
(* of the router under its lock (router.go:74-143).                         *)
THEOREM ChangesImplementRouter == LockSafety => ChangesAreAtomic
  <1>1. LockInit => Atomic!RouterInit
    BY DEF LockInit, Fields, RouterInit, Atomic!RouterInit, Atomic!NoSeries, NoSeries
  <1>2. LockInv /\ [LockNext]_lockVars => [Atomic!RouterNext]_(Atomic!routerVars)
    BY LockStep DEF Atomic!routerVars
  <1> QED
    BY <1>1, <1>2, LockInvariant, PTL DEF LockSafety, ChangesAreAtomic, Atomic!RouterSpec
------------------------------------------------------------------------------
(* What is proved of the router holds of what is committed.                 *)
Committed == INSTANCE TelemetryRouterProofs WITH
                 routed <- committed.routed, count <- committed.count,
                 byType <- committed.byType, exportersCount <- committed.exportersCount

LEMMA SameRouter ==
    /\ Atomic!RouterInit => Committed!RouterInit
    /\ Atomic!RouterNext => Committed!RouterNext
    /\ Committed!routerVars = Atomic!routerVars
  <1>1. Atomic!RouterInit => Committed!RouterInit
    BY DEF Atomic!RouterInit, Committed!RouterInit, Atomic!NoSeries, Committed!NoSeries
  <1>2. \A S : Atomic!Cardinality(S) = Committed!Cardinality(S)
    BY DEF Atomic!Cardinality, Committed!Cardinality
  <1>3. ASSUME NEW id \in EndpointID, NEW exp \in Exporter, NEW props \in Properties,
               NEW t \in ExporterType, Atomic!AddExporter(id, exp, props, t)
        PROVE  Committed!AddExporter(id, exp, props, t)
    BY <1>3 DEF Atomic!AddExporter, Committed!AddExporter, Atomic!RecordCount, Committed!RecordCount,
       Atomic!NoSeries, Committed!NoSeries
  <1>4. ASSUME NEW id \in EndpointID, Atomic!RemoveExporter(id)
        PROVE  Committed!RemoveExporter(id)
    BY <1>2, <1>4 DEF Atomic!RemoveExporter, Committed!RemoveExporter,
       Atomic!NumberRemoved, Committed!NumberRemoved, Atomic!RoutedTo, Committed!RoutedTo,
       Atomic!OfType, Committed!OfType, Atomic!RecordCount, Committed!RecordCount,
       Atomic!NoSeries, Committed!NoSeries
  <1>5. Atomic!RouterNext => Committed!RouterNext
    BY <1>3, <1>4 DEF Atomic!RouterNext, Committed!RouterNext, Atomic!Unregistered,
       Committed!Unregistered, Atomic!Properties, Committed!Properties, Properties
  <1>6. Committed!routerVars = Atomic!routerVars
    BY DEF Committed!routerVars, Atomic!routerVars
  <1> QED
    BY <1>1, <1>5, <1>6

(* So is its invariant: by the refinement, every run is one of the router's *)
(* own (router.go:25-50).                                                   *)
THEOREM CommittedInvariant == LockSafety => []Committed!RouterInv
  <1>1. [Atomic!RouterNext]_(Atomic!routerVars) => [Committed!RouterNext]_(Committed!routerVars)
    BY SameRouter DEF Atomic!routerVars, Committed!routerVars
  <1>2. Atomic!RouterInit => Committed!RouterInit
    BY SameRouter
  <1>3. ChangesAreAtomic => Committed!RouterSpec
    BY <1>1, <1>2, PTL DEF ChangesAreAtomic, Atomic!RouterSpec, Committed!RouterSpec
  <1>4. Committed!RouterSpec => []Committed!RouterInv
    BY Committed!RouterInvariant, AbsentIsNoValue, RulesType
  <1> QED
    BY <1>3, <1>4, ChangesImplementRouter, PTL

(* The totals and the gauge that are committed are those of the table that  *)
(* is, which holds entries only.                                            *)
LEMMA CommittedIsExact ==
    ASSUME Committed!RouterInv
    PROVE  /\ committed.routed \subseteq RoutedExporter
           /\ IsFiniteSet(committed.routed)
           /\ committed.count = Cardinality(committed.routed)
           /\ \A t \in ExporterType :
                 LET live == Cardinality({re \in committed.routed : re.exporterType = t})
                 IN /\ committed.byType[t] = live
                    /\ \/ committed.exportersCount[t] = live
                       \/ /\ committed.exportersCount[t] = NoSeries
                          /\ {re \in committed.routed : re.exporterType = t} = {}
  <1>1. \A S : Committed!Cardinality(S) = Cardinality(S)
    BY DEF Committed!Cardinality, Cardinality
  <1>2. \A S : Committed!IsFiniteSet(S) <=> IsFiniteSet(S)
    BY DEF Committed!IsFiniteSet, IsFiniteSet
  <1>3. \A t : Committed!OfType(t) = {re \in committed.routed : re.exporterType = t}
    BY DEF Committed!OfType
  <1>4. committed.routed \subseteq RoutedExporter
    BY DEF Committed!RouterInv, Committed!RouterTypeOK, Committed!RoutedExporter, RoutedExporter,
       Committed!Properties, Properties
  <1>5. IsFiniteSet(committed.routed)
    BY <1>2 DEF Committed!RouterInv
  <1>6. committed.count = Cardinality(committed.routed)
    BY <1>1 DEF Committed!RouterInv, Committed!CachedCountMatchesExporters
  <1>7. ASSUME NEW t \in ExporterType
        PROVE  LET live == Cardinality({re \in committed.routed : re.exporterType = t})
               IN /\ committed.byType[t] = live
                  /\ \/ committed.exportersCount[t] = live
                     \/ /\ committed.exportersCount[t] = NoSeries
                        /\ {re \in committed.routed : re.exporterType = t} = {}
    BY <1>1, <1>3 DEF Committed!RouterInv, Committed!CachedCountMatchesExporters,
       Committed!GaugeReportsLiveCount, Committed!NoSeries, NoSeries
  <1> QED
    BY <1>4, <1>5, <1>6, <1>7

(* Half a change keeps the types: what is being written is the table before *)
(* or after it, and the count goes to a number of exporters.                *)
LEMMA FieldsKeepTypes ==
    ASSUME LockInv, Committed!RouterInv
    PROVE  routed \subseteq RoutedExporter /\ count \in Nat
  <1>1. /\ committed.routed \subseteq RoutedExporter /\ IsFiniteSet(committed.routed)
        /\ committed.count = Cardinality(committed.routed) /\ committed.count \in Nat
    BY CommittedIsExact, FS_CardinalityType
  <1>2. CASE \A w \in Writer : at[w] # "writing"
    BY <1>1, <1>2 DEF LockInv, WriteInv, Fields
  <1>3. ASSUME NEW w \in Writer, at[w] = "writing"
        PROVE  routed \subseteq RoutedExporter /\ count \in Nat
    <2> DEFINE c == change[w]
    <2>1. WrittenBy(w) /\ c \in Additions \cup Removals
      BY <1>3 DEF LockInv, WriteInv, PlaceInv
    <2>2. NewTable(c) \subseteq RoutedExporter
      BY <1>1, <2>1 DEF NewTable, Additions, Removals, RoutedExporter
    <2>3. NewCount(c) \in Nat
      <3>1. Old(c) \subseteq committed.routed
        BY DEF Old
      <3>2. Cardinality(Old(c)) \in Nat /\ Cardinality(Old(c)) <= Cardinality(committed.routed)
        BY <1>1, <3>1, FS_Subset, FS_CardinalityType
      <3> QED
        BY <1>1, <3>2 DEF NewCount
    <2>4. routed = committed.routed \/ routed = NewTable(c)
      BY <2>1 DEF WrittenBy
    <2>5. count = committed.count \/ count = NewCount(c)
      BY <2>1 DEF WrittenBy
    <2> QED
      BY <1>1, <2>2, <2>3, <2>4, <2>5
  <1> QED
    BY <1>2, <1>3

(* Every goroutine is where its kind may be, one writer at most is past the *)
(* writers' mutex, and no total is negative, half-way through a change      *)
(* included (router.go:25-50, 74-143).                                      *)
THEOREM LockKeepsTypes == LockSafety => []LockTypeOK
  <1>1. LockInv /\ Committed!RouterInv => LockTypeOK
    <2> SUFFICES ASSUME LockInv, Committed!RouterInv PROVE LockTypeOK
      OBVIOUS
    <2>1. routed \subseteq RoutedExporter /\ count \in Nat
      BY FieldsKeepTypes
    <2>2. \A r \in Router :
             at[r] \in {"away", "blocked", "gated", "matching", "checking", "leaving"}
      BY DEF LockInv, PlaceInv
    <2>3. \A w \in Writer : at[w] \in {"away", "waiting", "announced", "writing"}
      BY DEF LockInv, PlaceInv
    <2>4. \A w \in Writer : /\ change[w] \in Additions \cup Removals \cup {NoChange}
                            /\ at[w] \in {"announced", "writing"} <=> announced = w
      BY DEF LockInv, PlaceInv
    <2> QED
      BY <2>1, <2>2, <2>3, <2>4 DEF LockTypeOK
  <1> QED
    BY <1>1, LockInvariant, CommittedInvariant, PTL

(* The totals and the gauge agree with the table, unless a writer writes.   *)
UnlockedIsExact ==
    (\A w \in Writer : at[w] # "writing") => CachedCountMatchesExporters /\ GaugeReportsLiveCount

(* Between changes, though they are written field by field, the totals and  *)
(* the gauge agree with the table (router.go:31-38, 113-117).               *)
THEOREM ExactWhenUnlocked == LockSafety => []UnlockedIsExact
  <1>1. LockInv /\ Committed!RouterInv => UnlockedIsExact
    BY CommittedIsExact
    DEF LockInv, WriteInv, Fields, UnlockedIsExact, CachedCountMatchesExporters,
        GaugeReportsLiveCount, OfType
  <1> QED
    BY <1>1, LockInvariant, CommittedInvariant, PTL

(* A Route past the table has found the exporters whose endpoints match.    *)
ReturnsWhatMatches ==
    \A r \in Router : at[r] \in {"checking", "leaving"} =>
        answer[r] = {exp \in Exporter :
            \E re \in committed.routed : re.exporter = exp /\ MatchesAllRules(attrs[r], re.properties)}

(* A Route returns exactly the exporters whose endpoints match in the table *)
(* that is committed when it does: the read lock keeps it the same from the *)
(* gate to the end (router.go:146-192).                                     *)
THEOREM RouteReturnsWhatMatches == LockSafety => []ReturnsWhatMatches
  <1>1. LockInv /\ Committed!RouterInv => ReturnsWhatMatches
    <2> SUFFICES ASSUME LockInv, Committed!RouterInv,
                        NEW r \in Router, at[r] \in {"checking", "leaving"}
                 PROVE  answer[r] = {exp \in Exporter : \E re \in committed.routed :
                            re.exporter = exp /\ MatchesAllRules(attrs[r], re.properties)}
      BY DEF ReturnsWhatMatches
    <2>1. answer[r] = Atomic!Route(attrs[r])
      BY DEF LockInv, AnswerInv, RouteIsAtomic
    <2>2. \A re \in committed.routed : re.exporter \in Exporter
      BY CommittedIsExact DEF RoutedExporter
    <2>3. committed.count = 0 => committed.routed = {}
      BY CommittedIsExact, FS_EmptySet
    <2> QED
      BY <2>1, <2>2, <2>3, CommittedRoute
  <1> QED
    BY <1>1, LockInvariant, CommittedInvariant, PTL
==============================================================================
