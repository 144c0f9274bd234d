------------------------------ MODULE RouterLock ------------------------------
(***************************************************************************)
(* The router under its sync.RWMutex (router.go): TelemetryRouter takes     *)
(* AddExporter, RemoveExporter and Route for single steps; here each is     *)
(* what it is, a lock, a read or a write of one field after another, and an *)
(* unlock.  Pipelines route, each resource of theirs under the read lock;   *)
(* the handler's callbacks change the table under the write lock.           *)
(*                                                                          *)
(* Go's RWMutex lets readers in together.  Once a writer has announced      *)
(* itself new readers wait, so that the writer has only those inside to     *)
(* wait for; when it unlocks, every reader that waits is let in.  It is not *)
(* reentrant: a reader that locks again waits like any other.               *)
(***************************************************************************)
EXTENDS TelemetryRouter, Sequences

CONSTANTS
    Router, \* the goroutines of pipelines that call Route
    Writer, \* the goroutines that call AddExporter and RemoveExporter
    Nobody

ASSUME LockSentinel == Nobody \notin Writer /\ Router \cap Writer = {}

VARIABLES
    at,        \* where each goroutine is
    announced, \* the writer that holds the lock, or waits for readers to leave
    change,    \* what each writer is to do
    todo,      \* the fields it has yet to write
    attrs,     \* the resource attributes each Route is called with
    answer,    \* the exporters it has matched
    committed  \* history: the router's fields when the lock was last free of writers

lockVars == <<at, announced, change, todo, attrs, answer, committed, routerVars>>

Fields == [routed |-> routed, count |-> count, byType |-> byType,
           exportersCount |-> exportersCount]

(* The router as it appears to those that take the lock. *)
Atomic == INSTANCE TelemetryRouter WITH
              routed <- committed.routed, count <- committed.count,
              byType <- committed.byType, exportersCount <- committed.exportersCount

Additions == [op : {"add"}, endpoint : EndpointID, exporter : Exporter,
              properties : Properties, exporterType : ExporterType]
Removals == [op : {"remove"}, endpoint : EndpointID]
NoChange == [op |-> "none"]
NoAttributes == [a \in Attribute |-> Absent]
------------------------------------------------------------------------------
LockInit ==
    /\ RouterInit
    /\ at = [g \in Router \cup Writer |-> "away"]
    /\ announced = Nobody
    /\ change = [w \in Writer |-> NoChange]
    /\ todo = [w \in Writer |-> <<>>]
    /\ attrs \in [Router -> {NoAttributes}]
    /\ answer = [r \in Router |-> {}]
    /\ committed = Fields

(* The order in which the fields are written.  Mutant: RemoveExporter       *)
(* deletes the endpoint before it has counted what it deletes.              *)
DeletesFirst(op) ==
    IF op = "add" THEN <<"routed", "count", "byType", "exportersCount">>
    ELSE <<"routed", "byType", "count", "exportersCount">>
WriteOrder(op) ==
    IF op = "add" THEN <<"routed", "count", "byType", "exportersCount">>
    ELSE <<"byType", "count", "routed", "exportersCount">>

(* A caller registers what it has just started, so nothing another caller   *)
(* registers.                                                               *)
CallChange(w, c) ==
    /\ at[w] = "away"
    /\ c.op = "add" => /\ Unregistered(c.exporter)
                       /\ \A v \in Writer : change[v].op = "add" => change[v].exporter # c.exporter
    /\ at' = [at EXCEPT ![w] = "waiting"]
    /\ change' = [change EXCEPT ![w] = c]
    /\ UNCHANGED <<announced, todo, attrs, answer, committed, routerVars>>

(* Lock: one writer at a time gets past the writers' own mutex.  Mutant:    *)
(* Lock is not called.                                                      *)
Unlocked == TRUE
NoOtherWriter == announced = Nobody

Announce(w) ==
    /\ at[w] = "waiting" /\ NoOtherWriter
    /\ announced' = w
    /\ at' = [at EXCEPT ![w] = "announced"]
    /\ UNCHANGED <<change, todo, attrs, answer, committed, routerVars>>

Inside == {r \in Router : at[r] \in {"gated", "matching", "checking", "leaving"}}

(* Mutant: the lock does not wait for the readers inside. *)
NotAwaited == TRUE
ReadersLeft == Inside = {}

Acquire(w) ==
    /\ at[w] = "announced" /\ ReadersLeft
    /\ at' = [at EXCEPT ![w] = "writing"]
    /\ todo' = [todo EXCEPT ![w] = WriteOrder(change[w].op)]
    /\ UNCHANGED <<announced, change, attrs, answer, committed, routerVars>>

(* One field. *)
WriteTable(c) ==
    routed' = IF c.op = "add"
              THEN routed \cup {[endpoint |-> c.endpoint, exporter |-> c.exporter,
                                 exporterType |-> c.exporterType, properties |-> c.properties]}
              ELSE routed \ RoutedTo(c.endpoint)
WriteCount(c) ==
    count' = IF c.op = "add" THEN count + 1 ELSE count - NumberRemoved(c.endpoint)
WriteByType(c) ==
    byType' = [t \in ExporterType |->
        IF c.op = "add" THEN byType[t] + (IF t = c.exporterType THEN 1 ELSE 0)
        ELSE byType[t] - Cardinality(RoutedTo(c.endpoint) \cap OfType(t))]
WriteGauge(c) ==
    /\ UNCHANGED byType
    /\ RecordCount(IF c.op = "add" THEN {c.exporterType} ELSE {})

Write(w) ==
    /\ at[w] = "writing" /\ todo[w] # <<>>
    /\ LET c == change[w]  field == Head(todo[w]) IN
       \/ field = "routed" /\ WriteTable(c) /\ UNCHANGED <<count, byType, exportersCount>>
       \/ field = "count" /\ WriteCount(c) /\ UNCHANGED <<routed, byType, exportersCount>>
       \/ field = "byType" /\ WriteByType(c) /\ UNCHANGED <<routed, count, exportersCount>>
       \/ field = "exportersCount" /\ WriteGauge(c) /\ UNCHANGED <<routed, count>>
    /\ todo' = [todo EXCEPT ![w] = Tail(@)]
    /\ UNCHANGED <<at, announced, change, attrs, answer, committed>>

(* Unlock lets in every reader that waits. *)
Unlock(w) ==
    /\ at[w] = "writing" /\ todo[w] = <<>>
    /\ announced' = Nobody
    /\ change' = [change EXCEPT ![w] = NoChange]
    /\ at' = [g \in Router \cup Writer |->
                IF g = w THEN "away" ELSE IF at[g] = "blocked" THEN "gated" ELSE at[g]]
    /\ committed' = Fields
    /\ UNCHANGED <<todo, attrs, answer, routerVars>>
------------------------------------------------------------------------------
(* RLock: at once, unless a writer has announced itself.                    *)
CallRoute(r, resourceAttrs) ==
    /\ at[r] = "away"
    /\ at' = [at EXCEPT ![r] = IF announced = Nobody THEN "gated" ELSE "blocked"]
    /\ attrs' = [attrs EXCEPT ![r] = resourceAttrs]
    /\ UNCHANGED <<announced, change, todo, answer, committed, routerVars>>

ReadCount(r) ==
    /\ at[r] = "gated"
    /\ at' = [at EXCEPT ![r] = IF Rules = {} \/ count = 0 THEN "leaving" ELSE "matching"]
    /\ UNCHANGED <<announced, change, todo, attrs, answer, committed, routerVars>>

ReadTable(r) ==
    /\ at[r] = "matching"
    /\ answer' = [answer EXCEPT ![r] =
            {re.exporter : re \in {x \in routed : MatchesAllRules(attrs[r], x.properties)}}]
    /\ at' = [at EXCEPT ![r] = "checking"]
    /\ UNCHANGED <<announced, change, todo, attrs, committed, routerVars>>

(* Mutant: Route asks Count for the total, which takes the read lock again. *)
TotalByCount(r) == announced = Nobody
(* r.count can be read under the lock Route holds.                          *)
TotalReadable(r) == TRUE

(* Did every exporter match? *)
CheckAllMatched(r) ==
    /\ at[r] = "checking" /\ TotalReadable(r)
    /\ at' = [at EXCEPT ![r] = "leaving"]
    /\ UNCHANGED <<announced, change, todo, attrs, answer, committed, routerVars>>

RUnlock(r) ==
    /\ at[r] = "leaving"
    /\ at' = [at EXCEPT ![r] = "away"]
    /\ attrs' = [attrs EXCEPT ![r] = NoAttributes]
    /\ answer' = [answer EXCEPT ![r] = {}]
    /\ UNCHANGED <<announced, change, todo, committed, routerVars>>
------------------------------------------------------------------------------
RouteStep(r) == ReadCount(r) \/ ReadTable(r) \/ CheckAllMatched(r) \/ RUnlock(r)
WriteStep(w) == Acquire(w) \/ Write(w) \/ Unlock(w)

LockNext ==
    \/ \E w \in Writer :
          \/ \E c \in Additions \cup Removals : CallChange(w, c)
          \/ Announce(w) \/ WriteStep(w)
    \/ \E r \in Router :
          \/ \E resourceAttrs \in Attributes : CallRoute(r, resourceAttrs)
          \/ RouteStep(r)

LockSafety == LockInit /\ [][LockNext]_lockVars

(* A goroutine that can go on does; the writers' mutex, a sync.Mutex, is    *)
(* fair to those that wait for it.  Nobody has to call anything.            *)
LockSpec ==
    /\ LockSafety
    /\ \A r \in Router : WF_lockVars(RouteStep(r))
    /\ \A w \in Writer : SF_lockVars(Announce(w)) /\ WF_lockVars(WriteStep(w))
------------------------------------------------------------------------------
(* Every goroutine is at a place of its own kind; a writer past the         *)
(* writers' mutex is the announced one.                                     *)
LockTypeOK ==
    /\ \A r \in Router : at[r] \in {"away", "blocked", "gated", "matching", "checking", "leaving"}
    /\ \A w \in Writer :
          /\ at[w] \in {"away", "waiting", "announced", "writing"}
          /\ change[w] \in Additions \cup Removals \cup {NoChange}
          /\ at[w] \in {"announced", "writing"} <=> announced = w
    /\ routed \subseteq RoutedExporter /\ count \in Nat

(* What Route returns is what it would return in one step, on the table as  *)
(* the last writer left it: the gate on the count and the reading of the    *)
(* table see the same state (router.go:156-168).                            *)
RouteIsAtomic ==
    \A r \in Router : at[r] \in {"checking", "leaving"} => answer[r] = Atomic!Route(attrs[r])

(* The fields written one by one under the lock make up one operation of    *)
(* the router, for all who take the lock.                                   *)
ChangesAreAtomic == Atomic!RouterSpec

(* Route and whatever it calls "must not take that lock again", or "routing *)
(* and endpoint updates deadlock together" (router_deadlock_test.go:22-25). *)
(* As it is each returns, however many others compete for the lock.         *)
RouteReturns == \A r \in Router : at[r] # "away" ~> at[r] = "away"
ChangeReturns == \A w \in Writer : at[w] # "away" ~> at[w] = "away"
==============================================================================
