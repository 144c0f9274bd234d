# A verification development for `exporter_creator`

`exporter_creator` is an OpenTelemetry Collector exporter that creates exporters at run time.
Observer extensions (Kubernetes, Docker, CRDs, ...) report endpoints; every template whose rule
matches an endpoint gets an exporter of its own, started with a configuration expanded from the
endpoint; telemetry is routed to the exporters of the endpoints whose properties agree with its
resource attributes. This directory holds TLA+ models of that program, the TLC configurations that
check them on small instances, and proofs, checked by TLAPS, that the main invariants hold for
every instance. Paths and line numbers are those of `src/`.

## Inventory

| Part | State it keeps | Operations | Correct when |
|---|---|---|---|
| Telemetry router (`router.go`) | `exporters` by endpoint, cached `count` and `byType`, the `exporters_count` gauge; an RWMutex | `AddExporter`, `RemoveExporter`, `Route`, `Count` | totals and gauge never drift from the table; the gate on the cached count hides no match; operations look atomic; nobody hangs |
| Endpoint tracker (`endpointtracker.go`) | `live` endpoints by observer, `totals` by series, the `observed_endpoints` gauge; a mutex | `track`, `untrack` | each series shows the number of endpoints reported in it, zero when the last one goes, whatever resyncs, retypes or is retracted twice |
| Observer handler (`observerhandler.go`, `exportermap.go`) | `exportersByEndpoint`; a mutex | `OnAdd`, `OnRemove`, `OnChange`, `shutdown` | no exporter leaks, none is stopped twice, routing follows the reports |
| Observer notifies (`observernotify.go`) | one subscription per observer | callbacks: the handler, then the tracker | gauge and routing agree once callbacks have settled |
| Creator lifecycle (`exporter.go`) | `watched`, handler, router | `Start`, `Shutdown` | Shutdown leaves nothing running, and returns |
| Consume path (`exporter.go`) | locals of each call; three non-routable counters | `ConsumeLogs`, `ConsumeMetrics`, `ConsumeTraces` | what nobody took is counted, once; what was taken is not |
| Exporter runner (`exporter_runner.go`) | `wrappedExporter`: a component per signal | `start`, `shutdown` | an exporter starts whole or not at all, and stops whole |
| Shared component, factory (`factory.go`, `internal/sharedcomponent`) | the map from configuration to creator; `startOnce`, `stopOnce` of each | factory calls, `GetOrAdd`, `Start`, `Shutdown` | one creator per configuration, started and stopped once, afresh when built again; surplus ones leave no telemetry behind |
| Property paths (second half of `router.go`) | none; the parser's position | `parsePropertyPath`, `resolveAttributeName`, `getNestedProperty` | a key spelled in a path is read back, and what it names is found |
| Config expansion (`config_expansion.go`, parts of `observerhandler.go` and `exporter_runner.go`) | none; the scanner's position | `evalBackticksInConfigValue`, `expandAny`, `removeNilValuesFromMap`, `loadRuntimeConfig` | what is between backticks is replaced and nothing else; an exporter sends to its own endpoint |
| Configuration (`config.go`) | `exporterTemplates` | `Unmarshal` | exactly the sound configurations are accepted |
| Rules (`rules.go`) | compiled programs | `eval` | external, expr's |
| Observers, child exporters, the collector, expr | external | | |

How they interact: each observer calls its `observerNotify` from a goroutine of its own; that calls
the one handler (under the handler's mutex), and then the one tracker (under the tracker's). The
handler calls the runner, then the exporter map, then the router (under the router's lock).
Pipelines call Consume concurrently; each resource is routed under the router's read lock, and the
exporters are called with no lock held. The collector calls Start and Shutdown on a goroutine of
its own.

What is hard: callbacks of several observers, pipelines and Shutdown interleave; the handler's work
on one endpoint is many steps over two tables; observers resync, share endpoint ids, or may not
drain on Unsubscribe; any exporter may fail to start, send or stop; cached totals stand for tables;
several pipelines start and stop one creator, and `sync.Once` does not remember that a start failed;
paths and templates are read character by character, with two ways to write every key.
`PROJECT.json` lists each hazard at its line with the properties that would catch it.

## Modules

```
TelemetryRouter <--EXTENDS-- ExporterCreator --INSTANCE--> EndpointTracker --INSTANCE--> ObservedEndpoints
      ^  ^                                                   (the detailed counter)      (what the gauge promises)
      |  +--EXTENDS-- Consume
      +--EXTENDS and INSTANCE-- RouterLock

ExporterRunner, SharedExporter              PropertyPath, ConfigExpansion, Configuration
  (each stands alone)                         ^--EXTENDS-- MCConfig (runs one of the three)

TelemetryRouterProofs <--EXTENDS-- ExporterCreatorProofs, ConsumeProofs
      ^--INSTANCE-- RouterLockProofs
EndpointTrackerProofs <--INSTANCE-- ExporterCreatorProofs
PropertyPathProofs <--EXTENDS-- ConfigurationProofs (of Configuration and ConfigExpansion)
LifecycleProofs (of ExporterRunner and SharedExporter)
```

**TelemetryRouter.** `routed` is the table, a set of registered exporters with their endpoint;
`count`, `byType` and `exportersCount` (the gauge, `-1` where a series was never recorded) are the
code's fields. `AddExporter` and `RemoveExporter` are single steps, `Route` an operator. Values of
attributes and properties are opaque; `AttributeText` and `PropertyText` stand for the two ways the
code renders them, so that `1` and `"1"` can agree.

**RouterLock.** The same operations as the code runs them: lock, write one field after another,
unlock; RLock, read the count, read the table, read the total again, RUnlock. Go's RWMutex is
external and modelled by its documented behaviour: a waiting writer keeps new readers out, and an
unlocking writer lets in all that wait. The module *implements* TelemetryRouter
(`ChangesAreAtomic == Atomic!RouterSpec`, with the fields as of the last unlock), which justifies
the single steps of the other modules.

**ObservedEndpoints** says what the observed-endpoints gauge promises, with no bookkeeping: each
series shows how many endpoints are reported in it now. **EndpointTracker** is the code's way, which
counts up and down as reports come and go; it is shown to implement the former.

**ExporterCreator** is the core. A callback is `Call` (the observer's goroutine enters), `Lock`, the
endpoints of the batch one by one, `Unlock`, and `Count` (the tracker). Removing an endpoint is
`TakeRemoved`, a `StopExporter` for each of its exporters, and `DropEndpoint` (router and map).
Adding one is `TakeAdded`, and for each template that matches `StartExporter` (the exporter runs and
is filed) and `Register` (the router); `StartExporterFails` stands for every early return of
`startExporter`. A change is a removal of the batch and then its addition, under one lock, as in the
code. `Start` subscribes to observers one by one (`ListAndWatch`), and callbacks come as soon as one
is subscribed. `Shutdown` is `BeginShutdown`, an `Unsubscribe` for each, `LockForShutdown`,
`StopExporter`s and `FinishShutdown`; like the code it empties neither the map nor the router.
Observers are external. They report only what they may (`Reportable`); they add what they have not
reported, change and remove what they have, one callback at a time. Four constants say what else
they may do: `Resyncing` (OnAdd again for what was reported, as it was reported), `Retracting` (OnRemove
for what was never reported or was removed before; of such an endpoint the code reads the id alone),
overlapping `Reportable` (two observers with one id), and `Drained` (the observers whose Unsubscribe waits for a callback under way;
`Draining` is that all do).

**Consume.** One machine for the three Consume methods, which differ in their signal alone: route
each resource (`GroupResource`), call each exporter with its group (`Send`), offer the unmatched to
the default exporters (`SendDefault`), and count and return (`Return`). The router changes at any
step (`RouterChanges`). A resource is a set of points. `Start` leaves `defaultExporters` empty today
(`exporter.go:86-92`); the tests fill it, and the model has it as a constant. The `router == nil`
guard is left out: `newExporterCreator` always sets the router.

**ExporterRunner.** `start` signal by signal: create (made, unsupported or an error), start, give up
or hand over; `shutdown` signal by signal. `StartMayFail` names the exporters whose components may
fail to start once created. Nothing starts or stops once the handler is closed (`Close`), as when
observers drain; what happens otherwise is ExporterCreator's, in `callback_after_unsubscribe`.

**SharedExporter.** The collector (external) builds a creator for each pipeline through the factory
(`CreateExporter`: construct, `GetOrAdd`, release the surplus one's telemetry), `Built` or
`CreateFails`; starts the pipelines, whose Starts overlap (`BeginStart`, and `StartStep`: the first
caller of `sync.Once` ends its Start, well or not, the others wait for it); and shuts all of them
down in turn (`ShutdownStep`), started or not. `Rebuild` lets it come back with the same
configurations, as after a reload, so that what the cache remembers matters. What a creator does in
between is ExporterCreator's.

**PropertyPath** is the parser of routing rules, character by character (five characters mean
something to it, the rest are any), and the walk down the endpoint's properties, which mix nested
maps, flat string maps and keys with dots in them. Its properties compare it with a spelling of keys
as paths, `SpelledPath`, which is not in the code: whatever can be spelled is read back.

**ConfigExpansion** is the scanner for backticks, character by character; the walk of a template,
place by place in any order, that drops places whose expression comes to nil or to an empty map
(`Void`) but keeps elements of lists; the choice of the endpoint (`observerhandler.go:189-219`) and its merge
(`exporter_runner.go`); and the resource attributes an exporter is routed by, which are expanded
after it has started. Expressions are external: each gives any value, nil or an error.

**Configuration** is `Config.Unmarshal`: rules in order, the exporters section (`MalformedSection` if
it is no map), then templates and the entries of their signals blocks in any order, the first error
ending it.

The `MC*` modules give the constants their values. `MCConfig` puts the three readers side by side,
a behaviour being one of any of them, since they share no state. Where a definition has a mutant (a plausible bug
in its place) the mutant stands before it, and a property that does not notice it would be worth
nothing; `PROJECT.json` pairs each property with one.

## Runs

| Run | Configuration | Shows | Bounds, and why they are enough |
|---|---|---|---|
| `creator` | `Creator.cfg` | Under well-behaved observers: every report is routed, one exporter per rule, none leaked, none stopped twice, nothing after Shutdown, and a run of the router's specification | 2 observers, 3 endpoints, 2 templates that both match some endpoint, 3 callbacks (`MaxCallbacks`): add, change and remove of one endpoint in sequence, or two observers at once, each against Shutdown at any step. 12 exporters, more than 3 callbacks can start |
| `creator_adverse` | `CreatorAdverse.cfg` | What holds for less well-behaved observers: the inductive invariant, routing only what is reported, exact counting, the promised gauge, and that every callback and every Shutdown returns | 2 observers of one type, so of one series, that share the one endpoint; one resyncs and drains, the other removes what it never reported and does not drain; failing starts; 3 callbacks, 6 exporters: the most they can start. With fairness |
| `consume` | `Consume.cfg` | Counted is exactly what nobody accepted, unless an error is returned; and under exporters that come and go at any step, the router's totals, gauge and routing agree with its table | A logs and a metrics pipeline, 2 calls (`MaxCalls`), 2 resources of 2 and 1 points, an exporter for both signals and one for logs, 2 types, 2 endpoints, 2 default exporters: matched, partly handled, unhandled and unmatched resources in one batch, each send failing or not. Endpoints, types and default exporters are symmetric: no definition tells them apart |
| `router_lock` | `RouterLock.cfg` | The locked, stepwise router implements the atomic one; Route sees one state; every call returns | 2 pipelines, 2 writers, 2 exporters: a waiting writer, a waiting writer behind it, and a reader of each side of it. No bound on steps |
| `runner` | `Runner.cfg` | Kept exporters are whole, stopped ones run nothing | 2 exporters, 3 signals, one exporter that may fail to start. Its end, all started and stopped and the handler closed, is a real one: deadlock is not checked |
| `shared` | `Shared.cfg` | One creator per configuration, started and stopped once, no telemetry left behind, what comes back is fresh, and a collector that closes releases everything | 3 pipelines of which 2 share a configuration; 3 builds (`MaxBuilds`), so that a configuration comes back after a failed build and after a shutdown; 9 creators, one for each factory call |
| `config` | `Config.cfg` | What is spelled is read and found; templates expand by substitution; an exporter's endpoint is its own; exactly the sound configurations load | Every path up to 5 characters (4 more after an opening bracket, 3 more after a bracketed key, or a dot and a bracket), and each spelling of up to 3 keys of up to 2 characters; every text up to 6 characters in one place of a template, and short ones in four; every pair of rules with a sound or a malformed section, every pair of templates with every signals block; one of the two values is an empty map |
| `resync_duplicates` | `CreatorResync.cfg` | *Violated*: a resync starts a second exporter | |
| `shared_endpoint` | `CreatorShared.cfg` | *Violated*: one observer's removal cuts off what another reports | |
| `callback_after_unsubscribe` | `CreatorNoDrain.cfg` | *Violated*: without draining an exporter outlives Shutdown | |
| `runner_leak` | `RunnerLeak.cfg` | *Violated*: a failed start leaves siblings running | |
| `dotted_attribute` | `DottedAttribute.cfg` | *Violated*: a resource attribute whose key has a dot in it cannot be named by a rule | |

The five violated runs are disagreements of the code with what the repository says of it, each
quoted in `PROJECT.json` under `findings`:

* A repeated `OnAdd`, which `endpointtracker.go:54` says observers make to resync, creates another
  exporter for the same endpoint and template, against "One exporter is created per endpoint the
  rule matches" (`README.md:75`).
* Exporters are filed by endpoint id alone. When two observers report one id, as
  `observernotify_test.go:182` allows, either's removal stops both's exporters, while the gauge goes
  on reporting the endpoint.
* Nothing marks the handler closed. If an observer's Unsubscribe does not wait for a callback under
  way, that callback may start exporters after Shutdown is through, against `exporter.go:144`. With
  the observers of opentelemetry-collector-contrib this depends on what their Unsubscribe waits for,
  which is outside this repository.
* `wrappedExporter.Start` goes on after a component fails to start; `exporterRunner.start` then drops
  the wrapper without shutting it down, so the components that did start run for ever.
* "`resource_attributes` are routable" (`README.md:312`), but one whose key contains dots, such as
  `service.name`, is filed as one key at the top of the properties, and a path can begin neither with
  a key that has dots nor with a bracket, so no rule reaches it.

## Fairness

`creator_adverse` (`Fairness` in ExporterCreator): weak fairness of the handler's steps, of the end of
a callback and of Shutdown's end, because a goroutine that can run does run and starting or stopping
an exporter is assumed to return; strong fairness of taking the handler's mutex and of an
Unsubscribe that waits for callbacks, because a `sync.Mutex` in starvation mode serves those who
wait in turn. Nothing obliges an observer to call, or the collector to shut the creator down.
`router_lock`: weak fairness of each goroutine inside a call, strong fairness of the writers' mutex;
nothing obliges anyone to call.
`shared`: weak fairness of each Start and each Shutdown under way, and of the shutdown of each
pipeline once the collector is closing, which its service runs through to the end; nothing obliges
it to build, to start or to close.

## Proofs

All proofs are checked by TLAPS to the last leaf. They hold for every value of the constants that
satisfies the `ASSUME`s of the module, which TLC evaluates in every run. Every safety property that a
passing run checks, refinements included, is stated by a theorem.

**TelemetryRouterProofs.** `RouterInv` (types, totals, gauge) is inductive; the work is in the lemmas
on cardinalities when an exporter is added and when all of an endpoint's are removed. It gives
`CountsAreExact`, `GaugeIsExact` and `RoutingIsExact` (the gate on the count hides nothing).

**ExporterCreatorProofs.** The safety properties of the handler are not inductive as they stand: that
the router mirrors the handler's map depends on what the holder of the mutex has in hand, and that
nothing outlives Shutdown on callbacks having drained. `HandlerInv` adds `FrameInv` (one endpoint at
a time; when no callback holds the mutex nothing is in hand), `FiledInv` (an exporter is filed under
one endpoint from its start on; what is filed runs unless its removal, or Shutdown, has come to it)
and `DrainInv` (what Shutdown will stop is what runs). Each conjunct has a lemma with one step per
action. From `HandlerInvariant` follow `TypesHold`, `RouterMirrors`, `NoneIsStranded` and
`RoutableRuns` for any observers whatever, and, if observers drain, `ShutdownIsComplete` and
`StoppedOnce`. `HandlerDrivesRouter` is the refinement: every run of the handler is a run of
`RouterSpec`; in particular it never registers what is registered. Through it the router's theorems
carry over (`CountsAreExactUnderHandler`).

**ConsumeProofs.** A call is many steps, between which the router changes; the counter it adds to at
the end is the sum of what it noted on the way. `CallsInv` says where each resource of the batch is:
not yet routed, on its way to exporters, accepted, or matched by none, one of these at a time
(`HandsInv`); and that what `unroutable` has counted so far is the points of some resources in none of
these, which unless an exporter failed are all the others (`LostInv`). A resource is a set of points and
no two share any, so that their numbers add up (`NumbersAdd`). From it, `CallsKeepTypes` and
`WhatIsLostIsCounted`. Calls write nothing of the router, which therefore runs as it does alone
(`ConsumeDrivesRouter`, a lemma), and its theorems hold with calls under way
(`RouterIsExactUnderCalls`). The theorems assume that points are
finitely many and belong to one resource (`ResourcesType`), and that each pipeline has a signal
(`PipelinesType`).

**EndpointTrackerProofs.** `TrackerInv`: types, exact totals, and that a series never recorded has no
reports. What a batch does is a difference and a union of sets of reports (`TrackReports`,
`UntrackReports`): what is counted down was there and what is counted up was not, so counting is
exact whatever the batch repeats or withdraws (`CountingIsExact`), by the library's theorems on
cardinalities. From it, `TotalsAreExact`, and `TrackerKeepsPromise`: every step is one of
ObservedEndpoints. The subtle part is which series are recorded: the code records those it counts
up, the promise those the batch names, and the invariant closes the gap (`SkippedIsShown`: an
endpoint that is skipped is of a series shown before). Its theorems assume `TrackerConstants`.

With these, ExporterCreatorProofs goes on to the reports. Every run of the creator runs the tracker as
its own specification has it (`TrackerRuns`), so the gauge keeps its promise under the callbacks
(`GaugeIsTrueUnderCallbacks`). `CountedInv` says what the tracker and a callback under way hold
between them; it gives `ReportsAreCounted`: though a callback is counted after it let go of the
handler, and others come in between, the tracker ends up with what each observer reports.

It also proves that routing equals what is reported. `HandInv` ties what the holder of the mutex has
in hand to its batch. `JustifiedInv`: every entry of the table is reported, or its removal waits or
is under way; so `NothingElseIsRouted`, for observers that may race, share endpoints, resync and
retract what they never reported, as long as they report a change by OnChange: a repeated OnAdd
repeats what was said, since the handler would keep the exporter it has beside the new one.
`ReachedInv`: every template that matches a reported endpoint has its entry, or is on its way there
(called, to be added, untried, just started); so `ReportsAreRouted`, if observers have endpoints of
their own (`Owned`) and exporters start. `FreshInv`: what is to be added is not in the table yet
(which needs `JustifiedInv`: what is not reported is not routed); so `RulesHaveOneExporter`, if
observers do not resync either and the types of templates differ. These premises are needed: the
runs `shared_endpoint` and `resync_duplicates` show what happens when endpoints are shared and when
observers resync.

**LifecycleProofs** has the two components that stand alone. Of ExporterRunner, `RunnerInv` relates
what is made, pending and running at each stage; it gives `KeptExportersAreWhole`,
`StoppedExportersRunNothing`, `ShutdownStopsWhatStarted`, and `ShutdownStopsEveryComponent` if
components that are created start. Of SharedExporter, `SharedInv` relates what the cache, the
`sync.Once`s, the creators and the pipelines each know: a cached creator was not stopped and belongs to
its configuration (`CacheInv`), a pipeline's creator is the cached one until it is stopped (`HeldInv`),
one caller at most is inside a Start or a Shutdown (`StartInv`, `StopInv`). It gives the five safety
properties of the run.

**PropertyPathProofs.** The parser goes by characters and flags, the reference by sequences of
sequences, flattened. The first part has the lemmas on these: what `FlattenSeq`, a recursive function,
does with one more sequence (`FlattenSeqAppend`), and where in the whole each piece lies (`Offset`,
`PiecesLie`). They need induction, and the library's theorem of it takes a predicate, which the provers
cannot instantiate; `Induction` has a *set* of numbers in its place and follows from `<` being well
founded. Types and the walk down the properties are `PathInv`, whence `PathKeepsTypes` and
`LookupIsExact`: the walk may give up at the first node that holds no others, because the properties
are a tree (`PropertiesAreTree`). That paths mean what they say is two invariants, one for each
direction. `SpellingInv`: what has been read so far is a spelling of the keys read and of the part of a
key the parser is in (`Pending`), so what is accepted is a spelling of its keys. `MeantInv`: of a path
that spells some keys, the parser has read the first of them and stands at the character of the next
that its flags say (`InKey`), wherever that is in brackets, in an escape or in a name; so it refuses
nothing that was spelled (`MeantIsNotRefused`) and reads what was meant. Together, `WrittenIsRead`;
and with the walk, that a rule whose path is spelled this way finds the property it means
(`MeantIsFound`).

**ConfigurationProofs.** `ConfigurationInv` says of every moment which rules and templates have been
read and were sound; at the end that is all of them (`SoundIsLoaded`), in any order. Of ConfigExpansion,
`StageInv` says what is being expanded at each stage of `startExporter`, so that the endpoint that was
settled on is not touched afterwards (`ConfiguredEndpointIsOwn`). `ScanInv` says what the scanner has
done of the text so far (`ScannedTo`): it is in an expression when the backticks before it are odd in
number, it has one value for each expression that has ended, and has written the pieces of the text up
to there; `NotEscaped`, that it is never in the middle of an escape, is what makes its backticks the
unescaped ones. At the end of the text that is well-formedness and substitution. That the type of a value
is kept exactly when the text is one expression is a count: one value and nothing besides was
written, so every other piece is empty (`OnlyTheLastIsLong`), so the two backticks are the first and the
last character (`TypedIsOneExpression`). Together, `TextsAreSubstituted`. It assumes that marks are not
plain characters and that every template has a target to fall back on (`TextsAreText`), and that a
resource attribute is a place of its own (`PlacesDiffer`).

**RouterLockProofs.** `LockInv` has five parts. `PlaceInv`: nobody is inside while a writer writes, and
at most one writes. `WriteInv`: the fields are what is committed, changed as far as the writer is
through its order (`WrittenBy` has one disjunct per place in either order). `AdditionInv`: what is to
be added is not registered, by any writer, so that the commit is one of the router's own additions.
`TableInv` keeps the table finite. `AnswerInv`: a Route past the gate saw a count that still holds.
Each action has a lemma; `ReaderKeepsInv` has what the four steps of a reader share, and
`UnlockCommits` shows that releasing the lock is one operation of TelemetryRouter. It gives
`RoutesAtomically` and the refinement `ChangesImplementRouter`. Through the refinement what is proved
of the router holds of what is committed (`CommittedInvariant`), and hence of the fields: `LockKeepsTypes`;
`ExactWhenUnlocked`, that totals and gauge agree with the table whenever no writer is inside; and
`RouteReturnsWhatMatches`, that a Route returns exactly what matches, the gate notwithstanding. It
needs that pipelines and writers are different goroutines (`LockSentinel`), that no property is the absent
value (`AbsentIsNoValue`) and that rules are pairs of an attribute and a property (`RulesType`).

**Only model-checked:** the five liveness properties (`CallbackReturns`, `ShutdownReturns`,
`RouteReturns`, `ChangeReturns`, `ClosingReleases`) and the absence of deadlock, which need fairness or
`ENABLED`, beyond these provers; and what the five violated runs show, which is a counterexample
each.

## Not modelled

* Rules are the sets of environments they match; expr evaluates them, as it does the expressions of a
  template. Which configuration a library or a child exporter's factory accepts is a given fault or a
  nondeterministic error.
* How values are rendered as text (`AsString` of an attribute, `toString` of a property in the router):
  the constants `AttributeText` and `PropertyText`.
* `Config.Unmarshal` of no configuration at all, which returns at once, and of one the library cannot
  decode into the struct, whose error it returns before anything is read.
* Observers beyond what they may call; the child exporters beyond whether a call of theirs fails.
* Logging, including the once-only warning of unsupported signals, and the generated telemetry code
  (`internal/metadata`), which only registers instruments.
* That a discovered endpoint gives way to the template's own (`exporter_runner.go:179-182`):
  `startExporter` discovers one only if the template has none, so this is never reached. And what is
  inside a map that an expression gives: it is empty or not, and loses its nil members unseen.
* What becomes of a send to an exporter that a callback has stopped: Consume lets exporters come and go
  between grouping and sending, and any send succeed or fail, whatever the reason.
* Errors of `runner.shutdown`, which are logged or returned but change no state.

## Plan

1. *Done:* router, tracker, handler and creator lifecycle, Consume, runner, the router's lock.
2. *Done:* SharedExporter; PropertyPath, ConfigExpansion and Configuration.
3. *Done:* the proofs above, of every safety property that is checked.
4. Composition of Consume with ExporterCreator: what a pipeline may still send to an exporter that a
   callback has stopped. Consume lets exporters come and go at any step, but not fail because they
   are stopped.
5. Proofs that carry over: the router's lock under ExporterCreator's callbacks, which today are shown
   against the atomic router (`HandlerDrivesRouter`) that the lock implements (`ChangesImplementRouter`).
