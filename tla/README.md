# gonka-proxy in TLA+

gonka-proxy takes OpenAI-style requests on two inference endpoints and forwards
each to one of several upstream providers. A provider that fails is put on a
cooldown and the request goes on to the next; when none is left the request
falls back to another route or waits for recovery. All requests share the
cooldowns, clients come and go, upstreams stall and break off, and an operator
switches providers off. This project models that core, checks it with TLC on
small instances, and proves its main safety properties with TLAPS for all
values of the constants.

File names without a directory are those of `internal/proxy`; line numbers are
those of the commit the models were written from. `PROJECT.json` gives the
source lines of every definition.

## 1. The system

| Part (source) | State | Operations | What makes it correct |
|---|---|---|---|
| Cooldowns and Recovery Wait (`server.go` 694-753, 948-965) | per provider `cooldownUntil`, `cooldownVersion`; the server's `cooldownVersion`; all under `cooldownMu` | check availability, mark, snapshot versions, wait, clear | a failed provider is left alone for what it has earned; a waiter brings back only what it saw benched |
| Routing and failover (`server.go` 241-328, 434-692) | per request: route, visited routes, position, `lastFailure`, what the client has got | arrive, enter a route, skip, attempt, fail over, relay, bench, fall back, wait, give up | one reply per client; clients that leave bench nobody; failures are reported for the route that failed; fallbacks end; every request ends |
| Classification of answers (`server.go` 1121-1299) | none | is a status, an error body, a completion a provider failure | as documented in `GLOSSARY.md`, with the exceptions found below |
| Stream forwarding (`server.go` 755-878) | the `[DONE]` detector, the write position | forward, observe, end, break, cancel | the end of a stream is judged by what the client received |
| Configuration and routes (`config.go`, `server.go` 88-203) | none after the start | validate, build routes, resolve the route of a model | only configurations whose routes can work and whose limits mean something are accepted |
| Provider state and brokerctl (`providerstate.go`, `cmd/brokerctl`) | the state file | enable, disable, load, filter the configuration | the file follows the commands; the rest of the configuration keeps working |
| Process life cycle (`cmd/gonka-proxy/main.go`) | tracked requests, `canceled`, the server | start, wrap a request, cancel all, drain, time out | after SIGTERM nothing routes on and the process ends |
| Health history (`health.go`, `metrics.go` 123-176) | counts, times, cooldown per provider; events; a JSON file; all under a lock of its own | record, prune, save, load, grade | what a crash can lose is bounded; what `/diagnostics` says fits the traffic |
| Published model limits (`server.go` 382-432, `limitscheck`) | none | combine the limits of the providers of a route, report gaps, compare with live capacities | who relies on a limit that was verified is not turned away; what the proxy and the tool call the limit of a route is the same |
| Request rewriting (`server.go` 909-946, 1312-1510) | none | expand the references in tool schemas, choose the reasoning effort of a provider | a request is refused only if its tools are no array or their schemas cannot be expanded; these keep their meaning, and tools of another shape are left alone; the closest setting wins |
| Metrics (`metrics.go`) | counters and a histogram per provider under a mutex | count, render | the counters fit together at every scrape, every attempt has one result, `/health` tells the same story |
| Diagnostics (`diagnostics.go`) | none | grade the traffic, list gaps in the limits, GET every provider | the grades rest on all recent traffic; a gap that can hurt is listed |
| Benchmark, smoke tests, scripts | none | measuring and installing | not modelled: share nothing with the proxy but the configuration |

How the parts meet. `main` loads `config.yaml` and the state file, filters the
one by the other and gives the result to `NewWithLogger`, which builds the
routes. `net/http` runs one goroutine per request; the tracker in `main` wraps
it. The goroutines share nothing of the routing but the cooldowns (and the
health and metrics records, which the routing never reads). `client.Do`
and the reads of bodies carry the context of the client's request, so that a
client that leaves, or a shutdown, ends them. `forwardStreamingResponse` gives
its verdict back to `route`, which may bench the provider after the client has
already got its reply.

What is hard about it, and where each is dealt with:

* the clock is read before the lock is taken, versions are compared a whole
  Recovery Wait after they were read (`Cooldown`);
* availability is checked under the lock and used after it, so that a request may reach a provider that has
  been benched in between (`Routing`: `Select` and `Attempt` are two steps);
* a client's departure makes the same errors appear as a broken upstream, at
  every point of the request (`Routing`, `Stream`);
* a stream fails after the reply has begun (`Routing`);
* the body of an answer breaks off, and what was read of it is all there is to judge by (`Routing`);
* the timer of a Recovery Wait fires while the client is leaving (`Routing`);
* `lastFailure` survives across providers, passes and, unless it is reset,
  fallback routes (`Routing`);
* `[DONE]` straddles chunks, lines are too long, or are not finished (`Stream`);
* a request comes in while all are being canceled; a handler is stuck
  (`Shutdown`);
* commands overlap or die between reading and renaming; a filtered
  configuration may mean something else (`ProviderState`);
* the history is told of everything after the fact and out of order, is saved lazily, and the
  process may end at any time (`Health`);
* the metric calls of an attempt are made one by one, in seven places, while others make
  theirs and scrapes come in between (`Metrics`);
* references go round in a circle, lead nowhere or stand beside other keywords; a setting
  that is null is not one that is absent (`Rewrite`);
* `limits-check` decides by code of its own, on `config.yaml`, what a proxy publishes that
  may run with fewer providers (`Limits`).

## 2. The modules

| Module | Models | Extends / uses |
|---|---|---|
| `Bench` | the abstract promise of the cooldowns: providers out of use, requests that wait, neither clock nor version | |
| `Cooldown` | the cooldowns with clock, locks and versions; implements `Bench` | `INSTANCE Bench` |
| `Config` | `Validate` and the routes `NewWithLogger` builds | |
| `Verdict` | how an answer is classified | |
| `Routing` | `ServeHTTP` and `route` for any number of concurrent requests; composes the three above, implements `Cooldown` | `Cooldown`, `Config`, `Verdict` |
| `Stream` | `forwardStreamingResponse` and its `[DONE]` detector, byte by byte | |
| `Shutdown` | the end of the process: signal, tracker, drain, deadline | |
| `ProviderState` | the state file, brokerctl, `FilterDisabledProviders`, starts and stops of the proxy | `Config` |
| `Limits` | the floors the proxy publishes, the gaps it reports, `limits-check` and its probes | `ProviderState` |
| `Rewrite` | the tools and the effort each provider is sent | |
| `Metrics` | the calls an attempt makes to the counters, the histogram, and the history's share of them | |
| `Health` | the history: records out of order, saving, crash and restart, the grades of `/diagnostics` | |
| `MC...` | instances for TLC | |
| `StreamProofs`, `ShutdownProofs`, `HealthProofs`, `MetricsProofs`, `RewriteProofs` | the proofs about the module of that name | it |
| `ConfigProofs` | lemmas about orders, the sort, what is kept of a sequence, and configurations | `Config` |
| `RoutingProofs` | the proofs about the cooldowns and the routing that uses them | `Routing`, `ConfigProofs` |
| `ProviderStateProofs` | the proofs about the state file, the filter, and the limits | `Limits`, `ConfigProofs` |

### State and actions

**Cooldown.** Instants are stored as the time that is left to them, so that the
state space is finite; 0 is every instant that has passed. `Stamp` reads the
clock for a provider that has failed, `MarkCooldown` takes the lock: other
requests may come between. `BeginWait` takes the snapshot and starts the timer
(no other goroutine can tell these two apart, as neither is visible to it),
`ClearCooldowns` is the end of the wait, `CancelWait` its cancellation. `Tick` is time;
nothing in the model is urgent, so every step may come arbitrarily late. `owed`
is a history variable: how long a provider must still stay out of use for the
failures it has had.

**Routing.** `req[r]` holds the local variables of `route`; `pc` says where the
goroutine is: `route` (the head of the loop over routes), `pass` (the loop over
providers), `send` (has found the provider available, and is writing the request to it), `upstream` (the
upstream has the request, `client.Do` waits for the headers), `body` (reading a body), `stream` (reading a stream),
`write` (writing headers or a chunk of a stream to the client), `relay` (writing a whole answer), `mark` (has
read the clock, has not got the lock), `wait`, `clear` (the timer has fired, the context has been looked at,
the lock has not been taken). Each action runs
from one point at which another goroutine can be noticed to the next. `Select` is the check of availability, after
which the lock is free and others may bench the provider; `seen` keeps, as history, the version the provider had then. The
choice of outcomes is the upstream's and the client's: `Attempt`, `DoFails`, `FailoverStatus`, `AwaitBody`,
`StartStream`, then `BodyRead`, `ErrorBodyFails`, `BodyFails`, or `ReadChunk`,
`StreamEnds`, `StreamBreaks`; `AnswerWritten`, `ChunkWritten`, `WriteFails` for writes to the client. `RefuseRequest` stands for what
`ServeHTTP` turns away before `route`. The providers of a route are
looked up in `RouteTable`, made once of the configuration, as `NewWithLogger` makes `Server.routes`. `Cancel` may come at any time. An
error of the connection is possible either because the request has been canceled or
because the provider is at fault (`ConnectionError`), and only the second
counts in the history variable `faults`; the code cannot see which it was, it
looks at the context. `ChunkWritten` leaves open whether and when a stream has shown
its `[DONE]`; `Stream` says exactly when. (`sawDone` may become false again
when an unfinished last line goes on; since it need never become true, the
outcomes `Routing` allows include that.)

**Verdict.** The text searched for in an error body is abstracted to the *hint*
it contains. A body that breaks off shows what was read of it, which is either
its hint or none.

**Stream.** The detector takes bytes one by one, so a chunk is a run of `Forward`
steps; a chunk whose write fails is a `WriteFails` step. `current`, `doneLine` and
`missing` are the client's view, kept as history to judge the detector by.

**Shutdown.** One action per step of the main goroutine and of `wrap`; `Collect`
and `CancelOne` are the two halves of `cancelAll`, inside and outside of its
lock. That the server's context also derives from the signal's context is in
`ContextEnds`, which may happen but is never relied upon.

**ProviderState.** `ReadState` is `runToggle` up to the load of the file, `Replace`
the rename (and the report of success), `Abandon` a failure or death before it.
The file is what `LoadProviderState` makes of it, a set of names. Three history variables judge it: `missed`, per command,
the other names that have been changed since it read the file; `undone`, the names whose last change a command that missed it has overwritten; and `wanted`,
which of the others are disabled if every change that was reported stands.

**Health.** An outcome of a request leaves it with the calls it has to make (`todo`);
for each, `ReadClock` and then `Record`, or `Mark` for `markCooldown` itself, with anything
in between. `Record` is the whole critical section: update, prune, and save if that is
due, which may fail. `Crash` forgets everything but the file, `Start` loads it.
Without a path (`Persistent` is FALSE) nothing is saved or loaded.
`benchedUntil` is the routing's side of a cooldown; which providers are benched or
cleared is left open, as `Cooldown` says it. `log`, carried along by the history and its
file, is all that has been recorded, and serves to judge what pruning has left. `inherited` is
what a start has found in the file: the routing begins without cooldowns, the history with those
of the process before it.

**Limits** has operators, no state of its own. What `/v1/models` says (`Published`) and what
`limits-check` computes (`CheckedFloor`) are two definitions, as they are two pieces of code;
the properties compare them in the states of `ProviderState`, which supply the configuration of
the file (`base`) and that of the running proxy (`proxy`), for every outcome of the probes.

**Rewrite.** The tools of a request are absent, malformed (no array) or a sequence. Only a *nested* tool, one with an object `function` with an
object `parameters`, is looked at: `normalizeTools` passes over every other, among them all tools of the Responses API, which have their parameters at
the top level and are sent with whatever references they have. The parameters of a nested tool are flat: a root and the schemas at its places, which are JSON pointers. A schema is a record of
what it states itself, the place its reference leads to, and the places of its parts, those of its `allOf` and those one level
below it. What a reference finds nothing or no schema at has no place; both are errors in the code. A call of
`expandSchemaNode` is a place and the set of references being resolved; `Expand` is the recursive function from calls
to results, each a schema whose parts are calls again or an error, so that the document sent is flat too, its places being
the calls (those that `ExpandParameters` does not come to are there as well and change nothing). A target that has joined an `allOf` is
expanded a second time; as nothing is left in it to follow (`NothingToFollow`), that gives what it was (`NothingToFollowIsKept`). `Send` builds what the next provider is sent
from the request as it came in, as `route` does on every attempt. `Meaning` and `Sound` are definitions to compare with: what a
schema demands at which depth, and whether all references can be followed (`Sound` asks for a
set of places that leads nowhere else and has no circle, not for a search).

**Metrics.** `at[r]` is the attempt of a request, `todo[r]` the calls it has still to make.
How an attempt can end are the sequences `Failure`, `Refusal`, `Success`, `Aborted`; each `Call` is one critical
section, and a call that tells the history as well is two. `Answers` is the early count of a 200, before
its body is read. `lost` counts the attempts that end without a result because the client has gone, or because
the request cannot be encoded.

## 3. What is checked

| Run | Instance | Shows |
|---|---|---|
| `cooldown` | 2 providers, 3 requests, cooldown 3, wait 2, 4 markings | `EarnedBench` under every interleaving of clock, lock, wait and clear; `ClearsWhatItSaw`: the versions implement `Bench`; the proofs' invariant `CooldownInv` |
| `routing_legacy` | 2 requests, 2 providers without routes, cooldown 3, wait 2, 3 faults | `AttemptsRespectBench` (end to end: a request makes for a provider that still owes time only if the failure was reported after its check), `CanceledWaitsClearNothing`, `RoutingInv` |
| `routing_routes` | a route with a fallback, a configuration that `Validate` refuses, 5 kinds of call, 6 of answer | `RepliesOnce`, `FailureIsOfThisRoute`, `FallbacksEnd`, `CancellationBenchesNobody`, `RoutingInv` |
| `routing_live` | one provider with and without routes, so that a single failure leaves nobody | `OnlyBodiesStall`, `CancellationEnds` under fairness |
| `stream` | a five-letter alphabet, `[DONE]` lines of two and three letters, lines of up to 7 | `DetectsDone`, `VerdictFits`, `DetectorInv` |
| `shutdown` | 3 requests | `NoneRoutesOn`, `SignalEndsProcess`, `ShutdownInv` |
| `provider_state` | 2 commands, 4 configurations, 3 providers and a retired name; every probe finds nothing or one of two capacities | `OnlyOverlapsUndo`, `KeepsRoutes`, `StartsIfAnythingLeft`; `SameFloors`, `VerifiedFloorsServable`, `GapsAreListed` |
| `health` | 2 requests, 2 providers, 3 outcomes in 3 instants, history of 2 events, one disk fault, any number of crashes | `OnlyFreshSuccessesLost`, `GradesTraffic`, `CooldownsHaveReasons`, `CutOnlyByRecord`, `ShownOnlyIfBenched`, `HealthInv` |
| `rewrite` | all schemas of two definitions with one constraint, one reference and one schema below each, under two roots; pairs of tools, nested or not, with a good reference, a dangling one or a circle; tools that are absent, malformed or none; all settings of the effort, for two providers tried in turn | `RefusesOnlyUnsound`, `SchemaKeepsMeaning`, `EffortIsClosest` |
| `metrics` | 2 requests, 2 providers, 3 attempts, 2 buckets and durations on, between and above their bounds, and below zero | `ScrapesAddUp`, `OneResultEach`, `HistoryAgrees`, `BucketsCount` |
| `failure_status` | every provider may return an empty completion | **violated** `FailureIsNoSuccess` |
| `removed_routes` | one route with one provider, another provider with a scalar alias | **violated** `RemovedRoutesRefused` |

Every property of a passing run has a mutant in `PROJECT.json`: a plausible bug, kept as a
"faulty variant" beside the definition it would replace, with which TLC
finds the property violated.

### Bounds, and why they are enough

* `MaxVersion`, `MaxFaults` bound how often providers are benched and upstreams
  fail. What goes wrong with versions needs a failure before a snapshot, one
  after it and a second waiter; the runs allow one more than that or have a
  third request for it.
* Durations are small, but cooldown and wait differ, so that a cooldown may end
  before, with or after a wait; steps may be late by any amount.
* Two providers are enough for "the next one", for a skipped provider that is
  available again and for a version shared through the global counter. Two
  requests interfere pairwise in every way; the third in `cooldown` is for two
  waiters and a marker.
* `Persistent` is TRUE in the runs; without a path there is nothing to lose or to load, and the proofs cover both.
* `MaxLine` is larger than `LineMax` + 1, so lines exceed the detector's buffer
  and are finished and followed by others; the detector does not distinguish longer ones.
* Three requests suffice in `shutdown`: one tracked, one collected and one that
  begins while the others are being canceled.
* In `health` the history holds two events and they age in one instant, so that three records
  overflow it and one tick makes an event old.
* In `rewrite` two definitions that may refer to each other, to themselves, to a part of the first or to
  a name that is not defined make every kind of circle and dead end, reached from the root or not, beside other keywords or
  alone. A longer circle is a longer path through the same cases of `ExpandCall`, and a theorem covers it.
* In `metrics` two attempts may be at the same provider at once, and a third follows one of them.
* The capacities 0, 1 and 2 of `provider_state` are unknown, less than and as much as what is declared.
* The four configurations of `provider_state` have a chain of fallbacks whose lists name who does not serve and omit who does; a
  last route that can go; no routes; and a route named like the implicit one of legacy mode.
* Symmetry is used for requests, for commands, and in `cooldown` and `health` for providers, never
  with a liveness property, and only where constants do not tell the members apart.

Deadlock is checked except in `stream`, `shutdown`, `rewrite` and `metrics`, where the stream, the
process, the providers of a request or the attempts come to an end: in the other models time, new requests
or new commands always go on.

### Fairness

`FairSpec` of `Routing` assumes: time passes; a goroutine that can take a step
by itself takes it (`ProxyStep`); `client.Do` returns once the request is with the upstream (`Answered`: the
transport has a `ResponseHeaderTimeout`, which starts when the request has been written); a canceled context
breaks off a `client.Do`, the read of a body or of a stream (`CancelUnblocks`, what `net/http` does; strong fairness, as a
stream may go back and forth between reads and writes). It does not
assume that the request is ever taken by the upstream, that a body or a stream ends by itself, or that a write to the client
returns at all: `main.go:77-83` sets no `WriteTimeout`, and canceling a request does not unblock a handler that writes to a client
that does not read. `OnlyBodiesStall` says that these transfers are the only places where a
request may stay for good, and `CancellationEnds` that of a canceled request only the writes to its client remain. Nor is it assumed that providers work: the
bound on `faults` makes them work in the end, which is what a progress property
has to presuppose. `FairShutdown` assumes that the main goroutine is scheduled
and that its timer fires; handlers need not return.

### Sizes

Distinct states: `cooldown` 53,091; `routing_legacy` 943,842; `routing_routes` 588,812;
`routing_live` 90,768; `stream` 327,936; `shutdown` 10,554; `provider_state` 340,992; `health` 1,070,139;
`rewrite` 52,092; `metrics` 547,723 (each within four minutes with two workers). The violated runs stop at the first counterexample.

## 4. What is proved

All theorems are for any number of requests, providers and routes, any
durations and any set of answers; the assumptions are those named with the
constants (`ASSUME`): durations are positive, as `config.Validate` enforces, null values
are not real ones, and the bounds are numbers. Configurations are what decoding can
give (`IsConfig`: sequences are sequences, priorities are integers, limits natural numbers, routes finitely many);
whether they are valid is up to `Valid`. `Routing` adds that the
requests are finitely many and that the providers of a valid configuration have an upstream among `Provider`; `Limits`
that capacities are natural numbers; `Metrics` that the bounds of the histogram increase and are not negative, as
`metricLatencyBuckets` does, and that requests and durations are finitely many; `Health` that
requests and providers are finitely many; `Rewrite` that a document is a finite tree, the part of a schema at a longer pointer than
the schema, as JSON is, and that the global effort is set, which `Load` requires.

* **`CooldownInvariant`, `EarnedBenchHolds`.** `EarnedBench` is not inductive: a
  waiter with an old snapshot could clear a provider that still owes time. The
  missing part is `SnapshotBound`: if a provider has the version the waiter saw,
  then it owes no more than the waiter has left to wait. It is
  maintained because a marking takes a version no snapshot has (versions are at most
  the server's counter) and because both sides shrink with time.
* **`CooldownImplementsBench`.** The refinement `Cooldown => Bench`, one lemma per action. A
  waiter's *fresh* providers are those whose version differs from its snapshot.
* **`RoutingImplementsCooldown`.** Every step of a request is a step of
  `Cooldown` or leaves it alone; with it the two theorems above hold of the
  routing as well.
* **`AttemptsRespectBenchHolds`.** `Checked`: as long as the provider still has the version it had at the check it owes no
  time, for its debt only falls with time and rises only with a marking, which takes a new version. At the check itself
  that is `EarnedBench`.
* **`RepliesOnceHolds`, `FailureIsOfThisRouteHolds`, `CanceledWaitsClearNothingHolds`.**
  From `RequestsInv`: the type invariant, the agreement of the two components,
  where a request is on its route (`Placed`), and that `lastFailure` accounts
  for the attempts on the current route (`Accounted`).
* **`FallbacksAlwaysEnd`.** `Validate` gives a ranking that fallbacks descend;
  `FallbackInv`: every request is past the routes it has visited in that
  ranking. So the second guard in `route` (`route-revisited` in the model)
  never fires.
* **`RoutingInvariant`, `OnlyFailuresBench`.** `BlameInv` counts the providers benched
  and the requests that will bench one (those that have read the clock and those reading
  the body of a failure): there are never more than upstream faults.
* **`DetectorInvariant`, `DetectsDoneHolds`, `VerdictFitsHolds`.** The detector's
  buffer is the current line as long as that has at most `LineMax` characters,
  and says "too long" from then on; no longer line can be a `[DONE]` line.
* **`ShutdownInvariant`, `NoneRoutesOnHolds`.** A running request is canceled or known to
  the tracker, or, after `cancelAll` has closed it, among those it is about to cancel.

* **`OnlyOverlapsUndoHolds`.** `OverlapInv`: what a command is about to write is what it was told of its own names, and differs from
  what is wanted only in names that it has missed or that are undone already. It holds for any configurations and first file.
* **`KeepsRoutesHolds`.** The routes of a running proxy were filtered and then sorted; `KeepsRoutes` says that this is what
  sorting and then filtering gives. Neither is a recursive definition here: `InOrder` puts the members of a finite set at the
  places that the number of those before them gives, `ByPriority` and `Kept` are `InOrder` of indices. `ConfigProofs`
  shows that `InOrder` is a bijection that increases, and that any sequence which increases and has
  the same members is equal to it; so two ways to make a list agree when their members and their order do. The invariant needed is only that the proxy
  runs with what the filter has made of a valid `base`.
* **`StartsIfAnythingLeftHolds`.** `Validate` conjunct by conjunct. The one that is not local is that fallbacks
  have no circle: the ranking of the old routes may have gaps among the routes that are left, and is replaced by each route's
  number among them.
* **`SameFloorsHolds`, `VerifiedFloorsServableHolds`, `GapsAreListedHolds`.** The members of `RouteProviders`
  are those `limits-check` looks at, whatever their order, and a floor depends on members only. For the gaps: the providers of the proxy
  are some of those checked, so one with a lower capacity than is published has either declared more than that, which
  `limits-check` would have reported, or declared nothing, which is what `/diagnostics` lists.
* **`ScrapesAddUpHolds`, `OneResultEachHolds`, `HistoryAgreesHolds`.** None of the three is inductive: a scrape sees a counter and not the
  calls still to come. In `CountersInv` every call that tells of an outcome is *owed* exactly from the moment its cause is counted
  (`EffectsFollow`: what a counter has, and the attempts that owe it, add up to its causes), every attempt
  has a result, is lost, or will have one (`ResultsSettle`), and a success comes after its 200 (`SuccessesAnswered`). That the ways an
  attempt can end keep to this, each effect once and after its one cause, is `PlansAreOrderly`, looked at once
  for the seven sequences of calls; the actions only use that.
* **`BucketsCountHolds`.** A duration that is measured adds one to the sum over the buckets up to a bound exactly
  if it adds one to the sum over the durations within that bound (`BucketIs`). What a fold adds up to
  (`SumIs`, `SumMoves`, `SumOfNone`) is proved by the least number of terms it could be wrong on (`LeastNatural`).
* **`HealthInvariant`.** Of the history: the types, the capacity, the order of the calls of a request
  (`WellOrdered`: its mark comes last and after its error), and, while the disk works, that the history knows when the file was last saved.
  `DropOldKeepsRecent` and `PruneKeepsEnd` say what pruning does: the end of the events stays, and what goes is
  too old or not among the latest.
* **`FreshLossesOnly`.** `OnlyFreshSuccessesLost` is inductive together with `HealthInv`: only a success may be
  recorded without saving, and only less than the interval after the last time.
* **`ReasonsOnRecord`.** `CooldownsHaveReasons` needs to know of the cooldowns on their way:
  in `CountInv` the requests that have recorded their error and not yet their cooldown are counted with those recorded.
* **`CutsAreOnRecord`, `OvershootsAreOnRecord`.** `BenchInv`: the cooldown in force is announced by a request that has still
  to record it, or is on record, and if the history shows less than a record of it says, that record is followed by a success or a clear
  (`Shows`, of the file as well). `ShownInv`: a cooldown that is or will be shown longer than the real one comes, unless it was inherited, after a clear recorded
  or still to be recorded since it began.
* **`GradesRest`.** `GradeInv`: events and log have the same end, and what the one lacks is too old or not
  among the latest (`EndGrows` and `EndOfEnd` carry this through records and prunings, `RecentStays` through time);
  what is on record has been counted.

* **`RefusesOnlyUnsoundHolds`.** First that the expansion exists: a call makes calls of smaller `Rank`, the references it is not yet resolving
  and then the places further down, and its result depends on theirs alone (`ExpandIsLocal`, `ExpandIs`); so what holds of a
  call if it holds of those it makes holds of all (`CallInduction`). If the first call succeeds, the schemas
  that some successful call is for are a witness of `Sound`: whatever part of them one takes, the call of least rank leads out
  of it. (`Overridden` reduces the tools of a request to the parameters of the nested ones.) If the schemas are sound, a call that fails for a circle resolves a reference from which one can come to the place it
  is at and back, and there is `NoWayBack`.
* **`SchemaKeepsMeaningHolds`.** `Meaning` is a recursive function too; there is one because who demands no less is demanded
  no less of (`DemandsGrow`), so that there are least demands that are enough (`MeaningExists`). By `CallInduction` every call means what the place
  means that it is for, in each of the three ways it can succeed: as it is, replaced by the target, or joined by it.
* **`NothingToFollowIsKept`.** A document without local references expands to itself, by the same induction: that is what
  the model relies on where the code expands a target a second time.
* **`EffortIsClosestHolds`.** With the two above from `Sends`: what a provider is sent depends on the request and the provider
  alone, and nothing is sent of what cannot be expanded.

### Only model-checked

Liveness (`OnlyBodiesStall`, `CancellationEnds`, `SignalEndsProcess`), which is out of
reach of the prover. Every other property of the runs is proved. `Verdict`
consists of operators that are exercised by the runs and unfolded in the proofs that need them.

## 5. What the models found

1. *A failure with status 200* (`failure_status`). `lastFailure` keeps the status
   of an empty completion, 200, and `writeRouteFailure` uses it: "all Providers
   failed: empty-completion" is sent as a success.
2. *Removed models are served* (`removed_routes`). If the last model route is
   removed by the state file, the proxy is in legacy mode and serves every model
   name; the comment in `config.go:70` promises a clean 503. (With other
   routes left it is a 404.)

Smaller disagreements met on the way, for which no run was made; where the models say which, they
agree with the code:

* A 401 or 403 that names a disabled key, and a 404 or 405 of the Responses endpoint, bench the
  provider; `GLOSSARY.md:22` does not except them from the Client Errors.
* A provider skipped at the start of a pass is not looked at again at its end; `GLOSSARY.md:34`
  says that a Recovery Wait is entered when none is available.
* `README.md:12` says that the proxy waits and retries until one provider responds, which it does
  only without `model_routes`.
* `GLOSSARY.md` says that a Recovery Wait clears all cooldowns; it spares those renewed meanwhile.
* In legacy mode, disabling the only provider with a scalar `model_alias` makes the proxy refuse to start although
  another provider serves `gonka` by `model_aliases`.
* If the last route is removed and was called `gonka`, legacy mode serves it by whichever provider would serve that name, those the route did not list
  included, and with limits `limits-check` has never looked at. `GapsAreListed` and
  `KeepsRoutes` are therefore about proxies that are in legacy mode only if `config.yaml` is.
* If the body of an error answer breaks off, `route` judges what it has of it; unless that names a reason to fail over, the client gets
  the status and part of the body, while `README.md:11` says that a network error fails over. With a 200 it does.
* `README.md:216` says that a provider that is cooling down is graded `unavailable`; `observedStatus` says `degraded`
  once it has ever succeeded. It says also that a provider is `no-data` when nothing was routed to it; one that has only had requests
  answered with a relayed client error stays `no-data`, too.
* The comment on `normalizeTools` speaks of the "standard `$defs`/`$ref` form" that some providers reject; in tools of the Responses API,
  whose parameters are not under `function`, references are forwarded as they are.
* A handler that is canceled before it has written returns without a status, which `net/http` sends as an
  empty 200 if the client is still there.
* `limits-check` verifies the floors of `config.yaml`, its comment (`cmd/limits-check/main.go:1`) those "a running proxy
  publishes". With the lowest declarer disabled the proxy publishes a larger one, which nobody has verified for a provider that declares
  nothing; `/diagnostics` names it (`GapsAreListed`).
* Its flag `-timeout` is described as per provider (`cmd/limits-check/main.go:27`) and bounds the whole run; a route that could not be
  verified does not fail it, though a comment (`limitscheck.go:290`) wants it to fail loudly.
* `config.go:597` says that efforts for models a provider does not serve are rejected, which nothing checks.
* One attempt may count two `upstream_responses`: its 200, and then the failure of its body. An attempt that
  the client gives up counts as an attempt and has no result.

## 6. What is not modelled

* Of the metrics: the text format, the histogram of successful requests, how the counts are split by endpoint, category and status,
  and the count of route fallbacks, whose event is in `Health`.
* Of the diagnostics: the GET of every provider, which changes nothing, and the redaction of secrets.
* The health history is apart from `Routing`, which never reads it: `Health` has its own, more
  liberal idea of what requests do.
* In `Health`: latencies, error categories, the time of day going back, and the cap on the stored route fallbacks (only their number is kept).
* The content of requests in `Routing`: whether `applyUpstreamOverrides` succeeds is an
  input (`encodable`) there, and `Rewrite` says when it does. JSON itself, escapes in reference paths and the alias that replaces the model
  are abstracted in `Rewrite`.
* Of the configuration: YAML, URLs, the order of `/v1/models`, provider identities.
* Body size limits and the time limit for reading an error body are among the
  ways in which a body ends. A client that leaves while its request is still being read leaves no trace.
* Logging, wording and headers.
* Power failures that undo a rename or its content (`SaveProviderState` does not sync).
* `/health` as a report: what it shows is in the state of `Health`.

* The benchmark of providers, the smoke tests and scripts: they share nothing with the proxy but the configuration.

## 7. Plan

Done: all modules of section 2, and the proofs of section 4. What would come next:

1. An abstract specification of how a stream ends, which `Stream` and the part of `Routing` that forwards a
   stream both implement, so that the two abstractions of one function are tied together.
2. The disabled providers of legacy mode (the smaller disagreements of section 5) as a property of `ProviderState`, once it is
   decided which of the two the code should do.
