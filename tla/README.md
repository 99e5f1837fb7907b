# TLA+ for SemOps

SemOps turns operational feeds (MAVLink, TAK/CoT, CAP, ADS-B, SAPIENT) into a common
operating picture (COP) that lives in a *governed graph*, an external service reached by
request/reply over NATS. This directory models the parts of SemOps in which order, failure
and concurrency decide whether the picture is right, checks them with TLC on small instances
and proves the most important properties with TLAPS for all instances.

## 1. The system

```
 UDP / TCP / HTTP        bus subject          bus subject            request/reply
 +-------------+  raw   +-------------+ decoded +---------------+ create/update +---------+
 | input       |------->| decoder     |-------->| projector     |-------------->| governed|
 | poller      |        | raw lane    |         | born sets     |<--------------|  graph  |
 +-------------+        | replay      |         | GraphWriter   | ok/exists/... +----^----+
        ^               +-------------+         +---------------+                    | query
        | start, stop                                                                | prefix
 +------+------------------------------+        +---------------+  GET       +-------+-------+
 | App (internal/app, cmd/semops)      |        | COP UI        |----------->| GraphProvider |
 +-------------------------------------+        +---------------+            +---------------+
```

| component | state | operations | what is hard | what makes it correct |
|---|---|---|---|---|
| feed projectors, `internal/projectors/*` | born sets per entity kind | plan an observation, mark born | the born sets are a volatile copy of the graph | never ahead of the graph; an update only for a born entity; strict edges never dangle |
| projector processors, `internal/components/*` | the attempt under way | handle one decoded message, reconcile existing births | re-planning half-way through a plan | success means everything was written; handlers end |
| graph request transport, `internal/graphrequest` | - | send, send again, give up | lost, late and repeated requests | repeated requests do no harm |
| HTTP pollers (CAP, ADS-B, SAPIENT) | validators (ETag), context, done channel | Start, Stop, poll | publish and validator are two steps; Stop may time out | a 304 never stands for unpublished content; no duplicates |
| socket inputs (MAVLink UDP, CoT UDP/TCP) | socket, goroutines | Start, Stop, receive | goroutines nobody waits for | heard by someone while they run |
| decoders | parser, raw lane, replay file | capture, append, parse, publish one raw message | failed appends, ends of the process, parser leftovers | what is published is kept under its own reference; every complete frame is decoded once |
| codecs, `pkg/adapters/*` | - | parse, encode | numbers that are none, times out of range, three ideas of a complete message | what reaches a projector is sound |
| raw lanes, `pkg/adapters/*/raw_lane.go` | bounded list | Capture, Get, Snapshot | two limits at once | the newest frames, within both limits |
| snapshot provider, `internal/api/cop` | per call | discover, page, read, fall back | many reads of a changing graph, any of which fails | nothing vanishes silently |
| entity readback, `internal/api/cop` | - | latest evidence, freshness, hazard status, feed health | evidence that arrives late, twice and out of order | one alert's picture; a dead hazard stays dead; statuses and feeds agree |
| configuration, `internal/app/config.go` | - | read, validate, hand to constructors | defaults in two places | what runs is what was configured |
| process, `internal/app`, `cmd/semops` | components, owners, client | start, serve, Close | failure between any two steps, hanging goroutines | nothing left running, owners outlive writers |
| ownership, `internal/copownership` | tokens, heartbeater | bind owners | partial registration | a writer has live owners |
| scenario runner, `internal/scenario` | run status, projectors of its own | play a fixture, report | a second writer of the same graph; started again on it | its status is true, its run ends |
| UI, generator, fixture server | - | - | - | constant data or display: not modelled |

`PROJECT.json` lists every component with its sources and status, and every hazard of the
code at its line.

## 2. The modules

| module | models |
|---|---|
| `BornFirstGraph` | abstract specification: what SemOps promises of the graph. An entity is born once, a birth has a strict edge only to a born entity, observations land on born entities |
| `FeedSteps` | what one decoded observation of each feed asks of the graph, and which observations are refused (the `Project*` functions of the four projectors) |
| `FeedProjector` | projectors, `writePlan` with birth reconciliation, `GraphWriter.Apply`, `NATSRequester`, and the graph service as their environment |
| `MCFeedProjector` | observations for TLC, planned by `FeedSteps` |
| `FeedProjectorProofs` | theorems about `FeedProjector`, among them that it implements `BornFirstGraph` |
| `ScenarioRunner`, `MCScenarioRunner`, `ScenarioRunnerProofs` | the scenario runner as one more writer of `FeedProjector`, its fixture, status, failure and restart |
| `RawLane` | a bounded raw lane |
| `CapCodec`, `OpenSkyCodec`, `CotCodec`, `SapientCodec` | what each codec takes and refuses, and what of it can be encoded and is accepted behind it |
| `FeedFlow`, `FeedDocuments`, `MCFeedFlow`, `FeedFlowProofs` | the decoders of CAP, ADS-B, CoT and SAPIENT between input and projector, composed of `RawLane` and the codecs; the proofs are also those of lane and codecs |
| `FeedPoller`, `FeedPollerProofs` | an HTTP poller with its poll loops and lifecycle |
| `Readback`, `MCReadback`, `ReadbackProofs` | what the picture makes of the evidence in the graph, while projectors write it and time passes |
| `SnapshotProvider`, `MCSnapshotProvider`, `SnapshotProviderProofs` | one `GraphProvider.Snapshot` call after another over a growing graph |
| `AppConfig` | environment, defaults, validation and the constructors' own defaults and checks |
| `AppLifecycle`, `MCAppLifecycle`, `AppLifecycleProofs` | start and Close of the process, from an environment |
| `MavlinkFraming` | MAVLink frames in a buffer: where one starts, how long it is, when it is valid; and, as the recursive function `Parsed`, what a parser makes of a whole buffer |
| `MavlinkParser`, `MCMavlinkParser` | the loop of `Parser.Parse`, branch by branch, over a stream cut into calls |
| `MavlinkLane`, `MCMavlinkLane` | datagrams from the MAVLink socket through decoder and projector, each with a parser of its own |
| `MavlinkProofs` | theorems about the parser and the lane |

Operators commented `Fault:` are mutations of the definition that follows them. No
specification uses them; they document which plausible bug each property detects, and
`PROJECT.json` says which property goes with which.

### FeedProjector

A *writer* is one projector: the hosted component of a feed, or the scenario runner's
adapter, which has the same `writePlan`. The four feeds' writers, components and adapters
repeat the same code; each definition names the place in one of them. `Receive` is
`HandleDecodedPayload` up to the first plan; `Send`, `OnSuccess`, `OnExists`, `OnRefusal`
are the turns of `Apply` and `writePlan`; `Resend` and `GiveUp` are `RequestWithRetry`;
`Cancel` ends the handler's context; `Restart` is a crash at any point, after which the born
sets are empty. `Plan` is not stored: between two changes of `born[w]` it is a function of
the observation and of `born[w]`, and only the running handler changes `born[w]`. `todo`
holds what is left of it.

The graph and the transport are external and hostile: a request on the wire is served at any
time or never, its answer arrives or is lost, it may be refused for other reasons, and a
request whose writer gave up or restarted is still served later. The same request sent twice
while the first is pending is one element of `wire`; sent after the first was served it is
served again.

Entities are abstracted to `<<system, type, instance>>`. `entityToken` is a many-to-one
function, because the code maps several native identifiers to one token.

### ScenarioRunner

The runner is a writer of `FeedProjector` that plays a fixture: `Play(feed)` is one of its four
kinds of steps up to the adapter's first plan, the turns of `writePlan` are `FeedProjector`'s
actions, `FinishStep`, `FailRun` and `SucceedRun` are what the run makes of the outcome. The
adapters' `writePlan` has the processors' structure with a limit of four; a CAP step has none
(`OnExistsDirect`). `StepBreaks` is a context that ends before a step and an adapter that cannot
keep the raw bytes. Between a failed step and `failReport` the polled status still says
"running". A restart (`RestartRunner`) has empty born sets and plays the fixture again, against
the graph it wrote; a request of its former life may still be on the wire. The hosted
projectors are the other writers. `past` is a history variable: it tells apart runs in which
every request was answered as it should be.

### FeedFlow and the codecs

`FeedFlow` takes one document after the other through `HandleRawPayload`: `CaptureRaw` (the
lane, with `RawLane`'s own steps of eviction; for CAP, which has no lane, `RecordAlert`),
`AppendReplay`, then `PublishDecoded` or one of the ways to fail, and `Project` for the payload's
`Validate` at the other end. A replay store may be attached or not. An append may fail before or
after it wrote half a line, and `Restart` may end the process at any point, also between a line
and the publish behind it; the file remains, everything else is lost. The bus may lose a publish.

The codecs are operators over *classes* of values: a coordinate is "in" the range, "low", "high",
"inf", "nan" or no number ("bad"), a time is "good", "zero", "far" (one that JSON has no form for), a
SAPIENT message is a tree of JSON values. A codec says what its parser takes, what
`encoding/json` can encode of the result, and what the payload's `Validate` accepts. How the
libraries read the text of a number or a time is theirs; that Go's comparisons let NaN pass a
range check, that SAPIENT numbers may be texts, and that a null is an absent field in one place
and an error in another, is the code's and is modelled. A binary SAPIENT message is taken to
become the JSON that `protojson` makes of it.

What the modules say of the code and a reader might not expect: a malformed CAP document leaves no
trace but an error, of the other feeds it is in the lane and the file; the record is encoded
before anything is written, so that a time out of range fails the append and not the publish;
an OpenSky answer without aircraft and a SAPIENT message at Go's zero time are published and then
refused by the payload's `Validate` (`PublishedInVain`); the SAPIENT input's `Accept` header offers an
encoding that `inferEncoding` then refuses; references start again from one with the process, so
that a file holds the same reference once per life.

### FeedPoller

ETag and Last-Modified are one validator, which stands for the content it came with
(`Versions`). A provider has validators or not (`tagged`); without, as for the SAPIENT input, which
never asks with one, every poll publishes again what is there. The model assumes that a provider
does not go back to old content. Start, Stop and the end of the caller's context come in any order,
but one call of Start or Stop at a time (so does the App). `Stop` waits for the loop until its
timeout; in any state but "started" it returns at once with success (`StopNotStarted`), so that
a second `Stop` after one that timed out says nothing about the loop that is still there. What a
caller knows is `abandoned`, the loops a Stop has reported it gave up on. `overlaps` counts
the Starts beside a loop that was still running. A publish may succeed although the loop's context
has ended. The goroutine reads `c.done` without the lock and in no order with a later `Start`, so
`End` may signal the channel of its own or of any later start.

With a loop that may be given up, "stopped means quiet" and "published once" hold only up to these
two counts, and `StopIsQuiet` and `PublishedOnce` say exactly how far: each Stop that reported
a timeout may leave one loop, and each Start beside a live loop may repeat each content once. Both
bounds are reached.

### Readback

The graph appends evidence triples of a hazard and replaces what it has of a track, task or
advisory. A projector writes one message after the other; `Resend` leaves a copy of the request
on the wire, which `ServeLate` applies at any later time. `LatestValue`, `HazardStatus`,
`FreshnessStatus` and `FeedHealth` are the provider's functions over that graph and the clock.
The time of an alert is its effective time if it states one, else the time it was sent
(`Observed`). An alert without an area that can be drawn makes its hazard vanish from the map, a
report without a status leaves the old one, and late reports move tracks back: all as in the code.
The confidence of a hazard, which is that of its first evidence, and CAP's `references`, which
nothing reads, are left out.

### SnapshotProvider

The maps per kind of entity are merged in `read`. The service is assumed to be honest about
the end of a prefix and about absence: no cursor means no more entities, and so does an error whose
text says "not found", which the provider takes for an empty end of the prefix, or for an entity
that does not exist, without a diagnostic (`graph_provider.go:499-501`, `540-548`). Nothing else is
assumed: pages of any size,
also above what was asked for, empty pages with a cursor, cursors that do not move. Entities
are born while a call runs. The code's per-family flags are `discovered`; ADS-B has no
configured identifiers, so the flag the model keeps for it decides nothing. Entities with an
empty id and the difference between an entity that was read and one that is shown (a track
without a position) are not modelled.

### AppConfig and AppLifecycle

A setting is unset, given, or wrong in one of the ways its kind allows (malformed, zero,
negative, nothing but commas, outside of what is known). `Parses` and `ConfigFromEnv` read it,
`Validate` is the validation of the enabled flows, `Refuses` and `Effective` are the checks and the
silent defaults of the constructors. Every variable that is set must parse, those of disabled
flows included; with discovery off some CoT and CAP identifiers must be configured, whether those
flows are enabled or not.

`Startup(cfg)` is the list of things `start` does for a configuration, translated flow by
flow; `StopOrder` is the order of `Close`. Each step may fail, which starts the clean-up of
the deferred `Close`. A decoder or projector "runs" while its subscription exists; an input
while its goroutine does. `Stop` of an input waits with a timeout, and the goroutine may take
longer. `ServeFails` is `log.Fatalf`, which ends the process without `Close`.

### MavlinkParser and MavlinkLane

`MavlinkParser` takes one step per turn of `Parse`'s loop: `NoSync`, `Resync`, `Incomplete`,
`Mismatch` and `Take` are its branches, `Return` is what follows the loop. The sizes of
header, checksum and signature and the checksum itself are constants; TLC uses headers of two
and three bytes, and bytes that are at once start bytes, lengths, flags and checksums, so
that a frame within a frame, or across two, is the normal case. The model has the counters of
`ParsingStats` except `UnknownMessages`, which depends on the fields of a packet.

`MavlinkLane` composes two parsers through the bus. A call of `Parse` is one step there
(`Parsed`; `CutsDoNotMatter` says that the loop computes it, and is proved). `HandleRawPayload`
accepts a datagram that completes exactly one packet and publishes the *datagram* with the
header of the packet; `DecodedPacketPayload.Packet` parses the datagram again, with the
projector's parser, and attaches the message's reference and time. Refused datagrams never
reach the second parser, and either subject may lose a message, so the two parsers' leftovers
differ. What a parser returned is told by three histories: `handled`, the bytes the decoder has
read; `missed`, the bytes of whole frames it has refused in a row; and `overlap`, that in the
meantime leftovers happened to pass for a frame (`IsFrame`) together with the first bytes of a
real one. Nothing in the code depends on them. The raw lane's default capacity is above the size of any datagram, so `Capture` does not
fail here. A restart, which empties both parsers, is not modelled, and neither is what the
projector does with a packet (`FeedProjector`).

## 3. What is checked

| run | question | bounds |
|---|---|---|
| `ScenarioRunner` | runner and hosted projector implement the born-first graph; is the run's status true, does it end | two writers, a MAVLink position (asset and track) and a CAP alert; every request sent twice, restarts of both; with and without a sink for CAP |
| `ScenarioRunner_restart` | violated: see section 5 | the six observations of the HADR fixture |
| `FeedProjector_adsb_restart` | violated: see section 5 | one writer, four aircraft, the default of four attempts |
| `FeedFlow` | is what is published kept, is what is projected sound | some 1,400 documents: of each feed a good message and one for every way in which one field may differ; the long and the broken ones three at a time among good ones; a lane of one record, two lives |
| `Readback` | does the picture stay consistent | a hazard with alert, update and cancel, a track and a task of another feed; five ticks, a freshness of one, four writes of a hazard, one late copy |
| `Readback_cancel` | violated: see section 5 | an alert for later and its cancel |
| `SnapshotProvider` | paging, direct reads and fallback | three prefixes in two families, one of more entities than `Limit = 2`: pages below, at and above the limit; with discovery and fallback, and with neither |
| `FeedPoller` | publishing and restarts | three contents, two starts: a loop may be given up, and another started beside it |
| `AppLifecycle` | configuration, start and Close | environments that cover every flow and listener, and each setting spoilt in each way with all flows enabled, with one, and with the defaults |
| `MavlinkParser` | a stream cut into calls in every way | every stream of at most eight bytes out of four values, in calls of at most three bytes; the longest frame has eight bytes, the shortest three |
| `MavlinkLane` | two parsers in a row | two frames; datagrams that hold one, two, half of one, noise, or a damaged one, and one that the read buffer cuts inside a frame; a checksum that two accidental prefixes satisfy; four datagrams, one message under way per subject |
| `MavlinkLane_reference` | violated: see section 5 | the same |

The bounds are small but each reaches the case its properties are about: a plan re-planned in
the middle, with a request of the first plan still on the wire; a fixture played again on the
graph it wrote; a cancel that reaches the graph before a late copy of its alert; a line half
written when the process ends, and the same reference in the next life; a lane that evicts for
each capture; a prefix cut off on a page boundary; a stop that times out followed by a start; a
clean-up after each step of start; a start byte that swallows the start of the frame behind
it. Four datagrams are one that damages, one that is swallowed and two in which the lane has
recovered, or has met an accidental frame. Behaviours, properties and proofs of the projector itself have no bound on observations
or writers; TLC sees it inside `ScenarioRunner`. Unbounded counters of the models are bounded by
`MaxSends`, `MaxCaptures` with `MaxTaken`, `MaxPending`, `MaxLives`, `MaxNow`, `MaxWrites`, `MaxLate`,
`MaxVersion`, `MaxStarts`, `MaxStream` with `MaxChunk`, and `MaxDatagrams` with `MaxQueue`; they
occur in guards and in types and nowhere else. `MaxSends` is the code's own limit of attempts.

The properties, by what they protect:

- *The graph.* `UpdatesLand` and, above it, `ImplementsBornFirst`: every step of projectors,
  runner, transport and graph is a birth, an observation or a stutter of `BornFirstGraph`.
- *The run.* `ReportedIsInGraph` (a step counts as completed, and a run as succeeded, only when
  the graph has it), `FaultlessRunSucceeds` (nothing but faults, a replayed CAP alert or a
  snapshot as large as the attempts makes it fail), `RunEnds`.
- *The evidence.* `PublishedIsKept`, `MalformedIsKept`, `RefsAgree`, `Newest`, `EvictedForNeed`.
- *The content.* `ProjectedIsSound` (finite numbers, times that a client can read, identifiers that
  are there), `PublishedIsAccepted`.
- *The feed.* `TagsArePublished`, `PublishedOnce`, `ContentArrives`, `StopIsQuiet`.
- *The picture.* `EvidenceAgrees`, `NewestAlertShown`, `InactiveStaysInactive`, `FeedsAgree`; and of
  its reading `MissingIsReported` (an entity that existed when the call began is in the
  snapshot, or its prefix carries an alert), `CutOffIsFull`, `SeedsBackUp`, `OutageIsTotal`
  (the fixture never hides a graph that could be read), `SnapshotEnds`.
- *The packets.* `CutsDoNotMatter` (the frames, counters and leftovers after any sequence of
  calls are those of one call with the whole stream), `BytesAccounted`, `InStreamOrder`; and
  across the two parsers `ProjectedOnceInOrder` (every packet is a frame with its own checksum,
  and the bytes of all packets, end to end, are found in that order among those received: none
  is projected twice or early), `InStep` (with nothing refused or lost, every packet goes by its
  own message) and `Recovers` (what damage costs is bounded).
- *The process.* `RunsAsConfigured`, `InputsAreHeard`, `WritersAreOwned`, `ClosedIsQuiet`,
  `SignalEnds`.

`NewestAlertShown` and `InactiveStaysInactive` have a condition, `Orderly`: the alert that was sent
last also takes effect last. Without it they are false (section 5).

Deadlock is checked in `SnapshotProvider` and `MavlinkParser`, which go on for ever. The
others may stop: at their bounds, or, the process and the scenario run, because they end.

### Fairness

- `ScenarioRunner!ScenarioFairSpec`: weak fairness of the run's own steps. Its goroutine is
  scheduled and the requester's timeouts fire. Nothing is asked of graph, transport or the
  other writers.
- `SnapshotProvider!Spec`: weak fairness of `Read`. Every request has a timeout, so it is
  answered or fails.
- `FeedPoller!FairSpec`: weak fairness of the ticker and the loop, and strong fairness of an
  answer and of a publish: a provider or bus that fails every single time publishes nothing,
  and `ContentArrives` is about those that fail for a while.
- `AppLifecycle!Spec`: weak fairness of main's own steps; every call it makes has a timeout.
  Nothing is assumed of the components' goroutines, which may hang.

`FeedFlow` and `Readback` state no fairness: what the bus loses and the graph never applies is lost.

## 4. What is proved

All proofs hold for every value of the constants under the assumptions named in the modules,
all of which TLC evaluates on the instances of section 3:

- observations plan finite sequences of steps, and a strict edge points to an entity that an
  earlier step of the same observation writes (`EdgeAssumption`, which `FeedSteps` satisfies);
- the fixture is built into the program: its observations are ones that the projectors take,
  and nobody but the runner writes the hazards of its alerts (`FixtureAssumption`);
- documents are what the libraries make of a text (`BodyAssumption`), messages are what the decoders
  accept (`ReadbackAssumption`), and a picture has finitely many entities (`EntitiesAssumption`);
- a prefix lists an entity once, because the graph has one key for it (`ListAssumption`);
- the longest frame fits in the parser's buffer (`LimitAssumption`: 280 bytes against 4096).

`FeedProjectorProofs`. The safety properties are not inductive by themselves: that an
answered update found its entity depends on what earlier requests of the plan did. `IInv`
adds `PlanDone` (each planned step behind the cursor is in the graph, whoever gave birth to
its entity), `ReplySound` (an answer is to the request at the cursor and tells the truth) and
`Unborn`. It is preserved because the graph only grows and a plan is a function of the born
set: after `OnExists` the new plan differs from the old one in one step, whose entity exists.
From it follow `BornIsBorn`, `UpdatesFindTheirEntity`, `NoDanglingEdge`, `SuccessIsComplete`
and `Refinement`. `AttemptsSuffice` uses a second invariant, that each attempt has taken one
entity of the observation off the births of the next, and a cardinality argument.

`ScenarioRunnerProofs`. Every step of runner and hosted projectors is a step of `FeedProjector`
or leaves its variables alone (`RunnerIsProjector`), so that all of its theorems hold of them, the
refinement included. `StatusIsTrue` adds that the completed steps are the ones whose handlers
reported success, and that the graph forgets nothing. `OnlyFaultsFailARun` is about runs in which
nothing went wrong *so far*, and needs to know why an alert's hazard is not in the graph yet when a
first run gets to it: every request on the wire for such a hazard is the runner's own and under way
(`OwnRequests`), every such entity in the graph is one that the runner knows or is being told of
(`OwnBirths`, `OwnReply`), and what was written before was written by an earlier step (`InOrder`,
`HandedOver`). `FaultlessInv` puts these together; that a snapshot fails only when it is as large
as the attempts is `AttemptsSuffice`.

`FeedFlowProofs`. First the lane: its account equals the length of its records, expressed by the
history function `upTo` of prefix sums, so that no recursive sum is needed; with it the newest
record fits by itself and eviction stops before it. Then the codecs, one lemma for each record of
the formats: what its parser takes, and what can then be encoded, is sound. SAPIENT's
classifications nest, but the soundness of a message needs no induction, as it says nothing of them.
`MarshalIsRead`: `Unmarshal` reads what `Marshal` wrote. `FlowInv`, for the whole, is the conjunction
of the lane's `IInv`, the types, the properties, `RefInv` (the reference in hand is the newest of
this life, and until its line is in the file nobody else's) and `KeptInv` (what is about to be
published is in the file). The lane's steps are `RawLane`'s, so that its theorems give its part, and a
restart is its `Init`. This gives all eight properties of the run, for documents, capacities
and numbers of lives of any size. For SAPIENT it is assumed that the message is a tree of JSON
values (`ClosedJSON`).

`FeedPollerProofs`. The two counts are balances. `LoopsAccounted`: loops alive and values in done
channels are together as many as loops given up and the one that is started or waited for; every step
that changes one side changes the other. `PublishesAccounted`: what is published of a content, the
older loops that will publish it or put back something older (`Behind`), and whether the last loop will
fetch it (`Fetches`), are together at most one more than `overlaps`. Both are needed because a loop that
was given up acts long after the Start that made it an overlap. `LoopOrder` (loops are started
in turn, only the last is alive unless two overlapped), `TagInv` and `VersionOrder` strengthen
the rest. Nothing is excepted: the theorems cover overlapping loops.

`ReadbackProofs`. Evidence is written three triples at a time with one timestamp; the invariant is
that the triples which win for the three predicates are of one alert (`LatestTogether`), and that every
triple has the time of its alert (`WholeAlerts`). From it follow `EvidenceIsWhole`, and with the order
on the alerts `NewestIsShown` and the action property `InactiveForGood`. `StatusesAndHealthAgree`
compares two readings of the graph, each entity's own time against the newest time of its feed; it
rests on the maximum of a finite set of times (`LatestTimeIsLatest`, `BoundedOnFinite`).

`SnapshotProviderProofs`. A page is whatever the service makes of the entities that exist when it
answers, so the invariant speaks of those that existed when the call began (`atStart`), the only
ones the service owes. `PageSound`: up to the cursor they are all found (and by the types, what was
taken and what is still wanted add up to the limit). `TargetsBehind` and `SeedsBehind`: each prefix and seed
that is done has what it owes, or says why not. `Counted` and `ResultSound` tie counts and outcome to what
was read. The step that needs work is a page: its entities are the first n pending ones, and n
and the position of the last are tied by a cardinality argument (`Firsts`, `Below`), which also
shows that a prefix reported as cut off was read up to the limit. All five safety properties
follow, for prefixes, pages and limits of any size.

`AppLifecycleProofs`. The proof has three parts. What a valid configuration means: no constructor of
a flow that is started refuses a setting `Validate` let pass, or replaces it (`PlannedRuns`). The
order of the startup: in `Startup(cfg)` a component is composed, and what it needs started, before
it starts (`Ordered`), which is shown flow by flow and kept by concatenation (`OrderedConcat`). And the
invariant: `Configured`, `NothingYet` (before the flows nothing runs), `Owned` (tokens and heartbeat),
`Flowing` (what runs is what the steps behind the cursor started), `RunningIsKnown` (all that runs is
recorded for `Close`) and `StoppedBehind` (what `Close` has passed is stopped, or its failure is
recorded). One lemma for each conjunct goes through the 22 actions. `NothingLeftBehind` then says that a failed
start and a finished `Close` leave nothing but what they reported.

`MavlinkProofs`. The proofs hold for frames of any sizes, any checksum and streams of any length.
The parser's `IInv` is the conjunction of `TypeOK`, `BytesAccounted`, `HeldIsIncomplete` and
`InStreamOrder` with `BufferIsTail` (the buffer is the end of the stream) and a bound on where
the last frame ends: a frame is at the place in the stream that the length of the
buffer tells, and what is found next begins behind it. The lemmas are what dropping a prefix
does to a sequence, where the first start byte is, and how long a frame is.
`LimitIsNeverReached` shows that the branch at `maxBufferedBytes` is never taken.

`CutsDoNotChangeTheOutcome` relates the loop to the recursive function `Parsed`, which says what
a parser makes of a whole buffer. That its equation has a solution (`ParsedEquation`) is an
induction over lengths; it is done as a descent, from a shortest counterexample
(`ShortestExists`), because the library's induction theorems cannot be used here. The
invariant is then `Resumes`: whatever bytes follow, parsing the whole stream gives what was
found so far and then what parsing the buffer gives. Each branch of the loop preserves it by one
use of the equation, and it needs that a frame is the same whatever is appended to
it (`FrameOfConcat`). With no bytes to follow it is `CutsDoNotMatter`.

For the lane the invariant is that, as long as nothing was refused or lost, a *chain* of buffers
(`Chain`) leads from the projector's parser over every message under way to the decoder's, each
message completing the packet it names. The decoder adds a link at one end and the projector takes one
off at the other. `InStep` follows, for any number of messages under way.

`DecoderRecovers` rests on what a parser keeps. `Leftover` describes a buffer of damage followed
by whole frames: a parser that begins behind the damage keeps nothing, nor does one that begins
where an accidental frame ends; the next whole frame keeps it so (`LeftoverConcat`), unless an
accidental frame ends inside of it, which is an `overlap`. Each pass of the loop either leaves
such a buffer with less damage in front (`LeftoverDrop`) or reads past the damage and keeps nothing; by
descent on the length, what a call keeps begins in the damage (`LeftoverParsed`). So in
`RecoversInv` the bytes held are damage and, behind it, all the frames missed, and they are fewer than
the longest frame has (`IncompleteIsShort`). An overlap has to be excepted, because no checksum prevents it
and each one may leave new leftovers behind; TLC's checksum has two, so that the exception occurs in the run.

`PacketsOnceInOrder` needs no condition. The projector's parser does not see the same bytes as the
decoder's, only some of them, in the same order. `Line` follows these bytes: what was
projected and is held by the projector, and then each decoded message in turn, is found in order
(`Among`) in what the decoder had read when it published the message. Each action extends or shortens the line at one
end; a lost message is skipped (`AmongAmong`, `AmongMore`). The property finds places for the bytes
one after the other with the recursive function `Places`, and `AmongIsFound` shows that taking the
first place each time finds what can be found. That recursive functions over sequences,
`Places` and the library's `FlattenSeq`, have values at all is `IterationExists`, again a descent.

With this every safety property of the passing runs is proved. Only model-checked are the
liveness properties (`RunEnds`, `ContentArrives`, `SnapshotEnds`, `SignalEnds`), which are outside of
the prover's reach here; and that the instances of TLC satisfy the assumptions, which it evaluates.

## 5. Where code and documentation differ

`docs/feed-validation-and-indexing-ladder.md:433-434` says that a hosted ADS-B ingest
"reconciles already-born tracks". The projector component plans a snapshot as a whole and
reconciles one track per attempt, with a default of four attempts
(`internal/components/adsb/components.go:785-815`). After a restart a snapshot of four or more
born aircraft therefore fails; the born set keeps what was learned, so later snapshots get
further. `FeedProjector_adsb_restart` shows the shortest case, and `AttemptsSuffice` proves
that smaller observations never fail this way.

`openspec/changes/revive-cop-product/specs/containerized-demo-infra/spec.md:112` says that the
scenario runner "replays the first HADR scenario into the live SemStreams graph on startup". Its CAP
step has no birth reconciliation (`internal/scenario/runner.go:422-443`): started again on the graph it
wrote, the runner fails at the alert, with every request answered. `ScenarioRunner_restart` shows it;
`FaultlessRunSucceeds` says that this and large snapshots are the only ways.

`feed-evidence/cap-edxl.md:143` (under `openspec/changes/revive-cop-product/`) says that of several CAP
evidence triples "the newest evidence and source reference drive readback". Evidence is ordered by
the effective time when an alert states one (`internal/projectors/cap/projector.go:227-238`), so a
Cancel that was sent before the alert takes effect, and states no effective time, loses against
it: the hazard becomes active all the same. `Readback_cancel` shows it with two alerts;
`NewestAlertShown` says what holds instead.

`openspec/changes/revive-cop-product/specs/governed-feed-fusion/spec.md:168-171` wants the native
payload to be found through `cop.provenance.source_ref`. The decoder parses datagrams as one
stream, but captures only the datagram that completes the packet
(`internal/components/mavlink/components.go:476`). When a bridge cuts its byte stream into
datagrams so that one ends in the middle of a frame, and each completes one packet, that packet is projected
under a record that holds only the end of its frame. `MavlinkLane_reference` shows it with two
datagrams.

Related, and not a contradiction: a damaged datagram can make the decoder refuse
valid datagrams that follow it, because what it left behind is in front of them. `Recovers`
bounds the bytes lost in this way, short of an accidental frame; the listener itself goes on, as
`feed-evidence/mavlink.md:58-59` says.

## 6. What is not modelled

- *Health counters* of components and adapters. They decide nothing in the program. Reading them
  for the models showed that after a 304 the last error stays in a poller's health, and that
  the "stale" status is given to a healthy poller only, one whose requests fail reports its error.
- *The CoT inputs' framing*, and the graph of the CoT listeners of `internal/adapters`: the latter are
  composed by no program.
- *Loading of replay files*, which only tests do. It fails as a whole on a torn line, which
  `FeedFlow` shows can be in a file.
- *Graph data loss.* The model's graph keeps what it took. When its buckets are wiped under a running
  SemOps, its born sets lead, until it restarts.
- *Triple values* beyond times, statuses and references; MAVLink fields and commands; formatting,
  sorting and layout of the snapshot.
- The UI, the feed fixture server, the generator, the API handler, smoke tests and deployment: data,
  pure I/O or constant.

What would be worth adding next: the connection between `FeedPoller`'s publishes and `FeedFlow`'s
documents as one composed module, and the framing of the CoT TCP stream.
