# A TLA+ model of Moon Bridge Desktop

This directory specifies the concurrent core of Moon Bridge Desktop in TLA+,
checks it with TLC on small instances and proves its main safety properties with
TLAPS for every instance. Source paths below are relative to the repository.

## 1. The system

Moon Bridge is an HTTP gateway that lets Codex talk to other model providers. In
the desktop application everything runs in one process:

```
Codex -> front door :38440 --S0--> original upstream
                           --S1--> gateway backend :38442 -> providers
                           --S2--> capture relay :38441 -> gateway backend
```

The *front door* is a relay whose listener never goes away and whose target is
switched between three layers: S0 (original upstream), S1 (gateway) and S2
(capture in front of the gateway). The *gateway* is started and stopped as a
sequence of runs. The *capture relay* records what passes through it. Switching
layers is a transaction that leaves a journal on disk, because the process may
die between its steps.

### Components

| Component | State | Operations | Hard behaviour | What makes it correct |
|---|---|---|---|---|
| Traffic analysis Service (`internal/service/trafficanalysis/service.go`) | the committed relay, generation, mode (idle, capture_only, desktop, recovery), bound gateway run, desktop owner, model mapping, tokens of the operations in flight | StartCapture, Pause/Stop/Clear, CloseCapture, desktop claim/pause/release, model mapping, BindGatewayRun, MarkGatewayLost, ClearRecovery | every blocking relay call happens with the mutex released; late results, superseded starts, operations that join or wait for others | no listener without an owner, tokens exclusive, evidence stable, mapping never stale |
| Capture relay (`trafficanalysis/capture.go`) | state, `recording`, listener, bounded queue, worker, mutex and observation gate | Start, Pause, Stop, Close, relaying, RecordGatewayEvent | two locks, a barrier through a bounded queue, timeouts that race with it | paused means nothing is recorded; no send on the closed queue; calls return |
| Gateway Service (`internal/service/gateway`) | current run, status, bookkeeping of each run | Start, Stop, Wait, onListening, finishRun | Stop racing with the bind callback, panics, callbacks without the lock | EndRun exactly for bound runs and inside them; `running` only when bound |
| Traffic transaction (`internal/service/traffictransaction`) | one operation at a time, owner id, journal checkpoints | Enable, Disable, Finish, RetryBackupCleanup | about ten steps over four components, each can fail; crash between any two; gateway replaced meanwhile | the front door never points to a closed listener; a crash leaves a journal from which recovery restores a layer |
| Gateway integration (`internal/service/gatewayintegration`) | recovery record of the Codex configuration | Enable, Disable, recovery | write-ahead record and rollback failure | the user's configuration can always be restored |
| Recovery (`internal/service/recovery`) | one JSON journal file | Update, DeleteIf, ClearCleanupPending, ReconcileStartup | read-modify-write, startup classification against concurrent rewrites | no record is lost or cleared for another transaction |
| Publish recovery (`internal/service/publishrecovery`) | phased journal, two target files, backups | Publish, ReconcileStartup | crash in every phase | all or nothing |
| Codex configuration (`internal/service/codexconfig`) and launcher (`codexlauncher`) | files, backups | edit, AtomicWrite, backup and retention | crash between write and rename | no torn file, no needed backup deleted |
| Routing switch (`routingswitch`), routing profiles (`routingprofile`), egress observation (`egressobservation`) | operation gate, transition ids, active profile | Begin/Release, Activate, Derive | copied tokens, stale transitions | one operation at a time |
| Desktop application (`desktop-app`) | session, front door, autosave writer | bindings, gateway start and stop, autosave | lock order between operationMu and trafficMu, EndRun from another goroutine | no deadlock, no lost observations |
| Configuration graph, store, runtime (`configgraph`, `store`, `runtime`) | revision, stored and running configuration | Patch, Create, Delete | revision compare-and-swap, commit before swap | running and stored configuration agree |
| Server (`server`) | per request: three goroutines, three channels, buffers; per session: the cache of reasoning | streaming and plain requests, search and visual loops | a client that leaves while events are under way, goroutines that outlive the handler, events that share memory with their producer | a response says what the upstream told; nobody waits for ever; no torn event |
| Protocol adapters (`internal/protocol`, `internal/format`) and extensions (`internal/extension`) | per stream: indexes of blocks and items, buffered arguments, snapshots | conversions, plugins, web search | events that several adapters number differently, calls that are ended twice, texts started too early | every item added once, closed once, in order |
| Providers (`provider`) and the choice of one (`server`, `routingprofile/resolver.go`) | clients with their credentials, reverse index of models, resolver of slots, cached clients | ResolveModel, ResolveSlot, resolveModelOrFallbackContext, filtering, sending | a snapshot, a resolver and caches that are swapped one after the other while a request takes several looks at them | a request goes where the configuration it came under says, with its credentials and its policy |
| Configuration (`config`) and its tables (`store/sqlite_store.go`) | a file form, an internal form, rows | FromFileConfig, ToFileConfig, Validate, SaveConfig, LoadAll, migrations | three forms of one thing and the encryption of keys on the way | what was saved is what is loaded |
| Statistics, tracing, proxy commands, logging, web console, command line, legacy Rust shell | usage, trace files | counting, output | shared counters | not modelled |

How they meet: `desktop-app/app.go` owns one Service, one gateway Service and one
front door. A gateway run calls back on its own goroutine: `BindRun` is
`BindGatewayRun` before the run is published, `EndRun` is `MarkGatewayLost` before
`run.done` is closed. The management API of the gateway and the desktop
transaction call the Service at the same time. The gateway resolver asks the
Service for a model mapping (`ObservedModelFor`) for every request.

## 2. Plan

Done: the traffic Service, its relay and the gateway with their composition; the
routing of the desktop application (traffic transaction, gateway integration,
recovery record, startup) as one composed module; the publication of a Codex home
and the launcher on top of it; the configuration plane and the settings sagas; the
way of a request from the configuration to an upstream, with restarts and changes; the
streaming requests of the Responses API with the converters of four protocols; a
session of requests without streaming, with tools, histories and the server's rounds.

Left, in order of importance:

1. Backup retention (`codexconfig/backup.go`).
2. Liveness of the settings sagas and of a launch, under the timeouts of their
   clients.
3. A proof of `ItemsCloseInOrder`, on top of `StreamInv`.

Runs stay at two or three actors and one or two resources of each kind, with
symmetry wherever only equality is used. A component gets its inductive invariant
in a `...Proofs` module; modules to be proved about use no `RECURSIVE`.

## 3. The modules

| Module | Models |
|---|---|
| `GatewayRuns` | the identities of gateway runs |
| `TrafficService` | the traffic analysis Service |
| `GatewayRun` | the gateway Service; the callbacks are left open |
| `GatewayTraffic` | both, with the wiring of `desktop-app/app.go` |
| `RelayContract` | what the Service assumes of one relay (abstract) |
| `CaptureProxy` | one relay with its locks, queue and worker |
| `CaptureLog` | the ring a relay records into and the log the app writes from it |
| `RecoveryJournal` | the recovery record and what each of its writers makes of it |
| `DesktopState` | what the routing commands share: config.toml, record, front door, gateway, capture |
| `TrafficTransaction` | Enable, backout, Disable and Finish |
| `DesktopRouting` | gateway start and stop with the integration of Codex, exit, startup, explicit recovery; composes the three above |
| `AtomicHome` | what publishing a Codex home promises (abstract) |
| `PublishRecovery` | the phased publish, its rollback and its startup |
| `CodexLauncher` | the terminal and the commands around it, on top of the publish |
| `ConfigPlane` | configuration graph, store, runtime snapshot and staged changes |
| `ConfigSaga` | the settings sagas of the desktop, clients of the plane |
| `ConfigFile` | the routing part of the configuration in its two forms, and their conversions |
| `ConfigPatches` | what a change of the graph makes of the file form |
| `ConfigStore` | the tables a save writes and a load reads, the keys, seeding and migrations |
| `ProviderCatalog` | the provider manager: credentials, clients, resolution, web search |
| `RoutingSlots` | profiles, the slot resolver, the policy of a slot, the status of slots |
| `ModelRouting` | a gateway that starts, is changed and restarted, and the way of its requests; on top of the five above |
| `ResponseStream` | core events to events of the Responses API: `streamLoopWithBuf` |
| `ProviderStreams` | chat, Anthropic and Google chunks, and whole responses, to core events |
| `Upstreams` | what the providers send, and what they mean by it (external) |
| `ReasoningCache` | what is remembered of the reasoning of an answer |
| `ResponsesServer` | a streaming request with its goroutines; composes the four above |
| `CodexTools` | the client's tools as a provider's functions, and calls on their way back |
| `Conversions` | histories to the messages of three providers, answers to items |
| `ToolLoops` | the search and visual rounds, and the reasoning put back from the session |
| `Conversation` | a session of requests without streaming; composes the three above |
| `GatewayTrafficProofs`, `CaptureLogProofs`, `ModelRoutingProofs`, `DesktopRoutingProofs`, `DesktopCaptureProofs`, `PublishRecoveryProofs`, `ConfigSagaProofs`, `ResponsesServerProofs` | theorems |
| `MCTrafficService`, `MCConfigSaga`, `MCModelRouting`, `MCConversation` | symmetry and constants for TLC |

### TrafficService

The variables are the fields of `Service` (`proxy`, `generation`, `mode`,
`gatewayId` for `gatewayID` and `gatewayAddr`, `owner`, `mapping`, `startSeq`,
`activeStart`, `activeOp`, `closeOp`), plus `relay`, the state of every relay ever
built, and `call`, what each caller keeps in its local variables. A relay is named by the reservation that
built it. One action is one critical section: `StartReserve`, `StartBuild`
(outside the mutex), `StartCommit` or `StartReject`, `StartDiscard` are
StartCapture; `CloseBegin`, the relay's steps and `CloseCommit` are CloseCapture;
`MutationBegin`/`MutationEnd` are runProxyMutation; `PauseDesktopBegin`/`End`,
`ClaimDesktop`, `ReleaseDesktop`, `SetMapping`, `ClearMapping`, `BindSource` are
the desktop's compare-and-swaps; `Lost...` is MarkGatewayLost, which joins a
close, waits for another operation, or takes the relay down itself. A caller
that the code parks on `<-op.done` to retry is a caller whose next action is not
enabled. `CloseFinish` returns the EndRun calls parked on a close.

Abstractions. A gateway run stands for its instance id and address, which change
together. `startSeq` counts successful reservations only; ids are compared for
equality. The mapping's target route and source model are left out: `bound` says
that a source was learnt, and the history fields `relay` and `via` say through
what. `lastError`, addresses and observations are left out. A waiting caller's
context cannot end: it would only return.
`ResumeCapture`, `ClaimDesktop`, `ReleaseDesktop` (without expectation) and
`MarkRecovery` have no caller outside tests and are not modelled.

### CaptureProxy

`mu` and `observationGate` (`gateWriter`, `gateReaders`: a waiting writer keeps
new readers out, as sync.RWMutex does), `recording`, the queue, the worker, and
the one lifecycle call the Service admits at a time (`op`). Payloads call
`enqueue`, gateway events `RecordGatewayEvent`. A barrier is the number of its
pause, so that a barrier that timed out is told from the current one.

`CaptureLog` adds the ring (an observation is its sequence number) to the steps that
record, and the autosave writer: a tick of its poll or an export drains the ring into
the file (`Appended`: what it has not seen yet, `Snapshot(after)`, with the distance to
the oldest of it as the gap), where a write may fail before or after its bytes are in the
file. StopTrafficAnalysis closes it after a Disable that paused the relay, the shutdown
of the app at any time when no lifecycle call is in flight, EndRun at any time at all.
A snapshot and the write that follows it are one step: the writer's mutex is held
throughout, and what is recorded meanwhile is not in the snapshot.

### GatewayRun and GatewayTraffic

`runs` follows each run goroutine from spawn to `run.done`; the two looks
onListening takes at the state, with the callback between them, are separate
actions. `GatewayTraffic` lets a run's goroutine be a caller of the Service with
the run's own name: `BindRun` joins BindReturns and BindGatewayRun in one step,
EndRun starts MarkGatewayLost and returns when that call is over. Other callers
act while a gateway is up, because the management API is served by it, and
recovery is confirmed into idle, as the recovery bindings do.

### RecoveryJournal, DesktopState, TrafficTransaction and DesktopRouting

config.toml is its root URL and a revision of everything else, so that a hash of
the file is the file. The record (`journal`) keeps the fields decisions are made
by; `GatewayApplied`, `GatewayCleared`, the traffic checkpoints, `Reconciled`,
`MarkRestored` and `MarkConflict` are its writers, one read-modify-write each. The
capture is the Service of `TrafficService` seen by a caller that finds no
operation in flight: each method is a step with the Service's own guards
(`CanBind`, `CanStart`, `IsDesktop`, ...).

`tx` is the traffic transaction in flight (App.trafficMu), `op` the gateway command
(App.operationMu); the two run beside each other, as in the code, except where a
gateway command takes trafficMu itself. Their `pc` is the next call they make
outside themselves, and one action is that call: `EnableStart`, `EnableClaim`,
`EnableRecord`, `EnableMap`, `EnableSwitch`, `EnableCommit`, then the five undo steps
of backout in their order; `DisableRecord` to `DisableConfirm`; `FinishRecord` to
`FinishConfirm`; `StartService` to `StartToGateway` with the rollback of a failed
integration; `StopTraffic`, `StopDoor`, `StopService`; the `Down...` steps of the
exit. A write fails either without effect or, for config.toml, after the rename
(AtomicWrite reports the failed sync of the directory). Beside them act the
management API of the capture, a gateway that ends by itself, a user who edits
config.toml, and `Crash` between any two steps, after which `Startup` reconciles.

`replaced` is a history variable: the upstream that the front door took the place
of when it was written into config.toml.

### PublishRecovery, AtomicHome and CodexLauncher

`pc` is the next effect of the call that holds the service's mutex: a record saved,
a file copied, written, removed or verified. Every effect may fail, with or without
having happened, every read may fail, and `PublishCrash` may come between any two.
`EditHome` and `EditBackout` are other programs. `AtomicHome` is the promise: three
files that are replaced or withdrawn in one step, and nothing said of a home
somebody else writes. The refinement takes the home as it counts: what it was
before the transaction while the record is open, what it is afterwards.

`CodexLauncher` adds the terminal: `stage` is the next step of the command under way
(one at a time, under codexMu), and the monitor goroutine and the terminal run
beside it. A launch that publishes is `Begin` of the publish and ends when its call
does. A terminal dies with the process (the job is closed by the system).

### ConfigPlane and ConfigSaga

Every request is a goroutine of its own: `call[c].pc` is the next access to shared
state. A mutation of the graph checks the revision, loads the store table by
table, drafts, validates, saves and reloads; nothing is held between these steps.
Applying staged changes takes `applyMu`, lists them, commits them, loads the store
and swaps the snapshot. A resource holds a value or is absent; `ValidConfigs` is
what Config.Validate accepts, `Hot` the resources that need no restart.
`stored` is history: every value the store has held for a resource.

`ConfigSaga` is a desktop client: a saga reads the graph (revision of the store,
then snapshot of the runtime, two accesses), sends one mutation per resource that
differs, starts again after a conflict and verifies at the end. `mode` tells a plain
save from one that is sent regardless and from ActivateSlot, which creates no
model. `mutated` and `reported` are what the saga knows of its writes and tells.

### ConfigFile, ConfigPatches, ConfigStore, ProviderCatalog, RoutingSlots and ModelRouting

```
file --FromFile--> Config --Manager--> snapshot --ResolveOrFallback--> candidates --> request
store --LoadAll--^   |                 resolver of slots --^
  ^-----Save---------'
```

The first five modules are operators, one per function or branch: `FromFile` and
`ToFile` are the two conversions (a conversion the code lets the order of a Go map
decide is a set of results), `Valid` is what Config.Validate says of the fields that
are kept, `ApplyPatch`, `CreateResource` and `DeleteResource` are the drafts of the
configuration graph with what they refuse and what a deletion takes along, `Tables`
and `LoadFile` are the rows a save writes and what a load makes of them, `Repaired`
and `Issues` what a load changes in the store and could not change. `Manager` builds
credentials, clients and the index of a snapshot; `ResolveModel` gives the
candidates of a name in their order. A reference without a provider, which the key of a
slot without one would be, names nothing (`SlotTarget`). A key is absent, plain or encrypted; whether the
platform can encrypt and decrypt (`Codecs`) may differ from one start to the next.
What decides nothing about the way of a request is left out; a price is a number.

`ModelRouting` has the actions. `Start` is runTransform with its choice between file
and store; `Commit` is acceptCandidate up to its save, `Reload` the new snapshot; after a change
the desktop made, `Derive` reads back what runs by then and `Refresh` installs a
resolver of that: a request between the three meets an old and a new part.
`SaveStopped` is the desktop's save of a profile while nothing runs. A request takes
one action for each look it takes at what is shared: `Receive` notes the resolver,
`Resolve`, `Filter` and `Enter` each take the snapshot of their moment, `Skip` and
`Forward` go through the candidates of the pass-through (`left`, the numbers of those
not tried yet: filters and failovers take numbers away and the least one is next), `Adapt` applies the policy,
`SendOwn` takes a chat or Google client (cached, else made of the snapshot, else of
the start) and `SendManaged` the client of the manager its candidate came from. `sent` is
history: what each upstream request carried. Changes come one at a time; what two of them do to
each other is the subject of `ConfigPlane`.

### ResponseStream, ProviderStreams, Upstreams, ReasoningCache and ResponsesServer

```
upstream --chunks--> provider adapter --core events--> streamLoopWithBuf --> handler --> client
```

The two converters are pure: `FromChat`, `FromAnthropic`, `FromGoogle` and `Convert`
take a state and the next input to the next state and what is sent for it, with one
operator per branch of the code's switches. The state of `Convert` is the maps of
`streamLoopWithBuf`; a Go map is a function, and reading an absent key gives its
zero (`Get`). A text is the sequence of the chunks it came in, so that a lost,
doubled or misplaced delta shows.

`Upstreams` is the grammar the adapters are written for. It keeps `told`, the blocks
of the answer as the upstream means them, beside the chunks it sends: the reference
that a response is compared with. `ResponsesServer` has one action per step of each
goroutine: `TakeChunk` converts a chunk, `Emit` or `Drop` is the select of one send,
`ConvertNext` takes one core event, `Receive` and `Write` are the loop of the
handler, followed by `RememberCompleted`, `RememberBuffer` and `Return`. On the path
of a whole response (`"whole"`, from a search or visual loop) the channel between the
goroutines has no buffer (`HandOver`); a synthetic stream goes block by block
(`NextBlock`) and ends at the first send that fails. A chat or Google stream has a reader of its
own, an Anthropic stream is read by its adapter: there, a channel of one chunk
stands for the body.

`shown` is history: what the client was told of each item. A handler that returns
ends the context, which the select of each send looks at; the hand-over from
`streamLoopWithBuf` to the handler does not.

### CodexTools, Conversions, ToolLoops and Conversation

```
client --items--> convertInput --core messages--> adapter --request--> provider
client <--items-- FromCoreResponse <--core blocks-- adapter <--answer----'
```

`Conversation` is the session: `SendRequest` converts the whole history of the client
(`input`) to `core` and `request`; `ProviderAnswers` lets the provider answer any
sequence of blocks of its protocol, and the answer is delivered (`Deliver`), or begins
another round (`NextRound`), as `SearchLoop` and `VisualLoop` decide; `ClientContinues`
appends the answer to the history, with the outputs of its calls or a new message,
and with or without its reasoning. `UpstreamFails` returns to the client, which sends
the same history again. `said` is history: what the provider said, the reference that
later requests are compared with.

The conversions are pure operators, one per function or branch, folded over the items
as the loops of the code are. A text is the sequence of the pieces somebody said, so
that joining texts joins sequences and a text that is lost, doubled or put in the
wrong message shows. Arguments are the field that carries the payload, the action
beside it, and the payload, whose form tells whether it is still what the provider
sent, a patch, or the text of the JSON around it. `convertInput` keeps slices in
`pendingReasoning` and truncates them, so the model has backing arrays with their
capacities (`AppendSlice`): an append within the capacity is seen by a message that
shares the array. What a chat message has in fields of its own are blocks of one
message, in the order a reader gets them. `FromCoreRequest` of Google gives each
result the name of the last call with its id, `fromPartWithSeq` numbers the calls of
each name anew in every answer.

## 4. What is checked

| Run | Instance | Result |
|---|---|---|
| `TrafficService` | 2 callers, 2 runs, 2 owners, 2 starts | 5 properties hold (about 150 000 states) |
| `GatewayTraffic` | 2 runs and 1 other caller, 1 owner, 1 start, fairness | 2 hold, one of them liveness (about 220 000 states) |
| `CaptureProxy` (module `CaptureLog`) | 2 payloads, 1 event, queue of 2, 2 pauses, ring of 2, 4 observations | 4 hold, among them the refinement (about 5.6 million states) |
| `DesktopRouting` | 2 gateway runs, 1 relay, 1 Enable id, 1 edit, 2 troubles | 7 hold (about 3.1 million states) |
| `CodexLaunch` | 1 version of each file, 2 transactions, 2 faults, 1 edit | 5 hold, among them the refinement (about 1.1 million states) |
| `ConfigSaga` | 2 clients, 2 resources in 2 tables, 1 saga with 2 attempts, 2 requests, 1 staged change, 1 restart | 4 hold (about 1.9 million states) |
| `ModelRouting` | 4 providers of 3 protocols, 2 models, 2 routes, 2 profiles; 2 files, 3 stores, 7 changes and a save without the gateway, 8 kinds of request; 2 starts, 2 changes, 1 request | 4 hold (about 480 000 states) |
| `Responses` | five paths, answers of 4 chat chunks, 8 Anthropic events, 3 Google snapshots or 2 blocks, channels of 1, fairness | 5 hold, one of them liveness (about 770 000 states) |
| `Conversation` | 21 kinds of session (3 protocols; history, search, visual, many tools; plugin on or off), 3 requests, 2 rounds, answers of 2 or 3 blocks | 4 hold (about 470 000 states) |
| `GatewayRestart` | as GatewayTraffic | finds the behaviour of section 6 |
| `CapturePause` | 1 payload, 1 event, queue of 1 | finds the deadlock of section 6 |
| `StreamPanic` | a chat answer of 4 chunks whose client leaves | finds the panic of section 6 |

*TrafficService.* `NoOrphanRelay`: a listener always has someone who will close
it. `HoldersOwnRelay`: the tokens of operations stay valid (`OperationOwnsRelay`), and
desktop mode has relay, owner and run (`DesktopOwnsRelay`). `RequestsCarryBoundRun`:
requests are never relayed in another
run's name, nor while no run is bound. `MappingIsNotStale`
(`MappingBelongsToRelay`, `SourceBoundThroughRelay`): routing evidence is never left over
from an earlier relay or run. `EvidenceIsKept` (an
action property): a recovery keeps the relay, the generation and the owner it is about,
and no start begins in it, until the operator confirms it (`Confirmed`). Two steps end it
without confirmation, and both are named: the normal end of the bound gateway run
(`NormalEnd`), and, only while there is no relay, the commit of a start that was in
flight before (`LateStart`); section 6 tells what a comment promises instead. A desktop
transaction keeps its relay, generation, gateway and owner, also into the recovery it may
turn into, and otherwise ends by its own release or with a normal end of its gateway.
Without any one of these exceptions TLC finds a counterexample.

*GatewayTraffic.* `RunsAreBracketed`: EndRun lies inside its run (`EndRunInsideRun`), and a
published run is bound (`RunningIsBound`). `CallsAndStopsReturn`: as long as the calls
of the relay return (`RelayCallsReturn`), every call into the Service returns and a
stopped run finishes, whatever EndRun joins or waits for. The condition is needed, and the
code does not guarantee it: see Fairness below.

*CaptureProxy.* `PassthroughIsQuiet`, `NoSendOnClosedQueue`, and `KeepsContract`:
with `closed` and `doing` mapped, every behaviour of the relay is one of
`RelayContract`, the steps `TrafficService` takes for a relay. `CompletedLogAccounts`:
a log whose footer says it is complete has its lines in order, its lines and gaps add
up, no gap is unexplained by the ring, and after a Disable nothing recorded is missing;
this rests on the barrier of the pause. The ring of 2 with 4 observations overflows
between two drains.

*DesktopRouting.* `OriginalRecoverable`: while Codex is at the front door, the record
names the upstream it replaced. `DiscardKeepsRedirect`: the user cannot discard that
record. `CaptureServesRunningGateway`, `DesktopCaptureHasItsOwner`,
`DoorServesCodex` (`RunningGatewayIsRouted`, `IntegratedDoorOpen`,
`ParkedDoorIsOriginal`): whenever nothing is under way, front door, capture, gateway,
record and config.toml fit together. `DoorLeavesCaptureFirst` and
`FailedEnableLeavesNothing`: the order of the steps of Disable and of the backout. They
speak of a gateway with a session (`StillRouted`): a start that failed closed
(ErrFailClosed) leaves a gateway without one, and a front door that an explicit
recovery had left at the capture stays there (section 6). It takes three troubles to
get there, more than the run admits; as they are, the statements were also checked with
three troubles, two relays and two transactions, and with two troubles, two relays, two
transactions and an edit (24.5 million states), and they are proved.

*CodexLaunch.* `KeepsAtomicHome`: the refinement. `BackoutNeverOrphaned`: the old
auth.json never outlives the record that leads to it. `InterruptedCanBeSettled`:
what a crash leaves can be completed or undone. `OneTransactionAtATime`.
`TerminalIsAccountedFor`: a running terminal is the launcher's, on the home it published.

*ConfigSaga.* `RunningIsTrusted`: requests are served from a validated configuration
of stored values, although the store is read table by table. `OnlyApplyBreaksStore`:
only staged changes turn a store that loads into one that does not.
`NoSilentOverwrite`: a save that changes what it was not asked to was decided on a
store that has changed since. `UnreportedOnlyAfterRetry`: when a failed saga hides
that it has written.

*ModelRouting.* `RestartKeepsRoutes`: what the store holds once a change is at work
loads, and every start makes the same ways of it; a name that means two offers of a
provider is excepted (`NamesAreClear`, section 6). `FreshAfterChange`: a request that
comes once a change is at work is sent with the addresses and credentials of that
change, to Anthropic and pass-through providers; chat and Google clients are the
exception of section 6. `SlotPolicyIsKept`: a request whose name is that of a slot, and of
nothing else, goes to the slot's target and asks what its policy says, whatever the client
and the capture relay's mapping want; every other request asks what its client asked.
`ReadySlotsAreServed`: what the status page calls ready is found by requests of the same
configuration, and sent, if nothing else has the name, the policy of the slot can be
followed (section 6), the page calls the credentials available, of a key that is not
empty, and the provider is one of the manager's own clients.

*Responses.* `AnswerIsFaithful`: a completed response says what the upstream told, the
same blocks in the same order, for every interleaving and on all five paths; the
exceptions (`NotCarried`) are the losses of section 6. `ItemsCloseInOrder`: the client
hears of an item before its parts and deltas, nothing after its end, and of the end
of every message and call before the end of the response, with the exceptions of
`OutOfTurn`. `NoTornEvent`: no event is changed by the converter, one step ahead,
while the handler marshals it, although they share the output array.
`ReasoningIsWhole`: a tool call is remembered with the reasoning before it, whole, or
not at all. `StreamsEnd`: once the client left or the upstream ended, the handler
returns and then the goroutines end, but for the two ways to wait for ever of
section 6.

*Conversation.* `CallsReachTheirTool`: when a provider calls one of its tools with
arguments of the schema it was offered, or an action by the name it read in its history,
the client gets the tool it declared, in its form; an action of several namespaces is
given to none of them, and an injected Anthropic search is not seen. One exception is
named: a custom tool called just "exec" gets the JSON of its arguments in place of the
source (`SourceLeftRaw`, section 6), where "exec_code" gets the source. Nothing is said of
calls that mean none of the tools: invalid arguments, a namespace called with no action or
one it does not have, apply_patch repeated under its own name (section 6). `CallsAnsweredInPlace`: in
every request, also between the rounds of a tool loop, the turn after one that calls
tools holds the results of exactly these calls in their order; what the visual loop
leaves unanswered is excepted (`LeftByVisual`, section 6). `OrdinaryHistoryIsVerbatim`:
a provider reads what was said, one turn for each answer with its text, its calls and no
reasoning but its own, for answers that think at most once, have no empty text and do
more than think; the others are in section 6. `ReasoningIsReplayed`: a call goes back
to a provider that wants its reasoning with the one it came with, whether the client
repeats it or not, after failures and repetitions too.

**Bounds.** Two starts are enough for a superseded start beside its successor and
for a relay of an old run beside a new one; a relay never meets a third, because
`startSeq` and `proxy` are only compared for equality. Two callers give every pair
of overlapping operations. Two runs give every restart. In `DesktopRouting` two
troubles (failing writes, crashes, exits, lost gateways, edits) give a failure in
the handling of another, and one edit an edit beside a failure; transactions
repeat without limit. In `CodexLaunch` two transactions give a second publish that
finds the record of the first, and two faults a crash in a rollback or in startup;
the publish alone was also run with two versions and three faults (7.6 million
states). One version and absence already tell the old content from the new one.
In `ConfigSaga` the user needs the provider, which is what makes a store load or
not; two tables are enough for a mixture; with two staged changes the run also
passes (6.6 million states). In `ModelRouting` two starts with a change in between are the
restart its first property is about; two changes give a change that meets what the one
before it left to do, and the desktop's refresh of an older one; a request shares nothing with
another one but the cached clients, which a change keeps as well, so that one request
meets every combination. The three stores are one never seeded, one of an older release
with plain keys and a single table of slots, and one that no longer loads; the seven changes
reach every kind of resource. In `Responses` four chat chunks give a premature text
block, reasoning, content and a tool call, or two calls; eight Anthropic events give
two blocks with their deltas; with five chat chunks the run also passes. The channel
of core events holds one event instead of 64, which gives every order of the two
goroutines an adapter of 64 has around its limit, and those around an empty channel.
A client leaves while at most `MaxLeave` chunks were sent, and a ping comes as the
second event only: pings are skipped wherever they are. `BufCap` is above the length
of the chat answers (an overflow would need 1024 chunks) and below that of the longest
Anthropic answers, so that a truncated buffer occurs. In `Conversation` three requests
give a history of two answers, so that what is left pending of one meets the next, and
two rounds a loop that goes on and one that gives up; the two answers of a session
have at most `most` blocks together, which gives every pair of an answer of three
blocks and one of two. Every bound is a guard on a counter; the proofs
remove them for the properties listed in section 5.

**Deadlock** is checked in `TrafficService` and `ModelRouting` (whose `Done` is the end of
its last start). It is switched off in the gateway runs,
where the system stops when the runs are used up, in `CaptureProxy`, where the
deadlock of section 6 is real and a closed relay stops, in `CapturePause`, in
`DesktopRouting`, `CodexLaunch` and `ConfigSaga`, which stop when their bounds are
used up, in `Conversation`, whose session ends after its requests, and in the runs of
`ResponsesServer`, whose single request ends.

**Fairness** (`SystemFairSpec`): goroutines make progress (WF on `Proceed`, and on
`Resume` of a call that is not inside the relay); a cancelled server returns, because its Shutdown has a timeout (WF on
`cancelled /\ Serve`); MarkGatewayLost, which retries after each operation it
waited for, is not starved by the mutex for ever (SF on `Look`: sync.Mutex hands
over to a waiter that has starved for a millisecond). That the relay's own calls return
is no fairness assumption but the condition of `CallsAndStopsReturn`, since the code does
not guarantee it: Pause and a gateway event can wait for each other's lock for ever
(`CapturePause`), with every call that needs `p.mu` behind them, and the Stop of
MarkGatewayLost has no timeout (`context.Background()`, `service.go:1354`). What the run
shows is that nothing in the waiting of the Service and of the gateway themselves, joins,
retries and wake-ups, adds to that. In `CaptureProxy`, WF on the lifecycle
call (timers fire), the worker and the readers inside the gate. In
`ResponsesServer`, WF on the handler, the provider and the converter (goroutines that
can run do run, and a write returns), and on the end of the reader once the context
is done; the upstream may stay silent for ever and the client need not leave.

## 5. What is proved

`GatewayTrafficProofs` proves of the Service, for all callers, runs, owners and numbers of
starts, from the assumptions that the empty values are not members of the sets
(`RunAssumption`, `OwnerAssumption`, `CallerAssumption`) and that `MaxStarts` is a
natural number:

- `TypeCorrect`, `ListenersAreOwned`, `OperationsAreExclusive`,
  `DesktopIsGrounded`, `StampIsCurrent`, `MappingIsCurrent`, `SourceIsRelayed`: the
  invariants of the run;
- `HoldersAreGrounded`, `MappingStaysFresh`: the properties of the run that join two of them;
- `EvidenceStands`: its action property, step by step from the same invariant and
  `RecoveryInv` (in recovery no close is registered, and no mutation but the desktop's
  pause or the end of a gateway run): recovery and desktop mode are left in the named
  ways only;
- `RouteIsOwned`: whenever a model resolves through the mapping, the mapping, the
  committed relay, its run and the relay the source was learnt through agree.

The invariants are not inductive. `IndInv` adds: which stages an operation goes
through (`CallShape`); that the registered tokens are exactly the calls in flight
(`TokenInv`), without which the end of an operation could meet a foreign relay;
that a start in flight has a relay number of its own, not committed, and that
numbers not yet used carry no run (`StartInv`), without which a commit could
install a relay twice; and that stopped, failed and closed relays have no
listener except under the operation that is taking it down
(`DownRelayIsSilent`, `ClosedRelayIsClosing`, `StoppedRelayIsSilent`), which is
what makes dropping a failed relay safe. Each action has a lemma
(`StartReserveStep`, ...) with one step per conjunct; `Inductive` combines them.

Of the composition it proves `SystemImplementsService` (the composed system is a
TrafficService, so all of the above holds in it), and with the invariant `RunInv`,
which ties a run's phase to its call in the Service, `EndRunStaysInside`,
`RunningMeansBound` and `RunsStayBracketed`, which joins them, for any number of runs.

`CaptureLogProofs` proves of the relay, for any payloads, events, queue and number of pauses,
`TypeCorrect`, `PassthroughQuiet`, `ClosedQueueUnsent`, and `ContractKept`, the
refinement of `RelayContract`. The invariant says who is inside the gate (`GateOK`),
that a barrier has the number of its pause (`BarriersOK`), that behind the barrier of
the pause in flight there is no payload, in the queue or with the worker (`DrainOK`,
without which the arrival of an old barrier could end a new pause), and at which steps
the recording is off (`OffOK`, `ClosedOK`).

It adds the ring and the log: every step of `CaptureLog` is a step of the
relay or leaves it alone, so the relay's invariant is at hand. `LogAccounts` is
`CompletedLogAccounts` for any ring, any number of observations and any failing writes.
`LogInv` says that while no write has failed the counters describe the file
(`CountersOK`), that the footer is written once and from them (`FooterOK`), and that
what a Disable closed is a relay that can record nothing any more (`DisabledOK`,
`QuietForGood`), for which the invariant of the pause's barrier is needed.

`DesktopRoutingProofs` proves, for any upstreams and any number of runs, relays,
transactions, edits and troubles, `RoutingTypes`, `OriginalStaysOnRecord` and
`DiscardIsSafe`. `OriginalRecoverable` is not inductive: it adds what a redirect that
is being written, rolled back or put back finds in the record
(`RedirectOnRecord`), that a record is only cleared after the file was put back
(`ClearedAfterRestore`), that what was recorded as the file before was not itself
redirected (`BeforeIsNotRedirected`, without which a restore could put back the front
door), and that an integration recorded as inactive is not in place
(`InactiveIsNotRedirected`, without which the user could discard a live record).
The steps of a transaction only need a frame: they leave the original upstream and
the hash of the record alone (`TxFrame`).

`DesktopCaptureProofs` proves the other properties of `DesktopRouting` in two layers on
top of it. `CaptureInv` says who holds the capture of the desktop at every step of a
transaction, of the gateway and of the app: an owner with a claim under way or settled,
with the run, the generation and the record (`DesktopHeld`, `Claimed`, `Settled`); that a
gateway start is of a run no transaction knows (`StartingIsNew`), that what verifyGateway saw
still holds when the claim is made or the capture is not to be claimed (`VerifiedRun`); and where
the front door may be while this changes (`DoorLeft`, `EnableDoor`, `RoutedCapture`,
`ClosedIsUnused`). From it follow `CaptureIsServed`, `OwnedCaptureCanBeGivenBack` and the
action properties `CaptureIsTouchedLast` and `FailedEnableIsUndone`. `DoorInv` says where the
front door leads: a session has it until its gateway is about to stop (`RoutedSession`), a record
with a target was applied, in the journal and in what Disable and Finish read of it
(`TargetApplied`, `SourceApplied`), without which a starting app would not
recognise a Codex that is still redirected, the recorded hash is not newer than the
file (`AfterIsOld`), and a parked door is parked on the replaced upstream
(`ParkedDoor`, from `OriginalRecoverable`). `ParkedOnOriginal` and `DoorIsServed` follow.
Most steps of the app satisfy one of two frames (`BesideTx`, `MovesKeepDoor`), so that
each lemma only says which.

`PublishRecoveryProofs` proves all properties of `CodexLaunch` for any contents and
any number of transactions, faults and edits: `LauncherTypes`, `NoOrphanedBackout`,
`InterruptionIsRecoverable`, `TransactionsInTurn`, `TerminalAccounted`, and
`HomeIsAtomic`, the refinement. The invariant says for every step which phase is on
disk (`CallOK`), that a record is given up only once its backout is gone
(`BackoutOK`), which files are the old and which the new ones, as long as nobody
else writes the home (`HomeOK`: the old files are in the backout before the first
is replaced, and in a rollback everything after the current file is already
back), and what a terminal implies of the last publish (`PublishedOK`, `LauncherOK`).

`ConfigSagaProofs` proves, for any resources, tables, clients and bounds,
`SagaTypes`, `RunningTrusted`, `GraphKeepsStoreLoadable`, `OverwritesAreStale` and
`FailuresAreReported`. The invariant says what a request may rely on between its
accesses to the store: what it has read was stored (`ReadOK`), and is what the store
still holds as long as neither the revision moved nor a staged change was applied
(`FreshOK`); and that a saga that wrote knows it, until it starts over
(`KnowsOfWrite`).

`ModelRoutingProofs` proves, for any files, stores, changes, codecs, environments and
requests, `RequestsAreFresh`, `SlotsKeepTheirPolicy` and `ReadySlotsServe`, from
`RoutingIsSound`. What was sent says nothing of how it came to be sent, so `RoutingInv`
follows a request through the configuration it came under: its candidates carry the slot
and the policy of its name, or none, and the client of the manager that found them
(`FoundOK`, `CandOK`); what is left to try is some of them, only pass-through ones once the
pass-through is entered, and of a manager of the same configuration (`LeftOK`); the
policy was applied once, between `Adapt` and the send (`AskedOK`); and a request that ended
without being sent was one that need not be (`DoneOK`, with `MustBeSent` for what must). Of the
plane it says that the running manager was built from a valid configuration with its
clients and credentials, though statuses may have been forgotten (`ManagerOK`), and that
what waits to be reloaded is valid (`PlaneOK`). A request that outlives its configuration is not
spoken of: `Reload` raises the version above its `since`. The resolver is an exception
by design: a request keeps the one it came with, and the invariant speaks of that one.
`SameWay` and `SameSound` say that all of this depends on a manager's configuration and
clients only, so that the desktop forgetting the issues of a load leaves it alone;
`LeastIsIn` that the next candidate is one of those left, from the well-foundedness of the
naturals. The proofs made the model say more exactly what the code does: a route to a
provider the manager has no client of, a slot without a provider, and the order of the
branches of a key's resolution, of which two overlapped.

`ResponsesServerProofs` proves `EventsStayWhole`, which is `NoTornEvent`, for channels of any
capacity, answers of any length, all five paths and a client that leaves at any point.
The converter may write to any item that an event still in flight names, so
`StreamInv` (`StreamIsOrdered`) speaks of all core events between the provider and the
converter, in their order, and of the indexes the provider may still end (`Endable`).
What is in flight is in order (`Flow`): an index is ended once, or before anything else
is said of it (`EndedOnce`; the chat adapter does end a block that was not begun), no text
is ended after the end of a call (`TextsFirst`), and the whole response, whose items the
event shares, is reported before its items or after their ends (`WholeAtEnds`). `SaidOK`
ties what the handler holds to this: nothing in flight writes to a message that was
announced as done. Each upstream has its grammar as an invariant of stage, chunks
and adapter (`ChatChunks`, `AnthropicChunks`, `GoogleChunks`, and the blocks that are left of a
response). A step of the pipeline takes the first event and keeps the others, adds events
at the end, or does less than that; `Flow` is shown to survive each of these classes
once, and the lemmas of the actions only say which one they are. A dropped event is
no exception: every part of the invariant holds of fewer events.

Type invariants are proved, not checked: they say the least, and the proofs need
them anyway. Only model-checked: liveness (`CallsAndStopsReturn`, `StreamsEnd`), which
is out of the prover's reach; `RestartKeepsRoutes` of `ModelRouting`, which says that long
conversions of whole configurations, functions folded over rows, undo each other; and
the properties of `ResponsesServer` and `Conversation` about what is said. Of these,
`AnswerIsFaithful`, `ReasoningIsWhole`, `CallsReachTheirTool`, `CallsAnsweredInPlace`,
`OrdinaryHistoryIsVerbatim` and `ReasoningIsReplayed` compare an answer or a history with what
its conversions make of it, a fold over data, about which nothing can be shown without
induction over sequences, and the library's induction theorems take an operator the
installed provers cannot instantiate. `ItemsCloseInOrder` needs no induction, but its
exceptions (`OutOfTurn`, `NotCarried`) depend on what texts and arguments say, which
`StreamInv` leaves out on purpose; an invariant that follows the contents of every block
through both converters has not been written. `NoTornEvent` depends only on which items
the events name.

## 6. Where code and documentation disagree

- **A restart is refused** (`GatewayRestart`). A normal end with a capture leaves
  the stopped relay committed and the identity empty; the next BindGatewayRun
  reports a foreign owner and the gateway start fails until the capture is
  closed.
- **Pause and gateway events can block each other for ever** (`CapturePause`):
  opposite lock orders of `p.mu` and `observationGate`. The same run also admits
  the second way into a stuck Pause: the barrier is sent into a full queue under
  `p.mu` while the worker needs `p.mu` for the barrier of an earlier pause.
- **A client that leaves can end the process** (`StreamPanic`): the chat adapter drops
  the start of a tool call when the context is done, delivers its end, and the
  converter indexes an empty output in a goroutine that nothing recovers
  (`openai/adapter.go:853`).

The models show more of the kind, each found as a counterexample while the
properties above were sharpened, and stated here without a run of its own.

*Recovery of the traffic Service.* A start in flight when the run is lost passes its
commit gate, which does not look at the mode, and sets capture_only
(`service.go:386-401`, `417`); a normal end sets idle (`1329-1331`). The comment of
ClearRecovery says "It is explicit-only; nothing automatically clears recovery"
(`service.go:1249-1250`). `EvidenceIsKept` names these two ways out, `LateStart` and
`NormalEnd`, and shows that there are no others; a recovery about a relay is never turned
back into a capture without confirmation.

*Log of a capture.* After a Disable that failed nobody closes the log: when the recovery
was confirmed and the next Enable succeeded, its `prev.Close(false)` drains what the
ring of the new relay holds into the log of the old one (`traffic_autosave.go:546-549`).
Close drains even after a failed sync, and appends the same lines again, where the
comment says that a failure stops further appends (`traffic_autosave.go:134-136`). The
shutdown closes the log as complete although its Disable may have failed with the
relay still recording (`app.go:427-442`).

*Gateway.* A user stop can be abnormal: Stop between the bind and its publication
makes onListening return ErrStartCanceled, and a Shutdown that times out returns its
error; both end in recovery, where "A successful bind is still owned and must receive
normal EndRun cleanup" (`gateway.go:323-325`) and `service.go:1291-1293` promise a normal
end.

*Desktop routing.* StopGateway holds operationMu, an Enable of the user interface
trafficMu: an Enable between the traffic teardown of StopGateway and its svc.Stop leaves
Codex at a front door that forwards to a listener that is gone, where
`desktop-app/app.go:656-658` promises "so Codex never points at a stopped capture
listener" (`CaptureServesRunningGateway` states what holds: a
gateway with a session). An upstream the user sets while Codex is redirected can be
overwritten, where `gatewayintegration.go:85-86` promises a conflict
(`UserUpstreamKept` states it). A Finish that began before a gateway loss and a
restart writes its stale target back into the record; an Enable that is undone
likewise overwrites `reconciliation_required` with `aborted`, and an aborted record
blocks later Enables. A gateway Enable or Disable that a crash tears blocks the next
gateway start until recovery. RestoreRecovery in a live capture leaves the front
door at the capture, which Finish or the management API then closes. A failed Enable
that cannot back out leaves the door parked on the default upstream. After such a
recovery a start that fails closed (the redirect and its rollback both failed) keeps a
gateway that no session and no front door lead to.

*Publish.* After the first launch fails on a home that did not exist, startup finds
the home missing, reports a changed home and stays in `rollback_required`
(`rollback.go:179-184` means to leave the empty home). A crash at `backout_copied` of a
first launch leaves the created home behind, against `state.go:75-80`.
ReconcileStartup has no caller in the application, so an interrupted publish makes
every later launch fail with `transaction_active`. A temporary file that a crash left
makes the rollback of a first launch fail. AtomicWrite says that on any failure the
original file is untouched; a failed sync after its rename leaves the new one. A
rollback classifies and then restores: an edit in between is lost
(`rollback.go:108-109`).

*Configuration.* The revision check of a patch is a check, not a lock: two patches
with the same base both commit, and the second takes the first one back. The graph
pairs the revision of the store with the snapshot of the runtime, so that a routing
profile saved from it can take back another profile with no conflict ("Other
profiles are preserved", `routingprofile/service.go:285`). Two saves may reload in the
other order, and the runtime stays behind the store, where docs/CONFIGURATION.md:46
promises that what is committed takes effect. Staged changes are committed without
validation and without a new revision ("If applier fails, DB is in a consistent
state", `sqlite_store.go:841`): a store that no longer loads makes every patch fail, and
a restart silently runs on the configuration file. DiscardPendingChanges does not
take applyMu and may discard what is being applied. A change that needs a restart
goes live with the next hot reload. A saga that fails hides its writes after a
conflict (`reconcileOutcome` starts anew), after a lost answer, or when ActivateSlot
misses a model, where `deepseek/settings.go:430-432` says that any failure after the
first committed mutation reports it.

*Configuration and providers.* A key whose migration failed is cleared in memory,
and the next save of anything deletes and writes its row: the plaintext is lost, where
`sqlite_store.go:422-425` says "failed providers keep their DB plaintext (recoverable)".
The clients of chat, Google and pass-through providers get the key as it is stored, encrypted,
and ignore `api_key_env` (`app.go:430-462`, `server.go:500-553`), where credentials.go
calls its resolver the single place where stored ciphertext is decrypted. Chat and Google clients
are cached and never invalidated ("invalidated when Runtime reloads",
`server.go:198-199`). After a reload the issues of the last load are gone, so that a provider
whose stored key could not be read falls back to its variable. A slot in thinking mode without an
effort is valid and shown as ready, and every request for it is refused. A profile
changed in the web console never reaches the resolver. A route is saved with the
upstream name of its model and read back as a name of a model (`convert.go:200`,
`config_loader.go:766`), so it may come back as another one, and loses the price and the
modalities it had. What an offer overrides of an extension is written into a map that all
providers of the model share (`config_loader.go:712-728`).

*Responses, goroutines.* After a failed write nobody takes the converter's events: its
goroutine never ends, and with tracing the handler waits for it for ever in
`clientBuf()` (`adapter_dispatch.go:1766`). Reasoning is cached only after
`response.completed` was written, so a client that answers at once may not find it.
Aborted and failed streams are counted as "success", errors before the stream begins
not at all.

*Responses, chat and Google.* A stream that breaks off is reported as
`response.completed`, because the readers only log the error. The transition from a
premature text block to reasoning sends ContentBlockDone with the new index
(`chat/adapter.go:377-382`): the text item is never closed. An answer of calls alone
ends a message that was never added; reasoning items never get
`output_item.done`. Reasoning after the first tool call would take the slot of a
call. `computeDelta` repeats the whole text when a snapshot comes twice, where its
comment speaks of a shorter one; streamed function calls of Google are dropped.

*Responses, calls.* A nested call whose action never appears is reported done twice
on a chat stream and placed after later calls, and lost on an Anthropic stream; on
the path of a whole response every nested call is ended twice. The input of a
server-side tool reaches the client as a stray delta of item 0, against "Do NOT
forward". `coreResponseToStreamEvents` drops tool calls. A search loop that meets
other calls beside its own returns the injected calls to the client (chat, Google), and
the visual loop continues with calls nobody answers.

*Conversations, histories.* An answer is appended to the reasoning that waits for it
(`append(pendingReasoning, blocks...)`, then `[:0]`, `openai/adapter.go:1316-1317`), so
the message shares the array: after an answer of an empty text and a reasoning r1 the
next reasoning r2 overwrites it, and the first message then tells r2. The reasoning of
an answer that only thinks waits past the next user message and is put in a later
answer. FromCoreResponse puts reasoning before the text that preceded it. With a
model whose name says it reasons, the empty reasoning block of `convertInput` keeps
the Anthropic adapter from replaying the cached reasoning.

*Conversations, tools.* A custom tool named "exec" is offered with a `source` field, but
RebuildGrammar decides by a prefix `exec_` and hands the client the raw JSON. A
repeated shell call has no name, and an apply_patch call repeated under its own name
is not in the tool map. An action of several namespaces has none when it is called
by its bare name.

*Conversations, rounds.* The comment at `orchestrator.go:114-117` wants injected searches
hidden from the client; the loops of chat and Google return them in an answer that calls
others too, and with visual tools enabled no search loop runs at all. A visual answer
that also calls others goes on with calls nobody answers; of several visual calls a
chat provider gets the first result only, since they are one message; on Google, whose
stop reason is never "tool_use", visual calls go to the client. An error that a
search returns is put into JSON without escaping (`orchestrator.go:334`).

## 7. What is not modelled

- HTTP and WebSocket relaying, the analyzer's decoding, and the plugins that rewrite one
  field of a request: a model would restate their field mappings. Statistics are one mutex around a summary;
  egress observation decides nothing.
- Of conversations: images and files, system messages and instructions, tool_choice,
  usage, signatures, several choices or candidates, the cache planner, hooks, and
  what RewriteMessages and PreprocessInput of the DeepSeek plugin add or strip when they
  are configured to; records by assistant text. In visual rounds of an Anthropic
  session the plugin remembers every round; the model remembers the delivered answer,
  since the calls of the other rounds never reach the client.
- Of streaming requests: the search and visual loops and the choice of a provider
  before the stream begins; several choices or candidates; signatures, usage, models
  and sequence numbers; hooks that skip events; the removal of the action from the
  deltas of a nested call; the records by assistant text and the limit of the
  reasoning cache; CoreTextDone, which no adapter emits.
- Of the way of a request: prices and usage, retries of HTTP calls, sessions, the probe of
  a provider's web search (any outcome), preferred providers and the models' other metadata.
- SQL and YAML as such, cryptography, TOML editing, logging, the user interface,
  the web console and the legacy Rust shell are data handling or presentation. What
  validation accepts is a constant of `ConfigPlane`; `ConfigFile` has the rules about
  providers, models and routes.
- Of modelled components: the layout, retention and export of the capture log,
  RefreshRecoveryStatus (reads without
  a lock), the exit handoff, PhaseRestartFailed and CleanupPending (DesktopRouting);
  the timeout of svc.Stop and cancelled contexts there; the copied tokens of the
  routing gate; backup retention; the discovery of Codex and its process tree
  (CodexLauncher); DeepSeek's Clear and the import and export of YAML (ConfigPlane and
  ConfigSaga); two changes at a time (ModelRouting).
- Memory-model effects below the locks and atomics: the code takes its locks
  everywhere the model has an action.

To run: `tlc -config TrafficService.cfg MCTrafficService.tla` and so on, as listed
in `PROJECT.json`; `tlapm GatewayTrafficProofs.tla` and likewise for the other
`...Proofs` modules.
