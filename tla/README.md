# Remote Pi in TLA+

TLA+ models of [Remote Pi](../src/README.md), checked with TLC and proved about with
TLAPS; section 4 says what is left to TLC. The models are translated from the source in `src/`;
where a comment of a model names a line of a document, that line is what a property was taken from,
never what a definition was taken from.

Remote Pi lets a browser (an *owner*) drive coding agents that run on other computers (*devices*).
Three programs take part:

- the **relay** (`src/relay`, Rust), through which everything passes and which keeps no state on disk;
- the **host** (`src/pi-extension`, TypeScript): an extension inside every Pi process, which is an
  *endpoint* of its device, and a **daemon supervisor** that keeps Pi processes running;
- the **PWA** (`src/pwa`, TypeScript), the browser's side.

## 1. The system

### 1.1 Components

State, operations and what makes each correct. The last column says where it is modelled.

| Component | State | Operations | Correct when | Model |
|---|---|---|---|---|
| Relay registry and peer handlers (`relay/src/peers`, `handlers`) | endpoints by (device, endpoint), owner connections, subscriptions, one channel per connection | hello, auth, register, replace, update, subscribe, route, unregister, close | one connection speaks for an endpoint; a route's ends are who they say; nothing outlives its handler; owners hear of every change | `RelayRegistry`, `RelayViews`, `RouteAuthority` |
| Relay protocol and authentication (`protocol/outer.rs`, `auth/challenge.rs`) | challenge | parse, verify | only the holder of a key registers as its identity | in `RelayRegistry` |
| HTTP server, config, logging (`main.rs`) | none | | | not modelled |
| Daemon supervisor (`daemon/supervisor.ts`, `registry.ts`) | slots, lifecycle queues, restart and stability timers, `daemons.json` | start, stop, restart, unregister, failure, retry, cwd reconciliation, shutdown | one process per daemon; a stopped daemon stays down; a wanted one runs or says why not | `Supervisor` |
| RPC child (`daemon/rpc_child.ts`) | child process, readiness, failure, busy mark, pending requests | spawn, probe, stop, get_state, prompt | ready and failed are reported once, for the right runtime; no request waits for ever | `RpcChild`, `CronScheduler` |
| Cron (`daemon/supervisor.ts`, `cron_registry.ts`, `status.ts`) | jobs, live timers, firings under way | add, remove, enable, fire, catch up, record | a prompt goes to the runtime that was found fit for it; timers follow the jobs; every firing ends | `CronScheduler` |
| Control protocol, CLI, installers (`daemon/client.ts`, `install.ts`) | none | | | not modelled |
| Pairing (`pairing/qr.ts`, `runtime/pairing_coordinator.ts`) | active token and its reservation, attempts | issue, reserve, commit, release, handle, run, roll back, abandon | `pair_ok` is durable and given once per token; a failed pairing leaves nothing | `QrSession`, `HostRuntime` |
| Owner storage (`pairing/owner_storage.ts`) | `peers.json`, slot tokens, mutation lane | list, add, roll back, remove | no rollback undoes a later confirmed write | `HostRuntime` (one process) |
| Device identity (`pairing/storage.ts`) | `identity.json`, two keyring entries | load, migrate, mint | an identity owners were paired under is never replaced, a migrated key never lost | `HostIdentity` |
| Relay lifecycle and client (`runtime/relay_lifecycle.ts`, `transport/relay_client.ts`) | state, generation, active and pending client, timer | start, stop, connect, reconnect, close | one live connection; a started runtime is never stranded | `RelayLifecycle` |
| Runtime composition (`index.ts`, `runtime/owner_router.ts`) | owner bindings, endpoint update queue, session | attach, detach, route, refresh, revoke, replace the session | bindings belong to the live connection and the live session; the relay's ACL follows `peers.json` | `HostRuntime`, `SessionReplacement` |
| Session service and timeline (`timeline/`, `protocol/v2/session_state.ts`) | runtime, idempotency records, cursors, generation | hello, user message, publish, page | a repeated request takes effect once; what is published is what a page yields | `HostSession` |
| Actions, `/new` bridge (`actions/`) | pending request, run, switch permit | dispatch, run, time out, answer | one true answer per request; one switch per run; the answer before the bye | `SessionReplacement` |
| Extension UI (`extension_ui_bridge.ts`) | open flows | ask, respond | | not modelled |
| PWA endpoint registry (`pwa/use-endpoint-registry.ts`, `runtime.ts`) | endpoints in memory and IndexedDB, newest runtimes, persistence chain, selection | apply control frame, persist, reload, select, remove | the list is what the relay said last; nothing is kept of a removed device | `EndpointRegistry` |
| PWA connection (`remote-pi/relay-client.ts`, `pwa/reconnect-state.ts`, effects of `pwa-app.tsx`) | socket, retries, what the page says | connect, retry, hello, join, bye, go off and on line | one retry per loss; no page waits for nothing; "online" means joined | `OwnerConnection` |
| PWA pairing (`pwa/use-device-pairing.ts`) | dialog, attempt | scan, request, cancel, store | the dialog is that of the attempt | `DevicePairing` |
| PWA timeline (`pwa/timeline-*.ts`, `pwa-app.tsx`) | view, partials, unsettled messages, journal, cached window | join, page, publish, commit, cache | what is shown is the host's history, without gaps | `PwaSession` |
| PWA service worker, rendering, images | | | | not modelled |

### 1.2 How they interact

- A host connects to the relay as `(device, endpoint, runtime)` with an **ACL** of owners; an owner
  connects as itself and subscribes to devices. Both prove an Ed25519 key over a challenge.
- Frames between hosts and owners are opaque to the relay (`route`); *session* frames pass only when
  the owner is in the ACL, *pairing* frames always.
- Pairing: the host shows a token, the owner sends `pair_request`, the host writes the owner into
  `peers.json`, sends the relay an `endpoint_update` with the new ACL, and answers `pair_ok`.
- Session: the owner says `session_hello` to an endpoint it was told of; the host makes a *binding* with a
  service of its own, answers with scope and readiness, publishes Pi's events and answers page requests.
- Inside a host everything is one JavaScript thread, so interleavings happen at awaits only: file
  reads and writes, the relay connection, timers, Pi's promises. The relay runs its handlers on a
  multi-threaded runtime; they meet at one mutex and at the channels. Several Pi processes of one device
  share files and keyring without a lock.
- The supervisor speaks to its Pi processes over their stdio and hears of their exit from Node.
- The PWA is one thread too; its interleavings are those of socket callbacks, IndexedDB transactions,
  timers and effects.

### 1.3 What is hard

- **Relay**: handlers of replaced connections are still running; events are computed under the mutex
  and pushed after it is released; the replaced handler unregisters long after its successor came.
- **Supervisor**: operations await the exit of a process; timers fire and crashes happen meanwhile. A
  scheduled prompt waits twice for a runtime that may be replaced while it waits.
- **Host**: every await of a pairing attempt can be overtaken by a lost connection, a retry, a
  revocation, an expired token, a stop; writes of `peers.json` overlap reads. Bindings are remade while
  messages and pages are under way, sessions replaced while streaming.
- **Identity**: a keyring call may fail, hang, or land after it was given up, on any attempt of any of
  several processes.
- **PWA**: control frames arrive faster than IndexedDB answers; a page, live events and the cached window
  meet in one view; one lost connection is reported three times.

`PROJECT.json` lists the hazards at their lines, with the properties that watch them.

## 2. Modules

| Module | Models | Used by |
|---|---|---|
| `RouteAuthority` | the relay's promise about routes, abstract | refined by `RelayRegistry` |
| `RelayRegistry` | `handlers/peer.rs`, `peers/registry.rs` | `RelayViews`, `RelayProofs` |
| `RelayViews` | what a browser has been told, over `RelayRegistry` | `MCRelay` |
| `RpcChild` | one child handle, as functions on a record | `Supervisor` |
| `Supervisor` | `daemon/supervisor.ts` with `RpcChild`, one daemon | its own runs, `CronScheduler` |
| `CronScheduler` | jobs, firings and prompts, over every step of `Supervisor` | `MCCron` |
| `RelayLifecycle` | `runtime/relay_lifecycle.ts` | `HostRuntime` |
| `QrSession` | `pairing/qr.ts`, as functions on a record | `HostRuntime` |
| `HostRuntime` | coordinator, owner storage, bindings, router, updates, revocation | `MCHost` |
| `HostIdentity` | `pairing/storage.ts`, several processes | `MCIdentity`, `IdentityProofs` |
| `SessionReplacement` | `actions/session_new_bridge.ts`, the session hooks of `index.ts` | `MCReplacement`, `ReplacementProofs` |
| `HostSession` | the timeline and the service of one binding | `PwaSession` |
| `PwaSession` | the owner's view of a session, composed with `HostSession` | `MCSession` |
| `EndpointRegistry` | the endpoints a page shows and stores | `OwnerConnection`, `DevicePairing` |
| `OwnerConnection` | the page's relay connection and joined session | `OwnerPage` |
| `DevicePairing` | the pairing dialog and its attempts | `OwnerPage` |
| `OwnerPage` | one page: the two above over one `EndpointRegistry` | `MCOwnerPage` |
| `RelayProofs`, `CronProofs`, `HostProofs`, `IdentityProofs`, `ReplacementProofs`, `PageProofs`, `SessionProofs`, `TimelineProofs` | proofs | |

Definitions marked *Slip* are faulty readings of the definition that follows them. Nothing uses them;
substituted for that definition they show which property notices.

### 2.1 Relay

`phase[c]` is where the task of connection `c` is in `handle_peer`: `hello`, `auth`, `active` (the
`select!` loop), `closing`, `closed`. `endpoints`, `owners` and `subs` are `RegistryInner`; `rx[c]` is the
unbounded channel the task drains; `pending[c]` holds the events computed by `register_host`,
`update_host` or `unregister_host` that `send_notifications` has not yet pushed. A handler is in no other
step while it pushes. Snapshots (`subscribe_endpoints`) and routes go into the channels under the
mutex, so they are part of the step that computes them. A replaced host is noticed as in the code: its
sender is dropped, its channel ends once drained, and it leaves its loop. Signatures are ideal: a client
signs with the key it has, and `verify` compares the signer with the hello. Sizes, JSON and base64 are
reduced to frames that are rejected.

`RouteAuthority` knows only the holder of each key, the owners it grants, the connections ("seats") of each
owner, connections that are gone, and mail. Frames that carry no authority (snapshots, presence and
visibility events) are notices, of which only the number and the mailbox matter.
`RelayRegistry!ImplementsAuthority` is the refinement: a takeover moves authority in one step, only
the holder routes and is routed to, session routes need the ACL of the moment, a route to an owner
reaches all of his seats and nobody else, order in a mailbox is kept, and a late unregistration takes
nothing from the successor.

`RelayViews` adds what a browser believes from the frames pushed to it (`Read`), and which keys were last
described by an event that was already overtaken (`Misled`). A step pushes a connection one frame, or the
snapshots of a subscription, each of another device, so that the order in which they are read makes no
difference and both are functions of the set of frames.

### 2.2 Supervisor and cron

One registration, since queue, slot and timers are kept per id. An operation at the head of `queue`
runs as a promise reaction; `Busy` says one is ready, and then no other callback runs. It yields only
at `await child.stop()` (`pc = "stopping"`). `slot` is the `ChildSlot` in `children`, `handle` the `RpcChild`
of the last slot, `procs` every process ever spawned with what became of it, `retries` the slots with an
armed restart timer (old slots' timers included), `stability` the runtime whose 30-second window runs.
`Say` lets any process, even one that is gone, deliver a line of buffered output, since the code does
not tie stdout to the child it came from. `Reconcile` counts missing observations of the cwd.

`CronScheduler` takes every step of `Supervisor` and adds `jobs` (`cron.json`), `armed` (the live `Cron`
timers) and `firings`, the runs of `fireJob` and of a `cron_run` or `send` that wait: for the answer to
`get_state` (`asked`, the runtime they asked), then for the prompt's (`sent`). A firing decides with the
job, registration and slot it read before, as the code does. The exit of a process settles what waits
on it. `missed` are the jobs `runCatchup` is about to serve, before anything else can happen.

### 2.3 Host runtime

`RelayLifecycle` keeps `generation`, `timer`, `active`, `pending` as in the class, and `ops`, the runs of
`startInitial` and `reconnect` that are suspended at an await, each with the generation it was started
with. `clients[c]` is the socket of the c-th client; `lost` is the time between the end of a socket and
its close event. `QrSession` gives `reserveToken`, `commitToken`, `releaseToken` as functions.

`HostRuntime` puts them together. `attempts` are the runs of `PairingCoordinator.run`; `at` says which await
an attempt is at: `adding` (`addPeer`), `updating` (`updateEndpoint`), `rolling` (`conditionalRollbackPeer`),
`refreshing` (the update after a rollback). `listed` is membership of the coordinator's map; `waiting` are
requests that await the completion of a listed one. `lane` is the mutation queue of `peers.json`,
`slotToken` the provenance tokens of `conditionalRollbackPeer`; a record in `peers` is the number of the
attempt that wrote it. `updates` is `endpointUpdateQueue`. `bindings` is `activeOwners`; a binding remembers
its client. `acl` is what the relay last got from the active client, `hello` what the options of the
candidate were built with. `Busy` gives promise reactions priority over other callbacks, as the
event loop does.

Files: `writeFile` truncates before it writes, so a read that overlaps it can find nothing
(`listPeers` turns unreadable contents into an empty list), the old or the new contents
(`Contents`). Only reads outside the lane can overlap: `authorizedOwnerIds` and `findKnownOwner`. A rollback
checks and writes synchronously and is one step.

`reply`, `confirmed`, `told`, `outcome` of an attempt and `used` are history or bounds.

### 2.4 Identity

Every await of `getOrCreateEd25519Keypair` is a value of `pc[p]`: the read of `identity.json` (Path 0), the
two reads, the migration and the minting of Path A, the second look at the file, the look at
`peers.json` and the two halves of `writeFile` of Path B. `new` and `old` are the two service names in each
keyring, `locked` a keyring that does not answer; a call on it times out, and a write given up that way
is in `late` until it lands. A process resolves its ring when it starts. `trusted` is a history variable:
the identity, with owners paired under it, that the process found stored when it started, as long as
nobody else has changed what is stored. `swept` records the rings where a process read the new name
before another's migration and the old one after it, which makes it mint over the migrated key.

### 2.5 Session replacement

`request` are the `session_new` actions in the order they reached `dispatch`; `pending` is the entry of the
bridge's map, `running` its flag with the request whose `run` set it, `permit` is `switchPermit`, `commands`
the commands Pi was sent and has not run. `remote` and `local` are how far the run's own switch and the
one asked for at the terminal have come: asked, past the hooks, `session_shutdown` done, `session_start`
done. `replaced` is `replacedSessionId`, `binding` is `activeOwners` with the channel and the session of each.
Pi is external: it may ask the hooks of two switches before it carries out either, and carries out one
at a time. Whether Pi runs a command it was sent is its affair: nothing makes it.

### 2.6 Sessions and timelines

`HostSession` has one owner's binding. `branches` are the sessions so far, each the sequence of entries Pi
wrote, markers included; `rt` is `TimelineRuntime` (the manager it is attached to, the group, the message
being streamed), `ended` its `setImmediate` callbacks, `sdk` Pi's run and its async context. `binding` holds
the service: whether it is ready, its idempotency records in the order they were touched, and its
cursors. `Recovered` is what `history.ts` makes of a branch, `SelectWindow` what a page takes of it. A
message published live and the same message recovered from the branch must get the same identity,
which is what `ViewIsHistory` is about. `PwaSession` has the other end of the two frame queues: the view
(`scope`, `events`, `partials`, `messages`), the hello under way, the assembler of a page, the journal of live
events, and the cached window with its transactions (`idb`). Event bodies are left out; an event is its
identity, kind, group and whether it is of the old format.

Large answers are cut. A page goes out as one or two `chunk` frames, and an event too large for a frame as
two fragments, in the chunks of a page (`Payloads`) or as frames of their own (`PublishFrames`); the bound
`cut` limits how often. `assembler.chunks` and `parts` are the two assemblers of `timeline-transfer.ts`:
what is not contiguous discards the whole transfer, a page is installed when it is complete and every
event of it is whole, and a replaced scope or a lost session clears both.

`strayed` and `spoiled` are history: that a page asked of an old session took the runtime back to it
(`runtime.ts:94`), and that the cached window was read after the host's had come (`pwa-app.tsx:310`) or
could not be written (`pwa-app.tsx:350`). The properties leave those cases out, section 5 lists them.

### 2.7 The page

`EndpointRegistry` keeps what is shown and what is stored of every endpoint, the newest runtime known
(`history`), and `chain`, the persistence steps that wait for IndexedDB: an endpoint list is computed when
its frame arrives and installed when its transaction is done. `epoch` is `endpointPersistEpochRef`.
`overtaken` and `readded` are history: devices whose report was computed away by one being stored, or
that were reported on while their pairing was being removed.

`OwnerConnection` has the relay effect and the session effect of `pwa-app.tsx` in one record `page` (socket
state, timer, retries, hello under way, joined channel, what is shown), with the operations of the
relay client and `ReconnectState` they call. A failed connection is told three times in one step, as the
code hears of it. `abandoned` is history: the page closed its relay itself. `DevicePairing` has a relay
connection of its own. `OwnerPage` composes them; `EndRemoval` of a device also touches all three.

## 3. Runs

| Run | Instance | Shows |
|---|---|---|
| `relay` | 3 connections: a host, a browser, and one that is either; 2 owners, 2 runtimes, 2 metadata values, 1 endpoint; 1, 0 and 2 frames after registration | entries belong to live, proven handlers, owner entries are exact, routes in channels are genuine, `RouteAuthority` is implemented, a browser's view is exact unless an event was overtaken, a replaced handler ends |
| `supervisor` | 2 requests, 2 faults, 1 move of the cwd, budget of 1 retry | one process, stopped stays down, wanted is never forgotten, operations end |
| `supervisor_spawn` | 1 request, no fault | *violation*: after a refused spawn every later operation waits for ever |
| `cron` | 3 jobs, 1 request, 1 fault, 1 move, 2 firings or changes of a job | prompts stay with the runtime that was asked, timers follow the jobs, firings and shutdowns end |
| `host` | 2 owners (1 paired), 2 starts, 2 connections, any 4 events of a second start, 1 token, 2 requests, 1 frame, 1 revocation, 1 refresh, 1 failing write, 1 session switch | durable and single `pair_ok`, rollback of everything unpaired, pairing until revocation, current bindings, the ACL follows `peers.json`, one connection, no stranded runtime, attempts end |
| `host_rollback` | nobody paired, 1 token, 3 requests, 2 connections | *violation*: two failed attempts leave the owner authorised |
| `identity` | 2 processes, 1 ring, 3 attempts, 4 keys, 4 starts, 2 lockings, 1 crash, 1 revocation | an established identity wins, a migrated key is never lost |
| `identity_rings` | as `identity`, 2 rings | *violation*: a process with another, empty keyring mints beside paired owners |
| `replacement` | 2 owners, 2 requests, 2 local switches, 3 attachments, 1 loss or close | true and single answers, one switch per run, the answer before the bye, no stale binding, requests end |
| `session` | 2 user messages and eleven sets of events (below) | a message is given once per binding, view and cache are the history, nothing is missing, what is settled was given |
| `session_repeat` | as `session` | *violation*: a host that reconnects forgets what it executed |
| `page` | 2 devices, 3 endpoints, 2 runtimes each, nine starts (below) | presence follows the relay, no silent stall, "online" is joined, a removed device is forgotten, the dialog is the attempt's, one retry per loss |

Expiry of a token, loss and refusal of a connection, stop and quit are not counted: they may happen at
any point of every host run.

### 3.1 What the properties are about

- `EndpointEntriesOwned`, `OwnerEntriesExact`, `RoutesGenuine`, `ImplementsAuthority`, `ReplacedHandlersEnd`,
  `ViewsExactUnlessOvertaken`: section 2.1.
- `OneProcess`: however starts, stops, restarts, retries and failures interleave. `StoppedStaysDown`: no timer
  or queued retry brings a stopped or removed daemon back. `NeverForgotten`: a wanted daemon always runs,
  waits for a timer, or carries the reason. `OperationsEnd`.
- `PromptStaysWithItsRuntime`: a firing that asked one runtime never prompts the next. `ArmedFollowsJobs`:
  after any interleaving of changes, and a shutdown. `FiringsEnd`: no question is left without an answer.
- `PairOkIsDurable` (an action property): at the moment `pair_ok` is sent the attempt's own record is on
  disk, the binding and connection are the ones it came on, the token is still the active one.
- `TokenPairsOnce`, `PairedUntilRevoked`, `UnpairedIsRolledBack`: one token, one owner, one request, one
  pairing; no rollback takes a confirmed owner away; none but confirmed, kept or superseded writes
  survive. "Superseded" is what `host_rollback` is about: such a record can be restored later.
- `AclFollowsPeers`: at rest the open relay has exactly the owners of `peers.json`, except when it has only
  heard the initial hello. Torn reads cannot leave a wrong ACL behind, because every mutation of
  `peers.json` is followed by a refresh after it.
- `BindingsAreCurrent`, `OneConnection`, `NeverStranded`, `AttemptsEnd`.
- `PairedKeyWins`, `KeyIsNeverLost`: section 2.4; the first is about what a process *returns*, the second
  about what is *stored*, at every moment and so after every crash.
- `AnswerMatchesOutcome`, `OneSwitchPerRun`, `OkReachesRequester`, `NoStaleBinding`, `RequestsEnd`: one
  answer, the right one, to the channel that asked, before the owners are told to leave.
- `ExecutedOncePerBinding`, `SettledWasGiven`: repetition and loss of messages and their statuses.
  `ViewIsHistory`, `NothingMissing`, `CacheFollows`: what is shown and kept against what the branch yields;
  the last two leave out what is cut off from the beginning of its run (`CutOff`, section 5.2).
- `PresenceFollows`, `RemovedIsForgotten`, `NoSilentStall`, `SessionFollowsEndpoint`, `OneRetryPerLoss`,
  `DialogIsAttempt`: section 2.7, with the exceptions their comments name.

### 3.2 Bounds, and why they are enough

Handlers and attempts of the same kind differ only in identity and order, so the instances have as many
as a conflict needs.

- Relay: a conflict is between a connection, the one that replaces it and the one that watches or talks
  to them: three connections. A second endpoint or device would be a second, independent key of every
  map.
- Supervisor: a second operation arrives while the first awaits an exit, with a failure in between, and
  an exhausted budget: two of each, budget one. Cron adds firings that wait; two events let two firings,
  or a firing and a change of its job, overlap with one crash.
- Host: an attempt, its retry on the next connection, and one disturbance; four events hold a second
  start or a token, two requests and one disturbance. `host_rollback` needs a third request for the
  error answer. `MaxEvents` bounds the sum and is what keeps `host` at 1.5 million states.
- Identity: two processes race; a third key shows an overwriting, a fourth one a second; three attempts
  are the code's own number. One crash and one revocation are one restart with each state on disk.
- Replacement: one request under way, one that meets it, one switch of the terminal beside the run and
  one after it; three attachments let an owner come back on a new channel.
- Session: ten bounds (`MCBounds`), each one kind of interference: a message lost, repeated, refused; one
  that steers a run; a repetition after a record was dropped; older pages while the history moves, is
  compacted or gets a new entry; a recovery meanwhile; partials; pages and events that are cut. `MaxRecords = 1` and
  `WindowGroups = 1` make dropping and paging happen with two messages and two groups. Two frames are in
  flight in each direction.
- Page: nine starts (`MCStarts`) with their own bounds: reports that follow each other over rows of an
  earlier page, two devices, retries until there are none, a lost network with the end of a session, a
  removal, a scanned code, and both at once.

Every bound is a constant used in a guard. Deadlock checking is off in every run: connections leave,
daemons are stopped, hosts quit, and bounds are used up; then nothing need happen. Getting stuck with
work left is what the liveness properties and `NeverStranded`, `NeverForgotten`, `NoSilentStall` exclude.

### 3.3 Fairness

- Relay: a task that can push an event, write a message, or notice the end of its channel eventually
  does (tokio schedules ready tasks). No client is obliged to send, authenticate or leave.
- Supervisor: ready reactions run, Node reports the outcome of a spawn, a killed process dies
  (the code escalates to SIGKILL), an armed restart timer fires, a shutdown goes on. No request, crash or
  output is owed. `OperationsEnd` excepts refused spawns, which `supervisor_spawn` shows to be necessary.
  Cron: the timers of `get_state` and of the prompt's answer fire, and `runCatchup` goes through its
  jobs; Pi owes no answer.
- Host: reactions run and file operations end. The relay may stay away for ever, owners may be silent,
  and nobody need stop anything. `AttemptsEnd` holds all the same, because an attempt that awaits no
  relay finds it closed.
- Replacement: the dispatch timer fires, settled promises are followed up, and Pi brings to an end a
  switch it has begun. It need not run the command: `RequestsEnd` then rests on the timer.
- Identity, session and page: no fairness and no liveness property. What must not get stuck there is
  stated as an invariant of states at rest (`NothingMissing`, `CacheFollows`, `NoSilentStall`).

## 4. Proofs

Eight modules of proofs, for every value of the constants and every number of steps.

| Theorem | Statement |
|---|---|
| `RelayProofs!Invariance` | `Spec => []IInv` |
| `RelayProofs!TypeCorrect` | `Spec => []TypeOK` |
| `RelayProofs!EntriesCorrect` | `Spec => []EndpointEntriesOwned` |
| `RelayProofs!OwnersCorrect` | `Spec => []OwnerEntriesExact` |
| `RelayProofs!RoutesCorrect` | `Spec => []RoutesGenuine` |
| `RelayProofs!Refinement` | `Spec => ImplementsAuthority` |
| `RelayProofs!ViewsExact` | `SpecViews => []ViewsExactUnlessOvertaken` |
| `CronProofs!SupervisorTypes` | `Spec => []TypeOK` |
| `CronProofs!OneProcessHolds` | `Spec => []OneProcess` |
| `CronProofs!StoppedStaysDownHolds` | `Spec => []StoppedStaysDown` |
| `CronProofs!NeverForgottenHolds` | `Spec => []NeverForgotten` |
| `CronProofs!CronTypes` | `CronSpec => []CronTypeOK` |
| `CronProofs!PromptStays` | `CronSpec => []PromptStaysWithItsRuntime` |
| `CronProofs!TimersFollowJobs` | `CronSpec => []ArmedFollowsJobs` |
| `CronProofs!CronRefinesSupervisor` | `CronSpec => Init /\ [][Next]_vars` of `Supervisor` |
| `HostProofs!TypeCorrect` | `Spec => []TypeOK` |
| `HostProofs!Reconnects` | `Spec => []NeverStranded` |
| `HostProofs!OneSocket` | `Spec => []OneConnection` |
| `HostProofs!BindingsFollowRelay` | `Spec => []BindingsAreCurrent` |
| `HostProofs!PairedStays` | `Spec => []PairedUntilRevoked` |
| `HostProofs!TokenServesOne` | `Spec => []TokenPairsOnce` |
| `HostProofs!PairsWhatStands` | `Spec => PairOkIsDurable` |
| `HostProofs!NothingLeftToRollBack` | `Spec => []UnpairedIsRolledBack` |
| `HostProofs!RelayHasPeers` | `Spec => []AclFollowsPeers` |
| `IdentityProofs!KeySurvivesMigration` | `Spec => []KeyIsNeverLost` |
| `IdentityProofs!EstablishedIdentityWins` | `Spec => []PairedKeyWins` |
| `ReplacementProofs!OneSwitch` | `Spec => []OneSwitchPerRun` |
| `ReplacementProofs!BindingsFollowSession` | `Spec => []NoStaleBinding` |
| `ReplacementProofs!AnswersAreTrue` | `Spec => []AnswerMatchesOutcome` |
| `ReplacementProofs!OkBeforeBye` | `Spec => []OkReachesRequester` |
| `PageProofs!PageTypes` | `Spec => []TypeOK` |
| `PageProofs!DialogFollows` | `Spec => []DialogIsAttempt` |
| `PageProofs!LossCountsOnce` | `Spec => OneRetryPerLoss` |
| `PageProofs!SessionFollows` | `Spec => []SessionFollowsEndpoint` |
| `PageProofs!NothingStalls` | `Spec => []NoSilentStall` |
| `PageProofs!RemovedForgotten` | `Spec => []RemovedIsForgotten` |
| `PageProofs!PresenceShown` | `Spec => []PresenceFollows` |
| `SessionProofs!SessionTypesHold` | `Spec => []TypeOK` |
| `SessionProofs!SettledGiven` | `Spec => []SettledWasGiven` |
| `SessionProofs!OncePerBinding` | `Spec => []ExecutedOncePerBinding` |
| `SessionProofs!ViewIsBranch` | `Spec => []ViewIsHistory` |
| `TimelineProofs!NothingFallsBetween` | `Spec => []NothingMissing` |

**Relay.** The assumptions are those of `RelayAssumption`: the constants are of their types, `None` is none
of the values it stands beside, and `Devices` is finite (a subscription sends one snapshot per device, in
some order). The inductive invariant is

    IInv == TypeOK /\ HandshakeStages /\ EndpointEntriesOwned /\ OwnerEntriesExact /\ RoutesGenuine

`RoutesGenuine` is not inductive alone: that a frame's `source` is its writer's proven identity needs the
writer to be registered (`EndpointEntriesOwned`, `OwnerEntriesExact`), and that a registered handler proved
what its hello claims, and keeps it while its routes wait in other channels, needs `HandshakeStages`,
which says what a handler knows at each phase and that a finished one has an empty channel. The proof
has one lemma per conjunct and, under it, one step per action of `Next`; what routing, subscription and
visibility events yield is in lemmas of their own.

`Refinement` follows every action through the mapping. The entries become holder and grants, the owner
entries seats, the phases `gone`, and the channels mail, in which every frame but a route is a notice.
A registration is a `Claim`, a departure a `Leave`, a step that pushes events a `Notify`, a route a
`ToHolder` or `ToOwner`, and what does none of these leaves the abstract variables alone. `IInv` is
needed for the routes: that the writer of a route is the holder or a seat is `EndpointEntriesOwned` and
`OwnerEntriesExact`, that what is in the channel is mail of the right kind is `RoutesGenuine`.

`ViewsExact` needs an account of the time between a change and its event. `ViewInv` says that for every
key a connected browser watches one of four things is the case (`Reaches`): it was misled; it knows exactly what
it may see; a description of the key is still to be pushed to it, which will be true then or mislead; or
there is nothing to see any more, and an end of the only runtime it knows is still to be pushed. The
last is why `endpoint_ended` may name the runtime and need not be the latest event: a later description
cures what an earlier end did, an end cures nothing but its own runtime. `OwnerEntriesExact` is needed
where an entry changes: that a browser with a subscription is among those `visibility_delta` looks at.

**Supervisor and cron.** Assumed is that bounds are naturals and `None` is nothing else. A process that
lives is the child of the last handle (`ChildInv`), which gives `OneProcess`; the rest is about what is queued.
`QueueInv` says that only the head of the queue has begun and what it found, `WishInv` that the slot wants
what the registration says and that a process which should not run is being stopped by the head of the
queue, which gives `StoppedStaysDown`. `NeverForgotten` is the hard one: a wanted daemon that does not run is
`Accounted` for by a retry that is armed or queued, a reconciliation, a block or an exhausted budget. To
keep that one must know that a queued `fail_stop` was not overtaken by a start (`FailInv`) and that the
retry it arms is the only one of its slot and within the budget (`AttemptInv`). All of them have the
exception `Broken`, a spawn the system refused, which is the first disagreement of section 5. The
disjunct of `start` for a slot that is already there and stopped is never taken: such a slot is deleted
before a `start` can reach it.

Every step of `CronScheduler` is one of the supervisor's or leaves it alone (`CronRefinesSupervisor`), so that
the supervisor's invariant holds there too. `FiringInv` adds that whatever waits for an answer has asked
the child the handle has now; that an exit settles what waits on it is what keeps it, and
`PromptStaysWithItsRuntime` follows.

**Host.** Assumed (`LifecycleAssumption`, `HostAssumption`) is that the bounds are naturals, `Paired` are
owners, and `None` is no number, binding, token, holder or outcome. The argument has two halves.

`HostProofs` begins with the invariant of the relay lifecycle. Runs carry different generations, none later
than the class's and none that of the timer; each run that connects has its own client; the candidate
is that of the current run; while a relay is active nothing is under way to get another; every live
socket is the active one or the candidate. `NeverStranded` and `OneConnection` follow, which is the point
of the generation counter of `relay_lifecycle.ts`: it is the only thing that tells a superseded run from
the current one. `ConnectionInv` adds `BindingsAreCurrent`: a client ceases to be current
only in steps that end in `onDisconnected`, which detaches everybody.

`PairingInv` is about the attempts. `Serving` ties the two queues to them: every write and update in
a queue is awaited by exactly one attempt that is at that await, so that what an attempt finds when it
goes on is what its own request did. `AddedInOrder` and `BindingsNumbered` say that attempts of an owner
write in the order they were begun, and that their bindings are numbered in the same order; therefore an
attempt whose binding still stands is the owner's latest, and nothing written after its own record is
of another attempt (`WrittenStands`). That is what makes the look at the binding in `isLifecycleCurrent`
enough: nothing else in the coordinator compares the record on disk before `pair_ok`.
`RollbackKeepsPaired` says that a rollback whose slot token still matches restores a record if the owner
is paired, and `TokensHeld` that all attempts with the active token are of its holder's request, the one
that holds the reservation among them. `PairedUntilRevoked`, `TokenPairsOnce` and the action property
`PairOkIsDurable` are not inductive without them.

What holds at rest needs an account of what is still to be done. `SettlesInv` says that every record in
`peers.json` was confirmed, superseded or kept, or is of an attempt that is not over (`RecordsStand`), and
that an attempt which awaits its rollback or its update has one in the queue; so that with empty queues
nothing is left to roll back. `AclInv` says that an open relay which does not have the owners of `peers.json`,
or an update that has read others, implies a refresh still to come (`ToCome`): a write that has begun or a
rollback in the lane, each of which is followed by one, or an update that has not read yet or has read
what is there now. Torn reads are covered by
that, because what overlaps them is itself still in the lane.

**Identity.** Assumed is only that there is at least one attempt and one key. `LegacyInv` says where the key
of an old install is, what the process at each await holds and what a late request carries: one that
migrates holds the legacy key, a deletion is only reached, or late, once the new name has a key.
`TrustInv` adds that minted keys are new, that a process about to write a file identity trusts nothing,
and what a process that trusts a stored identity has still in front of it at each await: in particular
that Path B with an identity stored and owners paired ends in an error.

**Replacement.** Assumed is that bounds are naturals and `None` is not a switch. `SwitchInv` says that there
is a session unless a switch is between shutdown and start (`Shape`), that the permit is unspent only
while no switch has passed (`PermitUnspent`), and that an owner bound to an old session implies that
`replacedSessionId` is set and somebody is there to act on it (`ToBeTold`). `AnswerInv` says what is known of
the request that is pending, running or still to be run (`Unanswered`), that a request whose run began
a session was answered ok or cancelled or is about to be (`Truthful`), and that the channel of a running
request stands until it is answered unless the relay was lost (`Reachable`). None of the four properties
is inductive alone.

**Page.** Assumed is that `DeviceOf` maps endpoints to devices, of which there are finitely many, that a start
stores no runtime later than the live one, that bounds are naturals and `None` is nothing else.
`LinkInv` ties what is shown to the socket: what must be true of timer, retries and connection attempt in
each state, and when the page has given up. It gives `NoSilentStall`; that the second
report of a loss finds the first already counted, which is `OneRetryPerLoss`, needs only types. `SessionInv` says that a joined channel is that of the
target of the session effect at its last run, or that a change since then has been noticed and the
effect is pending; `RemovalInv`, what is listed and not stored while a device is removed. For
`RemovedIsForgotten`, `RowsInv` says that a persistence step of the present epoch writes no row of a device that is gone,
and that older epochs write nothing: a removal begins a new one after it has waited. `NumbersInv`, that
runtimes are numbered as they come and nothing stored, shown or remembered is ahead of them, and
`PresenceInv`, that the last persistence step to touch a device carries what the relay said last, and
none carries it for another device, give `PresenceFollows`.

**Session.** Assumed (`HostSessionAssumption`, `FirstBranchAssumption`, `InFlightAssumption`) is that the
requests are numbers and finitely many, that window, records and bounds are naturals, that the branch to
begin with is a sequence of entries whose numbers are not minted again (ids are fresh, `runtime.ts:180`), with
markers of different ids, those of a run one after another (the runtime has one run at a time), and
that `None` is no number, no scope, assembler or pending message (`NoneAssumption`). `SessionTypes` is `TypeOK` with
`BindingStands`: a binding serves one of the sessions so far. Its proof is where the operators of history are
dealt with: what `Recovered`, `SelectWindow`, `Payloads` and `Assembled` yield are events, whatever the branch.

`GivenInv` follows what the host has said of a message: a request id is used for one message at a time
(`QueueOwned`), a correlation anywhere in Pi or the runtime is that of a message given to Pi, and so is the
event id in a record, in a status under way, or in the page (`CorrGiven`, `Vouched`, `FramesGiven`,
`MessagesKnown`). It gives `SettledWasGiven` although a message Pi was steered with is reported under the
correlation of another (section 5.2): that other one was given to Pi too. All steps of the page are of one
shape (`PageMoves`): they lose some of what is going, tell the host more, or send a message that is not settled,
and undo no settled message; the proof has one lemma per action that shows this, and every invariant
is then shown once for the shape.

`OncePerBinding` needs in addition `OnceInv`. `Remembers` says that of a message that may still come, because it
is not settled or on its way (`Repeatable`), the service has a record if it would make the same call again;
`ObservedLast`, that nothing of a message follows the word that it was seen, by which the page has its
record removed. Hence a delivery finds no earlier call of the same binding and generation, unless a
record was dropped meanwhile, which the number `lapsed` in a call tells.

`ViewIsBranch` rests on `HistoryInv`. An event is `Sound` if it is of no later generation than the host's
and, when it is of the present one, reading the branch again yields it; every event under way to the page
(`CarriedBy`) or there in any form (`Held`: shown, in the journal, a fragment, a chunk, a transaction, the
cache) is sound. On the host's side a step either begins a new generation or lets the branch only grow
(`BranchMoves`), and what a branch yields it goes on to yield when it grows (`RecoveredStays`): a marker that
has found its message keeps it, and an unmatched message stays one, since nothing is inserted
between. What is published while it happens must be what is read later, which needs that any marker
with the number of a message that waits for its entry says of it what the runtime does (`AnnouncedInv`). The page makes no event: every set of events that holds all of its containers
holds them after each of its steps (`Holds`), and so the proof about the page never looks at the branch.

**Timeline.** `NothingMissing` speaks of states in which everything has arrived; its invariant, `CoverInv`,
says of every moment where each event is. It holds while page and host are in one session and nothing on
its way will end that (`Unhindered`). Then each event of the branch that is due (it has a marker and is
not cut off) is waiting at the host to be published (`AtHost`), on its way live, whole or in fragments
that will be put together (`Comes`), in the answer to a request under way, or in a page further back that
this answer leads to (`Fetched`), in the journal kept while the first page loads (`Journaled`), shown
(`Shown`), or further back than the oldest page shown, at a cursor the service still has
(`LeftOver`). At rest only the last two are left. Each step of the host, of the page and of the
network moves an event from one of these places to another; that none
is dropped between needs six invariants more, each proved before it:

- `LinkInv`: a page is online only when none of its hellos is under way, and of several the last is answered
  last, so that `ready` cannot be that of an older one.
- `SeatInv`: what `scope`, `ready` and the binding say of the generation is never ahead of the host, and a
  binding is of the current session unless the runtime was replaced.
- `RequestInv`: requests are numbered in their order, a request under way has no answer yet, and
  the final part of an answer is its last.
- `CursorInv`: a cursor has one number, and begins at a message. A window that ends there does not cut
  a run, which makes what `SelectWindow` takes and what it leaves to the next cursor all there is (`WindowTakes`).
- `BranchInv`: the markers of a run stand together, the last is of the message Pi is at, and unless an old
  page request took it elsewhere (`strayed`) the runtime holds that message.
- `LiveInv`: an event is published once, under an id nothing before had; hence the fragments of one event are
  never taken for those of another, and an event that is not shown yet was not discarded as a duplicate.

The condition `CutOff` in the property was found by this proof, see section 5.2.

TLC evaluates the assumptions in every run of these modules, and the properties were checked with TLC
before they were proved.

Only model-checked: liveness (fairness and `ENABLED` are out of the prover's reach), and `CacheFollows` of
`PwaSession`. It compares the latest groups of what is shown with what is stored; an invariant for it
would have to say what each transaction still to run, in its order, makes of both, with a
cardinality of groups that changes under it. It is stated for branches on which numbers grow with time,
as timestamps do and as those of the run's `FirstBranch` do: the cache keeps the groups with the latest
events (`timeline-store.ts:61`), a page those that begin last (`history.ts:273`), and only then are these the
same.

## 5. Disagreements and observations

### 5.1 Runs that end in a violation

Each is an entry under `findings`.

1. `supervisor_spawn`: a spawn that fails without a process leaves `child` set, and `stop()` awaits an exit
   that never comes; the documented remedy, a restart, is stuck behind it.
2. `host_rollback`: the previous record restored by a rollback may be one that was never confirmed.
3. `session_repeat`: idempotency records die with the binding; a host that reconnects gives a repeated
   message to Pi a second time in the same generation.
4. `identity_rings`: a process that resolves a different, empty secret store mints an identity although
   owners are paired; only the path without a keyring looks at `peers.json`.

### 5.2 Seen in the models, without a run of their own

The models have these behaviours; the properties that would exclude them name them as exceptions or do
not claim them.

- Relay: a replaced handler publishes events after the takeover, since they are pushed after the mutex
  is released (`registry.rs:50` against `:188`), and a view stays wrong until the next change.
- Supervisor: a daemon out of retries is not reported as blocked (`supervisor.ts:561`, `daemon.md:96`).
- Cron: `runCatchup` finds every runtime pending, so a missed job is recorded as `skipped_starting` and
  its fire is spent (`supervisor.ts:74`, `daemon.md:132`); a stop that comes while `get_state` is out does not
  keep the prompt back; two firings of one daemon may both find it idle; a prompt whose answer is late is
  recorded as rejected though Pi may have taken it; a `cron_add` or `cron_enable` that awaits a
  reconciliation arms its timer after a shutdown has cleared them; a refused `get_state` fails a healthy
  runtime.
- Host: the ACL of the initial hello is not refreshed once connected, so a revocation in between is heard
  only with the next change (`index.ts:194`, `pairing.md:182`).
- Identity: two first runs both mint and the loser goes on with a key that is not the stored one
  (`storage.ts:341` says idempotent); a half-written `identity.json` counts as absent; a reader that meets
  another's migration mints over it.
- Replacement: `closeRelay` answers "cancelled" while the run goes on and may replace the session; with
  overlapping switches the bye may name a later session than the one the owner knew; a local `/new` can
  use up the run's permit, and the run then fails; a binding made between `session_start` and the end of
  the run is told bye too.
- Session: a message that steers carries the run's correlation, so another message is reported started
  (`v2_service.ts:129`); a page asked of an old session takes the runtime back to it (`runtime.ts:94`); a
  cached window read late replaces the host's (`pwa-app.tsx:310`); an event of the scope before in the
  journal keeps the window from being cached (`pwa-app.tsx:350`); a `session_hello` while no session is live
  is dropped without an answer (`index.ts:318`); records of the old format after a page's start are lost by
  paging (`history.ts:232`). An entry that comes between a marker and its message cuts the message off
  from its marker, and it is recovered in the old format, in the one group these form (`runtime.ts:259`). Where
  that group begins in the middle of a run and a page begins with it, `selectWindow` takes only the groups
  that begin there or later, and the next page ends before it: what the run says after that point is on no
  page (`history.ts:273`), although the group of a run is to be atomic and paging is not to split it
  (`20260823-pwa-message-duplication.md:395`, `:537`).
- Page: a list computed when its frame arrives is installed after later ones were
  (`use-endpoint-registry.ts:115`); a stored row shown after a report makes the newest runtime be rejected
  (`runtime.ts:49`); rows of a removed device can come back; a hello that cannot be sent closes the relay
  with nothing that reconnects (`protocol/README.md:187`); with the last retry armed the page says
  "offline"; a report whose IndexedDB write began before the relay was lost and ends after the last retry
  shows "online" over a closed relay (`use-endpoint-registry.ts:76`, `pwa-app.tsx:529`; a store that stalls
  that long is what `NoSilentStall` excepts).

## 6. Not modelled

- HTTP, configuration, logging, installers, CLI parsing, rendering, image upload, the service worker: no
  protocol state.
- Cryptography: signatures are ideal; frame contents are opaque.
- Rate limits; heartbeat timers (a dead connection is a lost one); backoff delays: a timer may
  fire at any time after it is armed.
- Byte sizes and the limits on them: which page or event is cut is a choice. More than two chunks of a
  page or two fragments of an event.
- The extension UI flows: `respond` and `pendingRequests` (`extension_ui_bridge.ts:58`, `:295`) have no caller
  in the host, and what it broadcasts is filtered by the channel (`PeerChannel`), so that there is no
  exchange to model.
- Several Pi processes on one `peers.json`; `remote-pi revoke` from another process.
- Edits of relay URL and nickname, clearing of local data, failures of IndexedDB.

## 7. What could follow

A composition of `HostRuntime` with the relay's ACL, which would bound the harm of a binding without a
record; two host processes on one `peers.json`; a proof of `CacheFollows`, on top of that of `NothingMissing`.

## 8. Running

    tlc -workers 2 -config MCRelay.cfg MCRelay.tla
    tlapm RelayProofs.tla     # and the other modules of proofs; three to fifteen minutes for the longest

| Config | Module | States, time with 2 workers |
|---|---|---|
| `MCRelay.cfg` | `MCRelay` | 225 thousand, 1 min |
| `MCSupervisor.cfg`, `MCSupervisorSpawn.cfg` | `Supervisor` | under a minute |
| `MCCron.cfg` | `MCCron` | 761 thousand, 1.5 min |
| `MCHost.cfg`, `MCHostRollback.cfg` | `MCHost` | 1.5 million, 2.5 min |
| `MCIdentity.cfg`, `MCIdentityRings.cfg` | `MCIdentity` | 3.8 million, 1 min |
| `MCReplacement.cfg` | `MCReplacement` | 560 thousand, 0.5 min |
| `MCSession.cfg`, `MCSessionRepeat.cfg` | `MCSession` | 957 thousand, 1.5 min |
| `MCOwnerPage.cfg` | `MCOwnerPage` | 2.5 million, 1.5 min |
