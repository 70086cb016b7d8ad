# Verification of the Sankofa web SDK

This directory holds TLA+ models of the Sankofa browser SDK (the TypeScript
monorepo under `src/packages/`), the TLC configurations that check them on small
instances, and theorems about them that the TLAPS proof system checks.

    tlc -workers 2 -config MCQueueShared.cfg MCAnalyticsQueue.tla
    tlapm AnalyticsQueue_proofs.tla

`PROJECT.json` lists the components, the runs, the source lines every definition
models, the hazards of the code and the properties that watch them, and the
theorems.

## 1. The system

The SDK is a set of packages that run inside web pages. JavaScript in a page is
single threaded: the code between two `await`s is atomic, and everything else
interleaves (timers, events, continuations of promises). Pages of one origin run
in parallel and share `localStorage` and IndexedDB.

| Component | State it keeps | Operations | Hard behaviour | What makes it correct |
|---|---|---|---|---|
| Persistent queue (`browser/src/storage.ts`) | rows under auto-increment keys, in IndexedDB or in page memory | add, getAll, deleteMany | falls back per transaction; shared by tabs | FIFO, no row lost, a delete removes what was read |
| Analytics queue (`browser/src/queue.ts`) | `flushInFlight`, `needsAnotherFlush`, transport status | enqueue, flush | flush during flush, lost responses, page death | one loop per page, nothing lost, no overtaking, explained duplicates, delivery |
| Session manager (`browser/src/session.ts`, `lifecycle.ts`) | session id and background time, in memory and in `localStorage` | refresh, setLastBackgroundTime, startNewSession | tabs share the stored session; time | rotates when and only when it should; listeners told |
| Identity (`browser/src/identity.ts`) | anonymous, identified, distinct id | identify, reset | tabs overwrite each other | an alias links the right ids |
| Client (`browser/src/client.ts`) | the modules above, handshake cache, current screen | init, track, identify, peopleSet, reset, flush, shutdown | long asynchronous init and shutdown, re-init | no event before init or under a wrong identity |
| Plugins (`browser/src/plugins.ts`) | registered modules, plugin handles | preregister, setup, routeHandshake, notify*, shutdown | one plugin failing, handlers that await | every enabled module gets its handshake once |
| Presence (`browser/src/presence.ts`) | timer, running flag | start, stop, beat | stop during a beat | no beat after stop, one timer |
| Heatmap snapshots (`browser/src/heatmap-snapshotter.ts`) | captured keys, pending timer | scheduleCapture, tryCapture | debounce, idle callback | each view once |
| Catch transport (`catch/src/transport.ts`) | buffer, `localStorage` slot | push, flush, persist, recover, shutdown | overlapping POSTs, page death, tabs over one slot, cap | no silent loss, one copy, bounded |
| Catch client (`catch/src/client.ts`, `scope.ts`, `breadcrumbs.ts`, `handlers.ts`, `plugin.ts`) | config, user, tags, scope stack, breadcrumb ring | capture*, setters, withScope, install/uninstall | unwrapping in the wrong order, re-entrancy | scopes balance, ring keeps the newest |
| Catch performance (`perf.ts`, `perf-transport.ts`) | spans, vitals, their queues | start, finish, flush | page death | beacons carry what was queued |
| Replay (`replay-rrweb/src/index.ts`) | buffer, chunk index, sampling roll, upload mutex, chunk store | emit, flush, session and identity change, burst | numbering across pages, await in handlers | unique chunk index, no double upload, one roll per session |
| Switch (`switch/src/*`) | decisions, listeners, exposure buffer, seen set | handshake, reads, record, flush, reset | listener re-entrancy, drop on failure | listeners see changes once, one exposure per session and decision |
| Config (`config/src/*`) | values, listeners | handshake, typed reads | as Switch | coercion is total and falls back |
| Pulse (`pulse/src/*`) | survey list, active renderer, trigger queue, survey walk | show, dismiss, pump, answer, advance, back, submit | show racing itself, partial racing submit | at most one survey, walk ends, dismissals respected |
| React (`react/src/*`) | context value | provider, hooks | strict-mode double mount | one init |

How they interact: the client owns the queue, session, identity and plugin
manager, and its interval timer drives `queue.flush()` and every plugin's
`flush()`. Plugins read the client's snapshot, receive the handshake, and are
told of session and identity changes. Replay brings its own persistent queue;
Catch keeps its own `localStorage` slot; Switch, Config and Pulse keep caches in
`localStorage`. Catch reads Switch and Config values for its events.

The list under "hazards" in `PROJECT.json` names the lines where this bites.

## 2. The modules and how they fit together

| Module | Models | Composition |
|---|---|---|
| `PersistentQueue` | `storage.ts` | operators, used by `AnalyticsQueue` and `ReplayChunks` |
| `AnalyticsQueue` | `queue.ts`, several pages | implements `AtLeastOnce` |
| `CatchTransport` | `catch/transport.ts`, several pages | implements `AtLeastOnce` |
| `ReplayChunks` | chunks of `replay-rrweb/index.ts`, with what it needs of session and client | over `PersistentQueue`; implements `AtLeastOnce` event by event |
| `AtLeastOnce` | the promise of a delivery queue | abstract; three queues implement it |
| `ClientLifecycle` | `init()`, `shutdown()`, `plugins.ts`, `module-registry.ts`, `presence.ts`, `autocapture.ts` | composes client, plugin manager and their resources |
| `SessionIdentity` | `session.ts`, `identity.ts`, `lifecycle.ts`, `identify()`, `reset()`, `touchSession()` | composes session, identity and the plugins' snapshot over several tabs |
| `Decisions` | `switch/*`, `config/*`, and the handshake cache of the client | over `JsonValues` |
| `JsonValues` | the values and comparisons of decisions, answers and rules | operators |
| `Targeting` | `pulse/targeting.ts` | operators over `JsonValues`, used by `PulseShow` |
| `PulseShow` | `pulse/plugin.ts`, the list cache of `pulse/client.ts` | over `Targeting` |
| `SurveyLogic` | `pulse/branching.ts`, the kind renderers | operators, used by `SurveySession` |
| `SurveySession` | `pulse/state.ts`, the renderer's control flow, partials and submission | over `SurveyLogic` |
| `CatchClient` | `catch/client.ts`, `scope.ts`, `breadcrumbs.ts`, `handlers.ts`, `plugin.ts` | what it hands the transport is the `push` of `CatchTransport` |

`MC<Module>.tla` instantiates a module for TLC; `<Module>_proofs.tla` holds its
theorems, `Pulse_proofs.tla` those of both `PulseShow` and `SurveySession` (which
is why the latter's specification is called `SurveySpec`). Operators named like a modelled one
with a suffix (`ExpiredOwn`, `ResetEndsUntold`, ...) and marked "Mutant" are
plausible bugs; every property of a passing run is violated by at least one of
them, which is how we know the properties can fail.

Throughout, a step is the code between two `await`s. A history variable
(`suspect`, `overlapped`, `silent`, `ghost`, ...) is written by actions, read by
properties, and never tested by a guard, but for the bound `MaxAbandoned`.

What is left to do: sampling and high-fidelity bursts of the replay recorder as
a module of their own; `perf-transport.ts` as a third implementation of
`AtLeastOnce` without a store.

## 3. The analytics queue

### Modules

* `PersistentQueue` — the operators of `storage.ts`. A row is `[id, value]`; the
  rows are a set because the key carries the order. `Add`, `GetAll` (the `limit`
  smallest keys), `DeleteMany`.
* `AnalyticsQueue` — `queue.ts` over those stores, one queue manager per page.
  `store[IndexedDB]` is shared, `store[t]` is the memory store of page `t`
  (module state, gone with the page). `Reach[t]` is the set of stores that a
  transaction of the page may use: `{IndexedDB}` in an ordinary browser, `{t}`
  where IndexedDB cannot be opened, both where single transactions fail, as
  every method of `storage.ts` falls back for itself.
* `AtLeastOnce` — the abstract promise of a delivery queue.

| Code | Model |
|---|---|
| `enqueue` (queue.ts:106) | `Enqueue` |
| `flush`, loop under way (115-118) | `JoinFlush` |
| `flush`, start (120-124) | `StartFlush` |
| `getAll` resolves (124, 209) | `ReadRows` |
| POST: ok / not ok / no response (127-189) | `FetchOk`, `FetchRejected`, `FetchFailed` |
| `deleteMany` and status (199-208) | `DeleteRows` |
| leaving the loops (211) | `EndRound`, part of the action that leaves |
| `finally` (214-218) | `Settle`; the stage `settled` is the window before it |
| page dies, page loads | `ClosePage`, `OpenPage` |

A failed request may have reached the server (`FetchFailed`), and so may one
that is under way when the page closes (it can be `keepalive`). `suspect`
collects the operations for which a second copy is unavoidable.

### Runs

* `queue_shared`: two pages over IndexedDB, two flush calls each, two operations,
  batches of one, one close. Type invariant, `SingleFlight`, `NoLoss`,
  `DuplicatesExplained`, `InOrder`, the refinement of `AtLeastOnce`
  (`ImplementsAtLeastOnce`), and `Delivered` under fairness.
* `queue_flaky` (expected violation): one page whose transactions fail now and
  then. Both stores number rows from 1, so a delete meant for IndexedDB that
  falls back to memory removes an unsent operation there.

Two pages and two calls are what the races need: a second loop, a second reader
of the store. With batches of one the second operation is a round of its own, so
that rounds of two loops interleave. One close exercises every stage a page can
die in.

### Fairness

`client.init()` starts an interval that calls `flush()` while the page is open
(client.ts:199), hence `WF(Flush)`; continuations of an open page run, hence
`WF(LoopStep)`; the server answers a request that is retried forever, hence
`SF(FetchOk)`. Opening, closing and enqueueing are not fair. `Delivered` asks
that one page with a working IndexedDB stays open.

### Proofs

`AnalyticsQueue_proofs` proves `TypeCorrect`, `OneLoopPerPage` (`SingleFlight`, for
any `Reach`) and `QueueIsSafe` (`NoLoss`, `DuplicatesExplained` and `InOrder`), the
last under the assumption `Consistent`: all transactions of a page reach the same
store. `queue_flaky` shows the assumption is needed. The invariants of the runs
are not inductive. `IInv` adds what a loop relies on between its awaits: keys in a
store are below `next` and never name two values; what a loop holds was read from
the store it will delete from, so a row of its batch is either still there
unchanged or already deleted by someone who had delivered it; in the stage
`delete` the batch has been received; a batch is a prefix of what was stored, so
that whoever sends it overtakes nothing; and an operation with a copy at the
server that is still stored and in nobody's hands is a suspect.
`StoredOrderKept` and `DuplicatesHaveACause` state `InOrder` and
`DuplicatesExplained` by themselves.

`QueueDelivers` proves `ImplementsAtLeastOnce`, under `Consistent` too. Every step
either takes in one fresh operation (`TakesIn`) or moves some to the server and
gives up some for good (`Moves`; a stutter where neither happens), and
`StepShape` says so of each action. A delete is the one that needs `IInv`: what it
removes has been received. `LostIsGone` keeps what a closing page lost from coming
back. Only `Delivered` is model-checked only.
## 4. The Catch transport

`CatchTransport` models `transport.ts`: a buffer per page, the one `localStorage`
slot of the origin, and up to `Call` POSTs under way per page (nothing in the
code limits them).

| Code | Model |
|---|---|
| `push` (78-84), with the flush of a full batch | `Push` |
| `flush` up to the await of `fetch` | `Flush` |
| the beacon path (98-113) | `Beacon`: taken and delivered, taken and lost, refused |
| `pagehide`, `beforeunload` | `Unload` |
| `fetch` resolves, any status / rejects | `FetchOk`, `FetchRejected`, `FetchFailed` |
| `persist` with its cap | `Persist`, `Trim`, `Save` |
| constructor and `recoverPersistedQueue` | `OpenPage` |
| `shutdown` | `Shutdown` |

Events have one size, so the byte cap counts events. `SaveOutcome` says whether
`setItem` may throw, in which case the slot keeps its old contents; `{FALSE}`
says that there is no `localStorage` at all (`HasStorage`), and then `persist()` does
not trim either. A status
outside 2xx resolves `fetch()`, and the code does not put the batch back: those
events end in `rejected`.

* `catch_one_page`: one page, opened and closed twice, two overlapping POSTs,
  three events, cap two: an outage can fill the buffer beyond the cap while two
  batches are away. `BufferIsSaved`, `NoSilentLoss`, `DuplicatesExplained`,
  `Bounded`, the refinement of `AtLeastOnce`; and `Delivered`, from the interval of
  the constructor (61), fetches that settle, and a server that answers in the end.

More pages, a `setItem` that throws and a browser without `localStorage` are left to
the theorems, which hold for all of them: `AlwaysBounded` bounds the buffer only where
there is a `localStorage`.

### Proofs

`CatchTransport_proofs` proves `TypeCorrect` and `AlwaysBounded` together:
`Inv` is `TypeOK` and `Bounded`. The work is in what `Trim` returns: a suffix
that fits the cap, whatever is appended or put back.

`TransportDelivers` is the refinement of
`AtLeastOnce`, for any pages and a `setItem` that may throw. Every step is either
`Quiet` (it takes nothing in, holds nothing it did not hold before, and sends
only what was held) or `TakesIn(e)` for a fresh event; with the invariant `Known`
(what is held or received was pushed) each maps to a step or a stutter of the
abstract specification. `OnePageIsSafe` proves `NoSilentLoss`, and
`BufferSurvives` proves `BufferIsSaved`, if there is one page and `setItem` works. `NoSilentLoss` is not
inductive: what is safe after a close is the slot, so the invariant `LossInv`
adds `Mirrored` (the slot holds the buffer of the open page). With two pages
`BufferIsSaved` is false, which is why the assumption is there.

`CopiesHaveACause` proves `DuplicatesExplained` under the same assumption of one
page and a working `setItem`. `CopiesInv` says why an event is not sent twice by two
overlapping POSTs: an event is in one POST at a time and not in the slot then
(`Apart`), so that whatever is held although the server has it was put back by a
POST that only looked like a failure (`HeldIsSuspect`). Only `Delivered` is
model-checked only.


## 5. The session replay recorder

`ReplayChunks` models the chunks of `replay-rrweb/src/index.ts` together with
what it needs of the session manager (`session.ts`, `lifecycle.ts`) and of
`client.reset()` and `client.touchSession()`.

Every entry point of the plugin is an `async` function: it runs to its first
`await` in one step and goes on later, when other calls may have run in between.
A call is an identity in `Call`; `pc` says which await it is in, and `todo` the
steps of its entry point that follow.

| Code | Model |
|---|---|
| `emit`, `pushHeatmapEvent` / with a checkout | `Emit` / `EmitCheckout` |
| `flushBufferedChunk` to its first await (590-709) | `FlushBuffer`, `CutChunk` |
| `queue.add` resolves (700) | `AddDone` |
| `flushPersistedChunks` (721-727) | `Drain`: join or start |
| `drainPersistedChunks` (729-775) | `ReadDone`, `PostOk`, `PostRejected`, `PostFailed`, `Deleted`, `EndDrain` |
| interval of the plugin / flush hook | `Timer` / `FlushHook`, `ResumeDrain` |
| `onSessionChange` up to and after its flush | `Touch`, `ResumeAdopt` |
| `client.reset()` | `Reset`, `ResumeDrain`, `ResumeReset`, `ResumeFlush`, `ResumeAdopt` |
| page hidden / visible | `Hide` / `Show` |
| page load in the tab | `Navigate` |

`session[t]` is the session in the memory of a page, `saved` the one in
`localStorage`; a refresh may begin a fresh session only if a page was hidden
since (`saved.background`), time itself is left out. `counter` is
`sessionStorage`: each tab has its own. Recorded events carry the session they
were recorded in, so that a chunk of the wrong session can be told.
`Settled` keeps continuations that await nothing (microtasks) ahead of the next
task of the page.

* `replay_one_tab`: one tab, two calls, three sessions, three events, chunks of
  two, one page load. `CollisionsExplained`, `Attributed`, `DuplicatesExplained`.
  The third session is what lets one session change overtake another.
* `replay_two_tabs`: two tabs, one page load, two sessions: `DuplicatesExplained`
  and the refinement of `AtLeastOnce` at the level of events
  (`ImplementsAtLeastOnce`). A session can flip back here, because a hidden page
  saves its own session over a newer one.

That a chunk number is used once is false, in two ways that the models show:
two tabs of one session both number their chunks from 0; and `onSessionChange`
awaits its flush and then takes the number of the session it was called with,
so that a second change that went through meanwhile (its buffer was empty, it
awaited nothing) is undone. Two `reset()` calls that overlap are enough.

`CollisionsExplained` is what remains true of the numbering: within a tab, two
chunks of a session share a number only if the tab had come back to that session
or an older one was adopted during it.

Left out: sampling and high-fidelity bursts, `shutdown()`, identity changes
without a session change, and the thinning of pointer events, which decide
whether there is an event at all and not what becomes of it. IndexedDB is taken
to work; the fallback is the subject of `queue_flaky`.

### Proofs

`ReplayChunks_proofs` proves all four properties for any number of tabs, calls,
sessions, events, page loads and any chunk size. All rest on `TypeInv`, which
says besides types that a buffer with events knows its session.

* `ChunksAttributed` (`Attributed`): `AttributionInv` looks into the buffers, where
  an event of another session can only have come after a change that the plugin
  was not told of.
* `NumbersAreGivenOnce` (`CollisionsExplained`): the stored number of a session
  bounds the numbers its chunks have (`Bounded`), the next number of a page has
  reached it (`Reached`), and a session nobody was in has none (`UsedInv`), each
  for the sessions that are not `confused`. An adoption that is late breaks
  `Reached`, which is how the code gets there.
* `CopiesHaveACause` (`DuplicatesExplained`): only the call that holds the mutex has
  rows (`DrainInv`); a chunk is on its way in one `add`, or in the store under one
  key, or received (`PlacesInv`, `RowsInv`); and a chunk that the server has and
  somebody could send again is a suspect, or about to be deleted by the call
  that sent it (`CopiesInv`).
* `ReplayDelivers` (`ImplementsAtLeastOnce`): each action takes in one event
  (`TakesIn`) or moves events towards the server (`Moves`). It uses that an event is
  in one buffer or one chunk (`EventsApart`), so that what a page load gives up has
  not been sent.

## 6. Client, plugins and presence

`ClientLifecycle` models `init()` and `shutdown()` of one client object, both
`async`. `step[c]` is the await that call `c` is suspended at. The managers are
fields that `init()` replaces together, so `mgr` names the `init()` whose managers
are current; a continuation of an earlier call works on whatever is current.

| Code | Model |
|---|---|
| `init` / `shutdown` up to the await of the plugins' shutdown | `CallInit`, `CallShutdown` (`Begin`, `StopAll`, `Restored`) |
| plugins' shutdown resolves; `init` goes on, `shutdown` ends | `PluginsClosed`, `ShutdownEnds`, `NewManagers` |
| handshake: 200 / 304 or failure with a cached one / JSON failure | `HandshakeOk`, `HandshakeFromCache`, `HandshakeThrows` |
| `plugins.setup`; a `setup()` that throws early, after it registered its client, or after it wrapped history as well | `SetUp` |
| `routeHandshake` | `Route` |
| interval; awaits of `$app_open_first_time` and `$session_start`; lifecycle, presence | `Boot`, `FirstOpenTracked`, `SessionStartTracked` (`Resumes`) |
| `visibilitychange` for presence | `VisibilityChange` |

`client` runs three calls, two of which overlap at any await, over two projects,
with a Catch whose setup may throw. Two calls suffice for one to undo what the
other did; the third shows what is left behind for a later client. One instance may
be left half set up (`MaxAbandoned`, the only bound on a history variable): Catch
sets its singleton and registers it (catch/plugin.ts:208-212) and installs its hooks
(214-225) before its `setup()` has ended; when later code of it throws,
plugins.ts:57-59 lists an empty object in its place, and nothing ever unregisters or
unhooks the instance. `abandoned` remembers it. The run checks:

* `OnlyTheLatest`: when calls are awaited, exactly the resources, plugins,
  registry entries and history wrapper of the latest client are there. Of an
  abandoned instance the registry slot may be there for good, until a client of its
  kind registers, and its wrapper for as long as the client it was set up in: the
  core of that client was below it and takes it away with itself.
* `NoStaleSingleton`: whatever overlaps, the registry names no instance that was
  shut down ("a stale singleton can't leak across re-inits", module-registry.ts);
  it may name an abandoned one, which no shutdown reaches.
* `OwnModules`: without an overlap, a project's cache and plugins get the
  handshake of that project.

### Proofs

`ClientLifecycle_proofs` proves `RegistryIsLive` (`NoStaleSingleton`) and
`ModulesAreOwn` (`OwnModules`) for any number of calls and projects. The
first needs `SlotInv`: an instance is listed only after its own `init()` has set
it up, so a plugin that clears its slot before its await is down for good while
it is awaited, and one that clears it later is still up. What is listed was never
abandoned, and so no shutdown clears the slot of an abandoned instance for another.

`LatestOnly` proves `OnlyTheLatest`, for calls one after the other in any number.
What the latest call has got to (`Phase`) decides everything else, and `LatestInv`
says what: which resources run and who holds them (`ResourceInv`), that only the
current managers list plugins, that exactly their instances are up and in the
registry (`InstanceInv`), and who wraps `history`, with what each wrapper will put
back (`WrapperInv`). `NoneAssumption` says that `None` names no call and no owner.

## 7. Session and identity

`SessionIdentity` models tabs over one `localStorage`; every tab has its session
in memory and `sessionStorage`, its identity in memory, and plugins that learn of
changes by notification.

| Code | Model |
|---|---|
| constructors of identity and session | `Boot` |
| `plugins.setup` takes a snapshot / manager lists them, last refresh | `SetUp` / `Ready` |
| visibility handler | `Hide`, `Show` |
| `peopleSet`, `touchSession` | `Touch` |
| `identify` to its await / after it | `Identify` / `AliasQueued` |
| `reset` to the await of its flush / to that of the identity notification / after it | `Reset` / `ResetDraws` / `ResetEnds` |
| page goes, reloads or crashes; time; storage cleared | `Leave`, `Tick`, `Clear` |

`sessions` runs two tabs, one user, three sessions, two anonymous ids, two calls,
time to two with a timeout of zero ticks (a session times out on the tick after
it went to the background). Two tabs are needed for a stale copy, two ids for a
reset, two calls for `identify()` during the flush of `reset()`.

* `PluginsFollow`: plugins know the session and the distinct id of their tab,
  but for the three places that change them without a notification (`silent`),
  while a `reset()` still waits for the plugins to deal with the new id
  (client.ts:442, `Telling`), and after a session change during that wait, whose
  notification the older snapshot of `reset()` follows (`raced`).
* `OneOwner`: a session carries events of one anonymous id only.
* `Linked`: an identified user has an alias back to the anonymous id.
* `NotResumed`: no tab resumes a session that nobody had in the foreground for
  longer than the timeout.

Each names the exceptions the code has; section 12 lists them.

### Proofs

`SessionIdentity_proofs` proves the first three for any number of tabs, users and
ids, whatever the bounds are. `PluginsAreInStep` starts from `FollowInv`, which
covers a tab from the snapshot on and not only from the moment it is listed, and
says of every `reset()` that has yet to notify that the session it will tell is the
tab's, unless the tab is in `raced`.
`IdentifiedIsLinked` needs `LinkInv`: the stored identity has an alias too,
because a boot takes it up, and what `reset()` drops carries none.
`SessionsHaveOneOwner` needs `OwnerInv`: all open tabs have the stored anonymous
id, the stored session exists whenever any tab is open, and both it and the
sessions of the open tabs belong to that id; only a closed tab's `sessionStorage`
may hold a session of another, and is not read while there is a stored one.

`OldSessionsEnd` proves the action property `NotResumed`. Every copy of a session
carries a `lastBackgroundAt` from when it was in the foreground (`CopyInv`), so that
a copy that has not expired was seen within the timeout; one that carries none
(`Marked`) is on some tab's screen or was never seen; and what a visible tab shows is
seen now (`ScreenInv`).

## 8. Switch and Config

`Decisions` follows a decision from the handshake through three entries of
`localStorage` (the last handshake, one slot per product) to what `get()` returns,
what listeners were told, and the exposure that Switch posts.

| Code | Model |
|---|---|
| `init()` asks for the handshake, with what its cache holds | `Boot`, `Trusted` |
| handshake: 200, 304, network failure, JSON failure | `HandshakeOk`, `HandshakeNotModified`, `HandshakeUnavailable`, `HandshakeMalformed` (`Answered`) |
| after the replay config: setups, which hydrate both caches and serve | `SetUp`, `Hydrated` |
| all setups have resolved: plugins listed, `routeHandshake` | `Route` |
| `applyHandshake` of both plugins with diff and listeners | `Applied`, `Changed`, `Removed`, `Told` |
| `onChange` | `Subscribe` |
| `get`, `isEnabled`, `getAll` with `record` | `Read`, `Resolve`, `DedupKey` |
| Config's `get<T>` | `Get`, `Coerce`, `Kind` |
| exposure `flush`; identity change; shutdown; page goes | `Flush`, `IdentityChanges`, `Shutdown`, `Unload` |

The dashboard of the run publishes twice: in the second payload a value changed
under the same version, another key is gone, and Switch is disabled. Four days
with a window of one let a payload age past one and past two windows, and may pass
at every await of `init()`. A second tab may write the slots, storage may be spoiled,
and the identity may change at any moment, of which Switch is told only while it is
listed.

* `ListenersAgree`: a subscriber's last value is the one in the cache.
* `SubjectsExposed`: what a subject read is in the buffer or was posted under the
  id of the read; but for a subject that Switch was not told of (`unheard`), as
  `identify()` came when Switch could be read and the manager had not listed it
  (plugins.ts:45-64), or after the shutdown.
* `ServedWithinTwoWindows`: the staleness guards of slot and handshake add up, and
  to no more than two windows and the longest time an `init()` took from its request
  to the routing of the answer (`slowest`): the slot is dated when it is routed
  (client.ts:172), the cached handshake was judged when it was asked for (619), and
  nothing bounds the awaits between (622, 155, 161).
* `TypeOK` contains the coercion: `get(k, d)` has the type of `d`.

`Decisions_proofs` proves all four (`SubscribersKnow`, `ReadsAreExposed`,
`AtMostTwoWindowsOld`, `TypeCorrect`) for any payloads, window and days. `SeenInv` is what makes
skipping a decision in `seen` safe: its row for the subject of now is in the buffer
or gone out. `AgeInv` bounds the age of every place a payload can rest in: one
window for a slot when it is read, one more for the handshake it was written
from, and the time since that handshake was asked for. `ShapeInv` is the typing: what is in memory or a slot was published for that
product and confirmed at some day up to now, and the buffer never exceeds a batch
(`BufferInv`). It needs the assumptions that something is
published, that a product has finitely many keys, that a batch is not empty and that
a fallback is a value of one of the five types that `coerceConfigValue`
distinguishes.

## 9. Pulse

`PulseShow` is about which survey is on the screen. The pump looks for one at
boot, navigation and identity change; a tick awaits the list, then the display
delay; `show()` awaits the survey. `Targeting` is the whole rule evaluator,
the hash of a sampling rule being a table and pattern matching a relation, so
that any hash and any pattern language is covered.

| Code | Model |
|---|---|
| navigation and identity change schedule a tick | `Navigate`, `IdentityChanges` |
| tick: guards, list (cached or fetched), choice, delay | `TickStarts`, `ListArrives`, `DelayEnds`, `Chosen`, `Candidates` |
| `show` from the host / survey arrives / fails | `HostShows` / `SurveyLoaded` / `LoadFails` |
| close button, `dismiss()` | `UserCloses`, `HostDismisses` |
| submission / its answer, also after the modal was dismissed | `Submits` / `Completes` |
| the manager lists the plugin / shutdown | `IsListed` / `Shutdown` |

`pulse_show` has two surveys with rules of every kind, three dashboards, two
respondents, up to two shows (an overlap takes two), three ticks and three events. `OnlyModal`: the survey on the
screen is the one `dismiss()` reaches, unless two `show()` calls overlapped.
`RespondentIsCurrent`: an identity change leaves no survey of the respondent
before, unless it was loading, or the plugin was not listed yet and not told
(`missed`). `NotReprompted`: the pump shows no survey within its dismissal cooldown
unless the dismissal came after the check.

`Pulse_proofs` proves all three (`DismissReaches`, `SubmittedForWhoIsThere`,
`CooldownIsKept`) for any surveys, rules and respondents. The invariant of the first
two: without an overlap the plugin is free (at most one `show()` on its way, which the
answer of an earlier submission may still mark, and an empty screen) or busy (one modal, which `active` names, and nothing on its way). That of
the third, `PromptInv`: a tick in its delay, or a `show()` of the pump, whose survey
is stamped for the respondent of now has been marked `since` (`WarnInv`).
`VersionsAssumption` says that a dashboard publishes lists of surveys, at least one;
the choice of the pump is a minimum that exists by well-founded induction over the
positions of the list (`Least`).

`SurveySession` is one survey before one respondent: the state machine of
`state.ts` as the renderer drives it. What the renderer draws (`field`) and what is
recorded (`answers`) are separate, as in the code; uploads and payments answer to
the drawing that started them, which may be gone. `SurveyLogic` holds the
branching evaluator and what every kind of question seeds and accepts.

| Code | Model |
|---|---|
| render with the seed of the kind; input | `Render`, `Input`, `Record` |
| upload, payment, their answers | `PickFile`, `Pay`, `JobSucceeds`, `UploadFails`, `PaymentFails` |
| Next with the required gate, branching, the end | `Advance`, `Passable`, `NextQuestion` |
| Back, close, shown again with its partial | `Back`, `Close`, `Reopen` |
| submission and partials answer or are lost | `SubmitSucceeds`, `SubmitFails`, `AnswerLost`, `SaveArrives`, `SaveLost` |

`survey` runs eight bundles that between them hold every kind of question and
every operator of a rule, rules that match, miss, name no question and lead
back; five clicks, two showings. Five clicks take the respondent through a
bundle with one step back, or through upload, next, back and next again. Checked:
`SeenIsRecorded`, `SubmissionsValid`, `DuplicatesExplained`, `DraftSaved`.
`survey_thanks` (expected violation): `ThanksMeansSubmitted`.

`BundlesAssumption` says what the code takes for granted of a bundle: it has a
question, questions are told apart by their ids and the options of a question by
their keys.

`Pulse_proofs` proves all four, for any bundles, clicks, showings and requests in
flight. `OneResponsePerShowing`
(`DuplicatesExplained`): a showing that has submitted for a respondent who waits is
at its end, where no click submits (`OnceInv`). `ReloadLosesNothing` (`DraftSaved`):
the partials in flight of one showing follow those of earlier ones, and what the
respondent of now did last is either the last of them or what the server holds
(`DraftInv`, for as long as no earlier renderer wrote late). `WhatIsSeenIsRecorded`
(`SeenIsRecorded`): the field on the screen is one that drawing its question again
would leave as it is, and a live upload or payment was started by the drawing of now
(`ScreenInv`); for that every answer held anywhere, recorded, in flight or with the
server, must be one its question can be drawn over (`KeptInv`: a ranking names every
option once, a best option is not the worst). `SubmissionsAreValid`
(`SubmissionsValid`): where no rule leads back, the questions of the visited stack
stand in the order of the survey, so the respondent meets none twice, the field on
the screen answers none that was passed before, and all that were passed hold
(`PathInv`).

Two lemmas under these are about recursion or sorting: what `filter()` keeps of a
ranking (`AmongFacts`) and that the sort of the constructor is a permutation
(`SortedFacts`). An induction principle takes an operator, which the provers cannot
instantiate, so `AmongFacts` refutes a least counterexample (`Least`), and `Sorted`
gives each question the number of those before it as its place, an injection of a
finite set into itself.

## 10. The Catch client

`CatchClient` has several lives of the plugin on one page, beside a host library
that wraps `console.error` too. A wrapped function is the sequence of its layers,
so that unwrapping in the wrong order shows.

| Code | Model |
|---|---|
| `captureException`, `captureMessage` with gates and sampling | `HostCaptures`, `Captured`, `Admits` |
| `window.onerror`, `unhandledrejection` | `Uncaught` |
| `addBreadcrumb`, handshake resizes the ring | `Crumb`, `Pushed`, `Handshake`, `Resized` |
| wrapped `console.error` | `ConsoleError` |
| `withScope` enters / its function returns or throws | `EnterScope` / `LeaveScope` |
| `setup`, `shutdown` with install and uninstall | `Setup`, `Shutdown`, `PutBack` |
| the host wraps and unwraps | `HostWraps`, `HostUnwraps` |

`catch_client`: two lives, three crumbs a life, scopes two deep, a ring of one or two
(the code's 10 and 100, scaled). `ScopesFollowCalls`, `CrumbsAreTheLast`,
`Unhooked`, `OneEventPerError`. The second life is what makes a hook of a dead
client visible, three crumbs overflow the ring before and after a resize.

`ConsoleError` runs the layers from the outermost inwards. Each capture layer hands
over an event composed from the ring as the layers outside it left it (`Outside`);
since a crumb layer of a life is in the chain at most once, that is the ring with or
without one more crumb. `LayersInv`, proved, is what justifies this.

### Proofs

`CatchClient_proofs` proves all four for any number of lives, any ring, any
handshakes and a host that wraps and unwraps when it likes.

* `ScopesAreFollowed` (`ScopesFollowCalls`): the scope stack is the stack of the
  functions being executed (`ScopesInv`).
* `CrumbsAreKept` (`CrumbsAreTheLast`): a ring holds consecutive crumbs that end with
  the last one, as many as the smallest capacity it ever had, if there were so many
  (`RingInv`).
* `ShutdownUnhooks` (`Unhooked`): unless the host replaced `console.error` during the
  life, the chain is what `setup` found below the layers of the life, in the order
  of their installation, and each layer puts back what is below it (`HookedInv`).
* `ErrorsMakeOneEvent` (`OneEventPerError`): unless the host put back a wrapper of an
  ended life, the chain has no layer of an ended life, and what a shutdown puts back
  has none of the SDK at all (`OwnInv`).

Assumed are a floor and a default of the ring that fit each other, a natural number
of lives, and that `None` is not a layer.

## 11. Fairness, deadlock, bounds

Only `Delivered` of the two delivery queues depends on fairness, and the code
justifies it as told in sections 3 and 4. The other specifications state none: their
properties are safety properties, and in a browser nothing obliges a
respondent, a host or a tab to go on. For the same reason deadlock is not
checked where the environment is bounded and may stop (`CHECK_DEADLOCK FALSE`);
in the queue and replay runs, where some continuation or timer is always
enabled, it is.

All bounds are constants named `Max...` or the size of a set. The
largest runs have between one and seven million states.

## 12. Known disagreements and losses

Two are runs that expect a violation and are listed under "findings":
`queue_flaky` and `survey_thanks`. The others follow from the models as the
exceptions that the properties name; a reader of the code may care for them.

Delivery:

* `flush()` of the Catch transport empties the slot before its POST has an answer
  (transport.ts:93 against 14-15): a page that dies then has lost the batch
  (`NoSilentLoss`); two tabs overwrite each other's slot (`BufferIsSaved` holds
  for one page only); without `localStorage`, `persist()` returns before its cap
  (transport.ts:156), so that nothing bounds the buffer; batches that fail are put back in the order of failure.
* A replay session shared by two tabs is numbered from 0 in both
  (replay index.ts:210 against 174-177); `onSessionChange` that is overtaken
  during its flush takes the number of the older session (808-812).

Client and plugins:

* After overlapping or repeated `init()` the page-view wrapper of an earlier
  client can stay in `history.pushState`, because Catch puts back what it found.
* A Catch whose `setup()` throws after catch/plugin.ts:212 stays registered, with its
  hooks, while the manager lists an empty object for it: no `shutdown()` reaches it
  (`abandoned`).
* `routeHandshake` skips disabled modules (plugins.ts:86-88), so the branch of
  Catch that turns itself off (catch/client.ts:121-127) is not reached.

Sessions:

* The visibility handler and the last refresh of `init()` rotate the session
  without telling the plugins; a notification between plugin setup and listing is
  lost, to replay, Switch and Pulse alike; a rotation at boot is not tracked as `$session_start`.
* A tab that goes to the background saves its own session over another tab's;
  `lastBackgroundAt` is never cleared; a crash leaves none.
* `reset()` tells the session that it drew after the await of the identity
  notification (client.ts:441-443): a session change meanwhile is told first, and
  the plugins end with the older session (`raced`).
* `identify()` during the flush of a `reset()` is wiped by it; an alias is lost if
  the page goes away while plugins are notified, and is not sent again.
* Clearing `localStorage` forgets the identity but not the session, which
  `sessionStorage` has.

Decisions:

* A payload served from a cache is dated anew when applied, so the windows add up
  (switch/cache.ts:114, config/cache.ts:91, client.ts:623-644), and so does the time
  between the request and the routing.
* A subject that identifies while other plugins are being set up, or after the
  shutdown, inherits what was recorded for the one before (`unheard`).
* An identity change keeps the previous subject's decisions; rows are dropped on
  `resetSession` and when a flush fails; `record()` after `shutdown()` fills a buffer
  that nobody takes.
* Catch reads every flag for its events, which counts as exposures of flags the
  host never read.

Pulse:

* Two `show()` calls that overlap mount two modals; one in flight across a reset or
  a shutdown mounts for the respondent before, or after the end.
* A failed upload that answers late deletes a required answer that passed the
  gate; a payment can be made twice after a re-render; of two uploads
  the last to finish wins; `back()` during the submission takes the end back.
* Partials are unordered: an older one that arrives last is what a reload resumes.
* Required matrix and maxdiff questions pass the gate with the empty object their
  renderer seeds; a required statement never passes it.

Catch client:

* `scope.setUser(null)` falls through to the global user; the scope of an
  asynchronous `withScope` function is popped at its first await.
* A host wrapper installed during a life of the plugin is dropped at its shutdown.

## 13. What is proved and what is checked

The theorems hold for every value of the constants under the assumptions named in
the modules (bounds are natural numbers, a constant such as `None` is no call, and
the like). Where a bound such as `MaxCalls` occurs in a guard, the theorem covers
every value of it. Assumptions beyond that are part of the statement: `Consistent`
for the analytics queue; one page and a working `setItem` for `OnePageIsSafe`,
`BufferSurvives` and `CopiesHaveACause` of the Catch transport. Every theorem of an
invariant has the same shape: the initial states satisfy the strengthened
invariant, each action preserves it (a step or a lemma per action), and it implies
the property.

Where the state of a detailed specification maps to that of `AtLeastOnce`, the
theorem is the refinement itself: the initial states map to initial states, and each
action is shown to take an item in, to move some, or to be a stutter.

Every safety and action property of a passing run is a theorem. Only `Delivered` of the
two delivery queues, which depends on fairness, is model-checked only: liveness is
out of the provers' reach.

## Not modelled

* Of the replay recorder: sampling, high-fidelity bursts, `shutdown()`, identity
  changes without a session change, thinning of pointer events.
* `perf.ts` and `perf-transport.ts`: spans and vitals are callbacks of
  `PerformanceObserver` into a buffer that is flushed by timer and at `pagehide`;
  which of the two `pagehide` listeners runs first decides whether the last vitals
  leave with the page.
* The heatmap snapshotter: a debounce timer and a set of captured keys; the rest is
  DOM cloning and one upload whose result nothing reads.
* The React bindings: hooks over the facade that start `init()` and `shutdown()`
  without awaiting them, which `ClientLifecycle` explores.
* The integration report (a stateless audit) and the stack parser (regular
  expressions over text).
* Payload formats, URLs, logging, translations, styling and the DOM.
