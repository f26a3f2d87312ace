# notestr: a TLA+ verification project

notestr is a shared task board whose only backend is a set of Nostr relays. Every
group of users is an MLS group (the Marmot protocol): task events travel as encrypted
kind-445 envelopes, membership as MLS commits, invitations as gift wraps. There is no
server that orders or stores anything for the client, so everything a device shows is
rebuilt from three local stores and from what relays happen to deliver, in any order
and any number of times, across page reloads.

The project models the parts of the program that must be right for that to work. It
was written from the TypeScript source; every mapped definition names the lines it
translates in `PROJECT.json` ("map").

## 1. Inventory

Paths are relative to the repository root.

| Component | State it keeps | Operations | What makes it correct |
|---|---|---|---|
| **Receive engine** `src/src/engine/receive-engine.ts`, one per group | lifecycle FSM (L1..L7, R1..R4), `processed`, `lastIngestedSeq` (watermark), `bootstrapCompleted`, `pendingDeferredRetry`, live buffer, serial FIFO, generation token | `start`, `stop`, `reset`, live push, `acceptLocal`, `processSignal` and its handlers, deferred-retry pass, cutover, `recover` | an event is shown once and only when durable; what the ratchet consumed is never lost unreported; a restart ends where the session before it was; the engine reaches `live` |
| **Ingest policy** `src/src/engine/ingest-policy.ts` | processed set, deferred queue, attempts | enqueue with cap, retry batch, charge/refund, TTL prune | queue = deferred-store; a parked fact leaves by acceptance, rejection, or eviction at the cap |
| **Stores** `src/src/persistence/*` | raw event log, accepted log, deferred ids, checkpoint (IndexedDB) | append (idempotent by key), accept-deferred (two writes), save | the two logs and the deferred ids agree except inside the two-write window |
| **Marmot adapter, ingest** `src/src/integration/marmot-adapter.ts` | `ingestChain` mutex, callbacks | `ingestPersisted`, `catchUp`, `openLive`, translation of library results into signals | one batch at a time; a classification is not lost while it waits |
| **Marmot adapter, outbox bridge; publish outbox** `publish-outbox.ts` | published-event windows, seen ids, pending map, caps | publish window, echo confirmation, eviction | a pending mark is cleared exactly when the event is confirmed or evicted |
| **React engine hooks** `react-engine-hooks.ts` | projection state, rebuild latch, pending task ids | engine event fold, rebuild, `dispatchLocal` | the projection is the fold of the accepted log |
| **Task store** `src/src/store/*` | readiness gates, routed events | `dispatch`, monotonic timestamps | an edit is newer than what it edits; nothing is dispatched before the group is ready |
| **Task projector, CRDT** `src/src/domain/*` | none (pure) | `replayOrder`, `applyEvent`, `taskWinsOver` | devices that accepted the same events show the same tasks |
| **Device sync** `src/src/marmot/device-sync.ts` | join barrier, invited keys, forgotten slots, joiner marks | welcome processing, auto-invite of own devices | no slot invited twice, no forgotten slot re-invited, one join per invite |
| **Forget device** `forget-device.ts`, `per-leaf-remove.ts`, `forgotten-slots.ts` | durable forgotten-slot marks | leaf removal over every group | a forgotten device leaves every group and is not invited back |
| **Sign-in and sign-out** `src/app/page.tsx`, `src/src/lib/nostr.ts` | signer, pubkey, method; localStorage | boot, three sign-ins, skip, sign-out, forget and sign-out | a reload brings nobody back who is not on the page |
| **Marmot client provider** `client.tsx` | `mountedRef`, client, bound partition | mount, `init()`, probe, cleanup | a session's client, stores and device slot are its user's |
| **Storage** `storage.ts` | `activePubkey`; one database per user and store; migration marker | bind, lazy resolution, `migrateLegacyPartition`, `getOrCreateClientId` | no task of one user reaches the stores of another; an upgrade loses nothing |
| **Self-forget** `forget-device.ts` | stores, keys, session | leave every group, delete KeyPackages, wipe, sign out | no MLS state is destroyed before its departure is announced |
| **Network, signers** | relay pool | request, publish, sign | - |
| **User interface, e2e, scripts** | view state | rendering | - |

How they interact: a relay subscription (`openLive`) and a history query (`catchUp`)
feed the adapter, which runs the MLS library over a batch under its `ingestChain` mutex
and yields *signals* (`message`, `deferred`, `skipped`, `malformed`,
`epoch_advanced`). The engine puts each signal on a serial promise chain; a handler
writes raw log, accepted log and deferred ids in that order and then emits
`domain_event_accepted`. The hooks fold emissions into a projection that starts as the
fold of the accepted log; the task store reads it. A local edit is dispatched by the task
store, accepted by the engine (`acceptLocal`, same FIFO), published by the adapter, and
comes back from the relay as an echo that the engine must recognise by event id.

Where it is hard:

* *Interleaving.* One JavaScript thread, but every `await` is a point where another
  continuation runs. The engine has two that handle signals: the job at the head of the
  FIFO, and `start()` itself, whose `enterLive` runs a retry pass outside the FIFO.
* *Ordering.* History, live pushes, duplicates and echoes of the same event arrive in any
  order; a signal computed at one epoch is handled at a later one.
* *Crash and restart.* A reload may happen between any two writes; the ratchet's
  state is durable and will not decrypt an envelope twice.
* *Partial failure.* A store write is retried a bounded number of times and then gives
  up; the next start has to make good. A load, or the library's `ingest()`, may reject, and
  what that cuts off depends on who awaits it.
* *Progress.* Retry passes nest, are latched, and share a mutex with live ingest.
* *Sessions.* A user can sign out, and a board unmount, while tasks of the session wait for
  relays; they go on beside the next session, over module variables and stores it shares.

All of these are listed, line by line, under "hazards" in `PROJECT.json`.

## 2. Plan

In order of importance. A module is listed with the ones it composes with.

| # | Module | Models | Properties and theorems |
|---|---|---|---|
| 1 | `ReceiveEngine`, `MCReceiveEngine` (**done**) | signals, handlers, deferred-retry passes, cutover, recovery, stores, failures and crash | see section 4 |
| 2 | `ReceiveEngineProofs` (**done**: `TypeCorrect`, `EmitsOnlyDurable`, `ImplementsLedger`) | theorems of 1 | see section 5 |
| 3 | `PublishOutbox` (**done**) | dispatch gates, optimistic accept, pending marks, registry and durable outbox, publish lock, attribution window, own echo, rebuilt outboxes, boards switched and closed, reload | see section 4 |
| 4 | `TaskBoard`, `MCTaskBoard`, `TaskBoardProofs` (**done**; `SeededShowsTheLog`, `SettledDevicesAgree`, `LoneWriterLosesNothing`) | task projector, `taskWinsOver`, `ensureMonotonicTimestamp`, the hooks' seed-then-fold and its rebuild race, the snapshot a new member starts from and its late bootstrap | see sections 4 and 5 |
| 5 | `DeviceSync`, `MCDeviceSync`, `DeviceSyncProofs` (**done**) | welcome processing, join barrier, auto-invite of own devices, joiner marks, rotation of KeyPackages, forgetting a sibling and its durable slot | see sections 4 and 5; next, the second wave of invites (section 6) |
| 6 | `EngineSession`, `EngineSessionProofs` (**done**) | `start`/`stop` against each other, the generation token, the joining phase, origin routing, `acceptLocal` before and after a session | see sections 4 and 5; next, a page reload in the middle of a session |
| 7 | `EventLedger` (**done**) | the abstract ledger the receive engine implements | theorem `ImplementsLedger` (done) |
| 8 | `Identity`, `MCIdentity`, `IdentityProofs` (**done**) | sign-in, sign-out, provider mount and `init()`, partition binding, `forgetSelfDevice` | see sections 4 and 5 |
| 9 | `LegacyMigration`, `LegacyMigrationProofs` (**done**) | the upgrade to partitions | see section 5 |
| 10 | `PublishOutboxProofs` (**done**: `TypeCorrect`, `AcceptedBeforeSent`, `AttributesItsOwn`, `MarksCanClear`, `RestoresWhatItTracks`) | theorems of 3 | see section 5 |
| 11 | `ReceiveEngineOutcomeProofs` (**done**: `LosesNothingSilently`, `ParkedStoreIsQueue`, `WatermarkLeavesNoneBehind`, `EachEventIsShownOnce`) | what becomes of an envelope, theorems of 1 | see section 5 |

## 3. Module and code

An action is the code from one `await` to the next, because JavaScript runs to
completion in between. The await a continuation is suspended at is its `pc`. Store
calls are one action each, as every store write is one IndexedDB transaction
(`updateItem`), and a write that is retried is one action that either lands or gives
up.

### ReceiveEngine

| State in the module | In the code |
|---|---|
| `seqOf`, `accepted`, `deferredIds`, `checkpoint` | raw-event log (its `seq`), accepted log, deferred-store, checkpoint-store |
| `epoch`, `consumed`, `copies` | what the MLS library keeps durably, as the adapter uses it: the group's epoch, the ratchet keys and commits used up; `copies` bounds deliveries |
| `lifecycle`, `processed`, `deferred`, `attempts`, `lastIngestedSeq`, `bootstrapCompleted`, `pendingDeferredRetry` | the closure variables of `createReceiveEngine` and of the ingest policy |
| `serialQueue`, `liveBuffer` | the FIFO behind `enqueueGen`; the live buffer of `buffering_live` |
| `pc["chain"]`, `pc["cutover"]` | the job at the head of the FIFO; the continuation of `start()` |
| `stream`, `batch`, `entered`, `frames` | the retry pass in progress: signals still to come from `ingestPersisted`, `everEnteredRetrying`, and the passes suspended around a nested one |
| `inFetch` | whether the cutover runs inside the `try` block of `runBootstrapFetch` |
| `projection`, `rejected`, `evicted`, `interrupted`, `orphaned` | what the consumer was told; `evicted`, `interrupted` (messages cut off by a crash, a stop or a rejecting ingest) and `orphaned` (facts in the logs over which a session joined) are history that only the properties read |

`HandleMessage`, `HandleDeferred`, `HandleSkipped`, `HandleMalformed` and
`HandleEpochAdvanced` are the branches of `processSignal`; the actions after them are
their awaits (`AcceptEvent`, `AcceptDeferredAppend`/`AcceptDeferredRemove` for the two
writes of `acceptDeferredFact`, `SaveDeferredIds`, ...). `EnterRetrying`,
`ChargeBatch`, `IngestBatch`, `NextRetried`, `RemoveExhausted` and `EndOfPass` are
`runDeferredRetryPass`. `Start`, `Rebuild`, `DrainNext`, `EnterCatchingUp`, `CatchUp`,
`EnterBufferingLive`, `DrainBuffered`, `EnterLive` and `ConsumeLatch` are the cutover,
`LateBootstrap` its T_join branch. A join ends with the bootstrap fetched, or without it:
T_join has run out, or the fetch has thrown; that choice is always open. `GiveUp...` actions
are the exhausted retry of a write. `DeliverLive` is the relay, `AcceptLocal` the user,
`Crash` a reload and `Stop` `stop()`.

What may reject is a load of the stores (`LoadThrows`: `start()` is over, the engine stays in
`recovering`) and the library's `ingest()`, at any envelope of a batch and after or before it
has used up its key. The adapter collects the signals of a batch and returns them at its end,
so all of them are gone (`Untaken`). `DeliverLiveThrows` is a live push, which is warned of and
forgotten. `IngestThrows` is a drain or a retry pass. `enterCatchingUp` catches what its drain
throws and leaves the engine in `catching_up`; out of R3 it reaches `start()`, like a failed
load. Nothing catches it in a pass, which unwinds to the FIFO, or to `start()`, and leaves
`retrying_deferred`. If that `start()` is in the `try`
block of `runBootstrapFetch` (1398), its `catch` enters `catching_up` again (`Rejoin`), which
empties the live buffer, subscribes a second time and throws at the count of drains
(`Reopen`).

`MCReceiveEngine` gives `EventOf` and `NeedEpoch` for the instances.

### PublishOutbox

| State in the module | In the code |
|---|---|
| `pc[e]` | the await the `dispatch()` of edit `e` is suspended at |
| `bridge`, `outbox` | the two readiness gates of `task-store.tsx`: what `dispatchLocalGateRef` holds (nothing, the `dispatchLocal` of the mounted bridge, or one of a bridge gone or of another board); whether there is an outbox and its `loadPersisted` has settled |
| `accepted`, `gaveUp`, `unheard` | accepted log; edits whose write was abandoned and reported; edits whose `dispatchLocal` reached no running engine of this group (history) |
| `entries`, `stored` | `outboxEntries` of the adapter; the array in the outbox store |
| `pending` | the marks of `react-engine-hooks.ts` (`pendingByTaskRef`) |
| `lock` | the promise chain of `withPublishLock` |
| `inFlight`, `count`, `firstEventId`, `expected` | the publish window of the outbox bridge |
| `disk`, `loads` | outbox transactions in the order they were issued; results of reads on the way back |

`Dispatch`, `DispatchLocal`, `AcceptLocal`, `Publish`, `Register`, `StartAttempt`,
`NetworkPublish` and `SendResolves`/`SendThrows` follow one edit. `Echo` is
`reconcileOwnEcho`, `PublishCommit` a kind-445 of the same client that is no edit,
`CreateOutbox` the effect that owns the outbox, run again whenever the group reference
changes. `StorePut`, `StoreGet` and `Rehydrate` are the outbox store's transactions and
`loadPersisted`. `persistEntry` takes its snapshot inside its transaction, so a put
still queued carries the newest state: `Persist` replaces it in the queue, but not past a
read issued since (`QueuedWrites`). `evicted` and `astray` are history read by properties
only.

The provider is mounted without a key (`app/page.tsx` 247), so it outlives its board:
`SwitchBoard` is the user who selects another group, `CloseBoard` the one who closes the
board and so unmounts the provider. Either way this group's outbox is disposed of, its engine
stopped and its marks lost, while the registry, the publish lock and the dispatches under way
stay. The hooks through which the registry reports belong to an outbox, so that without one
nothing is written or cleared (`Hooked`). After a switch the gate still holds a
`dispatchLocal` that is not this board's, which is `bridge = "stale"`: a dispatch goes on
without having been accepted (`unheard`) and waits for the outbox. One that awaits an
engine now stopped still gets its event into the log (`AcceptLeft`), or finds nothing to call
(`RegisterLeft`); one that waits for the outbox gate when the board changes is published to
the other group (`CarriedOff`). When the provider unmounts, what waits at a gate is over or
waits for good.

### TaskBoard

| State in the module | In the code |
|---|---|
| `bus`, `edits` | the group's application messages in MLS order; every edit dispatched, its position being its rumor id |
| `snapshot`, `invite` | the kind-30078 event for an invitee; how far its invitation is |
| `log`, `read`, `bootstrapped` | accepted log; how far the ratchet has come; `bootstrapCompleted` |
| `phase` | of the hook and its engine: not a member, not mounted, `loadAcceptedEvents` running or returned, engine joining or live |
| `shown`, `since`, `copy` | `currentProjection`, `eventsSinceRebuildStart`, the log as `loadAcceptedEvents` read it |
| `queue`, `emitting`, `unsent` | edits waiting in the FIFO for `acceptLocal`; an event appended and not yet emitted; edits accepted and not yet sent |
| `late`, `unseeded`, `hasty`, `covers`, `faults` | history, read by properties and bounds only |

The projector never relates two tasks, so one task stands for the board; of each field
it keeps the edit that wrote it. `DispatchCreate`, `DispatchMutation`, `AcceptLocal` and
`Send` follow an edit to the bus. `Deliver` is the next message of the bus, which is one
order for all devices: the strictest delivery the design assumes, so that what diverges
here diverges under any delivery. A device's own edits are in its log before they are on
the bus and are recognised by their id. `Invite`, `PublishSnapshot`, `ResolveBootstrap`
and `JoinTimeout` are how a device joins; `Mount`, `LoadLog`, `Rebuild`, `LoadFails`,
`Emit` and `Reload` are the hook's effect. Losses of the acceptance path itself are
`ReceiveEngine`'s subject and do not occur here.

`MCTaskBoard` makes the two devices siblings (one pubkey), so that only the third level
of the tie-break separates them.

### DeviceSync

All devices share one pubkey, so every device is an admin wherever it is a member, and
reads every gift wrap. A device is its KeyPackage slot, a KeyPackage a device and a
version; version 0 is the ephemeral one a group is created with.

| State in the module | In the code |
|---|---|
| `published`, `welcomes`, `tree` | KeyPackage events and gift wraps on the relay; the ratchet tree of each group |
| `keys`, `used`, `own` | `client.keyPackages.list()`, its `used` entries, the own leaf of each loaded group |
| `ingested`, `read`, `failed`, `joinedGroups` | invite store, its read marks, failed-welcomes, joined-groups |
| `invitedKeys`, `forgotten` | the stores of invited keys and forgotten slots |
| `worker[d][w]` | a run of `processUnread`; several may be in flight, one per gift wrap |
| `task[d][t]` | a KeyPackage event on its way through `handleKeyPackageEvent` or `syncKnownKeyPackages` and `inviteToAllGroups` |
| `joinBarrier`, a task's `wait` | the run whose turn set the barrier; the barrier a handler awaits |
| `forget[d]` | `forgetSiblingDevice`; its `done` and `escaped` are history: groups gone through and not entered again since, and groups whose sweep an invite has overtaken |
| `known`, `invited`, `pendingInvites`, `forgottenSlots`, `initial`, `rotating` | the hook's closure; whether the one-shot fetch is over; the "joined" handler of `client.tsx` |

`FirstUnread` and `LiveUnread` start a run; `Join`, `ReadJoined`, `MarkGroupJoined` and
`JoinFails`, `AppendFailedWelcome`, `ReadFailed` are `joinFromWelcomeInvite`, and
`EndTurn` its caller's `finally`. `JoinFails` is also a read mark or joiner mark that is
refused after the join, as both are written inside its `try`. When the list of KeyPackages or
a write of the `catch` rejects, nothing in `processUnread` catches that: the turn's `finally`
runs and the run is over, its other invites unread (`RunRejects`). `HandleKeyPackageEvent` and
`SyncKnown` start a handler; `CheckSlot`, `NextGroup`, `Reserve`, `Invite`/`InviteFails` and
`PersistInvitedKey` follow it, or `PersistFails`, which leaves the key in memory only. `RequestKeyPackages`, `RemoveLeaf`, `RemoveIsStale`,
`RetryRemove`, `MarkSlotForgotten` and `RefreshForgotten` are a forget. `Rotate` and
`CreateKeyPackage` are the provider's. `Reload` leaves the stores and mounts the hook
again.

### EventLedger

`log` is the accepted log, `shown` what the board of the session was shown, `open` whether
a session is under way. `ReceiveEngine` maps them to `accepted`, `projection` and
`lifecycle`; its `Start` is `Open` (the hook rebuilds before it starts the engine), `Stop`
and `Crash` are `Close`, an append of one of its three paths is `Enter`, an emission
`Show`. Everything else, the ratchet, parked facts, checkpoints, retries and failures, is a
stutter.

### EngineSession

| State in the module | In the code |
|---|---|
| `log`, `mark`, `consumed` | accepted log; `bootstrapCompleted` of the checkpoint; envelopes the ratchet has used up |
| `origin`, `mounted`, `board` | `engineOrigin` of the task store; the engine in `engineRef`; `currentProjection`, `activeRebuildGeneration` and `eventsSinceRebuildStart` of the hook |
| `eng[m]` | one engine for each mount: `pc` is the await of `start()`, then its `generation`, `bootstrapCompleted`, T_join, bootstrap fetch, subscription, live buffer, FIFO and the job at its head |
| `zombies`, `misrouted`, `early`, `late` | history for the exemptions below |

`ResolveOrigin`, `MountBoard`, `Dispatch` and `Unmount` are the board; `Seeded` to
`LogsLoaded` are `boot()` and the routing of `start()`; `Joined` to `TJoin` the joining
phase; `Recovered` to `GoLive` the rest of the cutover; `StartJob` and `JobReturns` the
FIFO. What a signal is to an engine is the subject of `ReceiveEngine`; here it is
written and shown. A store takes a write when it is issued and reads a value when the
read is issued, because IndexedDB runs transactions in that order; what awaits it goes on
later.

### Identity

| State in the module | In the code |
|---|---|
| `login`, `checked` | the handlers of the sign-in screen, one per attempt; `signerChecked` |
| `page`, `saved` | `signer`, `pubkey`, `authMethod` of `Page`; what localStorage keeps |
| `active` | `activePubkey` of `storage.ts` |
| `inst`, `client` | the mounted provider; the `init()` whose client is in its state |
| `run[l]` | the `init()` that sign-in `l` started: its await, provider, pubkey and the clientId it has read |
| `forget` | `forgetSelfDevice` with the arguments its caller closed over |
| `slot`, `keys` | of each user's partition: `clientId`; groups in the group-state store |
| `member`, `departed` | leaves of this device in the groups' trees; proposals to remove them |
| `crossed`, `late`, `hurried` | history for the exemptions below |

React's render and the effects it schedules are one step, `Commit`: `Mounts`, `Switches`
(another signer while mounted: the cleanup unbinds after the render has bound, and
`mountedRef` is true again for the old `init()` too), `Renames` (another pubkey with the
same signer, as all NIP-07 sign-ins share one), `Unmounts`. A call of a store that is
not pinned goes to `active` at that moment; `Reaches` records when that is another user's.
`Connected` to `InitFails` are `init()`, with each check of `mountedRef` and each place
that has none. Deletion of a database is immediate (the code does not await it).

### LegacyMigration

`legacy` and `part` are what the old databases and each partition hold of each item,
`marker` is `migratedTo`, `run` the calls. A store is copied in one step, entry by entry
copies being overwrites of the same values; the task log moves key by key. `Delete` may
leave the database, as `deleteDatabaseSafe` goes on when it is blocked. `Crash` is a tab
that closes or an await that rejects. `ClientWrites` is the client of a user whose call has
returned.

## 4. Runs

| Run | Instance | Question | Result |
|---|---|---|---|
| `engine_crash` | 4 envelopes (two in epoch 1, one malformed, one commit), one local edit, each once, queue cap 2, one attempt, one crash or stop; a join may end without its bootstrap | do the stores, the watermark and the consumer agree at every await, across a restart, and is `EventLedger` implemented? | holds, 1.4M states |
| `engine_live` | 4 envelopes, two commits, two attempts, a join with or without its bootstrap, one write, load or ingest that fails, `FairSpec` | does the engine reach live or its `start()` end, does every (nested) retry pass end, is a readable parked fact resolved? | holds, 483k states |
| `engine_failures` | 3 envelopes in two copies each, two commits, queue cap 2, one attempt, one crash or stop; one write that gives up, save that does not land, or load or ingest that rejects | is anything decrypted lost without a report, is what the watermark has passed settled, and is the parked queue the one on disk, when duplicates overtake each other and sessions join over each other? | holds, 2.3M states |
| `outbox` | two edits, registry cap 1, one commit, one failed store operation; one outbox rebuilt, board switched or closed, or page reloaded, `FairSpec` | are attribution, pending marks and the durable registry right, is an edit sent only when its engine has it, and does every dispatch settle? | holds, 822k states |
| `board` | two sibling devices, a create, status edits and deletes, three edits, clocks reading 1 or 3, one reload or failed load | is the board the fold of the log, do atomic edits converge, is a lone writer heard? | holds, 3.8M states |
| `devices` | creator and sibling, one group, two handlers of the creator beside each other, two runs of `processUnread` of the sibling, two versions of each KeyPackage, one forget, two reloads or failed calls | is every Welcome accounted for, every slot invited once, a forgotten device swept and kept out, every barrier resolved? | holds, 251k states |
| `forget_bystander` | three devices, one forget, no faults | does a forget remove only what it should? | violated, see findings |
| `identity` | two users, two sign-ins, one group, one reload; a sign-in may start beside another, and while a probe or a forget is in flight | are the bound stores, the client, its slot and the saved session the user's on the page, and is no group's state destroyed unannounced? | holds, 4.0M states |
| `identity_crossed` | two users, three sign-ins, no reload | does a task of one user stay out of the other's stores? | violated |
| `migration` | two users, three calls, two stores, one task key, one call cut short | is nothing legacy lost, split or set back? | holds, 2.5M states |
| `session` | two engines in turn, one envelope, one snapshot task, one edit, one failure; a fresh group, a completed one, or an interrupted join | does the board show the log, do stopped engines stay silent, is history drained once, does the mark stay? | holds, 5.5M states |
| `bootstrap_marked` | the same, no failures | is a marked bootstrap an applied one? | violated |

The property that covers most is `NoSilentLoss`: what the ratchet consumed is accepted,
rejected, still on its way, covered by a report, or cut off by a crash or a batch that
rejected (`interrupted`); it relates the MLS library's
durable state to four stores, two queues and the await every continuation is at.
`CoveredHasOutcome` is the part of the watermark's promise that does hold: what the
watermark has passed has its outcome in a store, or has been reported, or is still in
hand; only a crash can cut off what was in hand, and only a session that joins can leave
behind what an earlier one had logged. `ParkedStoreAgrees` ties the in-memory queue to the
deferred-store whenever no save is under way, `ProjectionComplete` the consumer to the log.
These three speak of the time before a write or an ingest fails.

A session joins over residue when the bootstrap before it was not marked as completed: T_join
is 8 s and the relay request it races gives up after 15 s, the fetch may throw, and the save
of the mark may fail. Such a session (1343) begins with an empty queue and its first save
replaces the stored list, while its watermark moves past what it never looked at. `orphaned`
names what was in the logs at that moment; both properties let these facts go, and
`ParkedStoreAgrees` lets the stored list hold them until it is replaced, but no others.

`ProjectionComplete` needs each source to be an
event of its own, each local edit to be dispatched once, and no write to fail: a handler
looks up `processed` and writes some awaits later, and a retry pass that runs outside the
FIFO can look up the same id in between. With an envelope that re-publishes the event of
another (two fact ids, one event id), or an edit dispatched again after a crash, before R1
has restored `processed`, TLC finds an event that is shown twice. Folded twice in a row, an
edit changes nothing the second time (`MutationIsIdempotent`).

`ShowsTheLog` is R-INV-4 for the hook: through the load, the replay queue and the
deduplication against the loaded copy, the board is what a rebuild would show; the one
exception is a late bootstrap (see below). `AtomicEditsConverge`
is the part of convergence that the per-task gate leaves (C1: one field-replacing kind,
no deletes); its hypothesis `Settled` asks that all have joined with a base for the task,
have nothing left to accept, send or read, and know what is on the bus. The last part is no
formality: a member reads what is sent after its invite, and the snapshot that
`inviteAndPublishSnapshot` sends (`device-sync.ts` 1082-1084) is the founder's log at that
moment. With three devices, an edit of the second that is on the bus at the invite, and
that the founder has not yet read, is in neither, so the third never learns of it: with
two devices, where only the founder edits before the invite, this cannot happen.
`LoneWriterIsHeard` is what
`ensureMonotonicTimestamp` is for; it excludes edits dispatched before the one before
was folded (their timestamps do tie) and a create that follows a delete in a log, which
brings a task back by design. A session whose seeding load failed has not folded what its
log has, so an edit dispatched in it is excluded too: it is stamped over an older task than
the device had, and can lose to an edit of its own. That takes more faults than the one of
`board.cfg` (TLC finds it with three); it came up when the theorem of section 5 was tried.

`WelcomeAccounted` relates the invite store to the group list and the failure log at every
await of a join, with other runs beside it and a reload anywhere.
`OneWelcomePerSlot` is the slot-level deduplication that keeps a rotation from being
taken for a new device; it excuses exactly the reload between an invite and its record,
which the code cannot undo, and a record whose write is refused, of which the code only
warns and which a reload then forgets. `ForgetSweepsGroup` holds for groups to which each of the two
devices, the one that forgets and the forgotten one, was admitted once; one admitted twice
can keep a leaf, because a match by event stops the fallback. Nor does a sweep see an invite
that lands after it has looked up the leaf indexes: with three devices such a leaf stays, of
the forgotten device or, when a retry looks up the indexes by pubkey and takes the lowest,
in place of its leaf. `Escapes` marks these groups, and they do not count as `done`. `ForgottenStaysOut` is about the check and the two ways the cache is filled.
`BarrierIsHeld` is what keeps a handler from waiting for a run that is over: the runs
share one `joinBarrier` variable and overwrite each other's, and a handler's own
reference to the promise is what makes that harmless.

`StartReachesLive` and `RetryPassEnds` name the states in which the code leaves an engine for
good: a start whose recovery or drain rejected stays in `recovering` or `catching_up` with
`start()` over, a pass cut off by a rejecting ingest stays in `retrying_deferred` with nothing
under way. Without a failure these are excluded, so the engine reaches live and leaves every
pass.

`SentIsAccepted` is the order that MLS forces on a local edit: an author is never handed its
own message back, so what is not accepted before it leaves its author never sees.
`unheard` is the one way around it. `DispatchSettles` counts `"lost"` as settled: the page
has been reloaded or the board left.

`KeepsTheLedger` is the refinement: it says of every step of the engine what it may do to
the log and to what the board is shown, and so covers that an event is durable before it
is shown, is entered once, and that nothing happens between two sessions.

`BoardIsWhole` is the other side of `ProjectionComplete`, across mounts: what was accepted
while the log was being read, by this engine or by the one before it, is on the board. It
exempts an edit that is in the FIFO while `start()` bumps the generation or after `stop()`,
which is written and shown to nobody (`early`, `late`), and a board whose seed failed.
`OnlyOwnersWrite` is what the generation token is for. `OneDrain` is the
exactly-once invariant that `enterCatchingUp` throws on, over the races of T_join, a late
bootstrap and a restart; `MarkIsKept` is the monotonicity that
`engine-types.ts` 228 states. An engine that `stop()` has left running (`zombies`: it was
asked to stop while `loadCheckpoint` or the logs were being read) is exempt in all of them;
each exemption is needed, the run fails without it.

`BoundToPage` and `ClientIsOfPage` say that a session which is over binds nothing and shows
nothing, through eight awaits of `init()`; they exempt sign-ins started beside
another (`hurried`), where an in-place switch lets the older `init()` bind again.
`ClientKeepsItsSlot` says that the clientId a client publishes under is the one the next
session will find. `ReloadRestoresNoOther` relates localStorage, which the sign-in flows
write before they tell the page, to the page. `NoGhostLeaf` is the order of
`forgetSelfDevice`: a group's state goes only after the Remove is proposed; groups joined
while the forget runs are exempt, as the code takes its list at the start.

`LegacyKept` is the promise of the upgrade; a task log moved by two overlapping calls is
exempt, as the second stores `undefined` over a key that the first has moved.
`OnePartition` and `NeverSetBack` are exempt for overlapping calls, the first also for a
call cut short, after which another user may take the rest.

**Bounds.** Two epochs and three kinds of envelope in the first run are enough for a
fact to be parked, retried, exhausted, pruned and evicted (cap 2, one attempt), for a
retry pass to be interrupted by a crash, and for history, a live push and a local edit
to interleave; the second commit in `engine_live` is what nests a pass in a pass.
`MaxCopies` is given for each envelope and edit: with `MCOnce` an envelope arrives as one live
push or is found by `catchUp`, with `MCTwice`, in `engine_failures`, it does both, or arrives
twice. The restart that joins over residue needs no failure, only a bootstrap left behind, so
it occurs in `engine_crash` and `engine_failures`; the one failure of `engine_live` is what
makes a drain, a pass or a recovery reject. In `outbox` a cap of 1 with
two edits makes each eviction path happen, and two edits are the least for a window to
close while another edit holds an expectation. In `board` two clock readings with a gap
give ties, steps back, and room for a bumped timestamp to fall between; a create and two
edits are the least for concurrency, and for three-step orders such as create, delete,
create. In `devices`, two handlers and two runs are the least for one to overtake the
other; two versions are one rotation, which is what makes an invited KeyPackage stale
and a forgotten device's leaf unmatched. The creator of the one group has no Welcome to
process, so it gets no runs; the second fault is what lets a refused record meet a reload, and
a refused mark the invites that it would have held back. Runs of one device are alike until they start,
handlers too, which is what the symmetry uses; it permutes neither devices nor versions,
and the run checks no liveness. One crash, one reload, one switch of the board and one failure
each reach every await, as they may come anywhere. In `session` two mounts are the least
for one engine to meet another, and after an interrupted join the failure is spent. In
`identity` two users and two sign-ins are the least for a task to outlive its user; the third
of `identity_crossed` only lets the boot find nothing. `Hasty` names what a new sign-in
does not wait for: `identity` leaves out that it overtakes a clientId being read or stored
("store", two transactions of IndexedDB against a sign-in by hand), `identity_crossed`
everything but the relays, so that what it finds takes no unusual speed. Users and
sign-ins are alike, which is the symmetry. In `migration` three calls are the least for
one cut short, one that goes on and one that finds the marker; two stores for a cut between
them.

**`CHECK_DEADLOCK FALSE`** in every run: relays deliver finitely many copies and the
user makes finitely many edits, so a run ends where nothing is left to do; the program
does nothing there either.

**Fairness.** `FairSpec` of `ReceiveEngine` is weak fairness of each continuation, of
the job loop and of `start()`: the event loop runs what is ready and IndexedDB settles
every transaction. Nothing is assumed of relays, the user, aging, crashes or failures.
`FairSpec` of `PublishOutbox` adds that a send settles, which `network.publish`
ensures with its ten-second timeout per relay; an echo is never assumed, nor that the user
comes back to a board left for another (`CreateOutbox` is fair on a mounting provider only).

**Findings** (quoted in full in `PROJECT.json`): forgetting a device whose current
KeyPackage matches no leaf removes every other device of the user; a probe or a forget
that outlives its session reads, writes or clears the partition of the user who signed in
next, although `storage.ts` 37-41 calls isolation a matter of construction; a bootstrap
whose relay request failed, or which found no snapshot yet, is marked as applied and never
fetched again.

Ten more disagreements were met while modelling and have no run of their own. For the
first five the modules keep the statement the code contradicts as a definition, so that
a run can be made of it.

* `WatermarkCoversOutcomes` (`ReceiveEngine`): a duplicate yielded as skipped moves the
  watermark over a message that is still buffered (`receive-engine.ts` 881), and a retry
  pass that finds a fact still unreadable moves it over a first save that is still under
  way (1050, whose comment takes the fact for durably parked).
* `ParkedXorAccepted` (`ReceiveEngine`, R-INV-3): two copies of an envelope arrive before
  its epoch; the retry pass that `enterLive` starts beside the FIFO accepts the first after
  the commit, and then the FIFO handles the signal of the second, which still says
  "deferred", and parks the accepted fact again (843). The next pass takes it out.
* `ReadableIsResolved` (`ReceiveEngine`) holds in `engine_live`, but not for every
  instance: a fact classified unreadable just before a commit inside a retry pass is parked
  after the pass and waits for an unrelated epoch (1226, against 1171-1190); so does one
  that became readable just before a crash.
* `SettledStateEqual` (`TaskBoard`): two concurrent edits of different fields leave devices
  different for good, in spite of one order on the bus, because each folds its own edit
  first (`task-projector.ts` 108).
* `BootstrapCommutes` (`TaskBoard`): a bootstrap that resolves after T_join hides the live
  update that came before it until the next restart (`receive-engine.ts` 1400).
* The watermark is a maximum, so it covers a fact whose write was abandoned as soon as a
  later one lands, whereas `receive-engine.ts` 814 and 821 say that it stays behind.
* The retry pass that `enterLive` starts runs beside the FIFO, so events may be emitted in
  another order than they were logged in, whereas the comment at 1108-1119 says that a
  pass runs inside the FIFO only.
* An echo that arrives before its own send has resolved finds no entry with its id
  (`marmot-adapter.ts` 658), so it clears no pending mark, and need not come again.
* `task-store.tsx` 317-322 says that the gates are re-armed when what they hold is torn down.
  The outbox gate is (537), the gate of `dispatchLocal` is not: after a switch of the board it
  holds a `dispatchLocal` that does nothing (`react-engine-hooks.ts` 303), or accepts into the
  other group, until the new bridge reports. An edit sent then is invisible to its author.
  Every such edit is in `unheard` in the model.
* `task-store.tsx` 340-342 says that a dispatch which waits for a gate never hangs past the
  provider's unmount. One that waits at the first gate is released, goes on to the second,
  which the outbox effect's cleanup has emptied by then, and nobody releases that again.

## 5. Proofs

`ReceiveEngineProofs` proves, for every set of envelopes, edits and events, every
epoch assignment and every bound:

* `TypeCorrect`: `Spec => []TypeOK`.
* `EmitsOnlyDurable`: `Spec => []EmittedIsDurable`, nothing is ever shown that the
  accepted log does not hold, whatever interleaves, gives up or crashes.
* `ImplementsLedger`: `Spec => KeepsTheLedger`, the engine implements `EventLedger`.

They rest on the module's assumptions: `SourceAssumption` (the envelopes are finite in
number and disjoint from the local edits; commits, malformed and expirable envelopes
are envelopes; each has an event and an epoch), `BoundAssumption` (the caps are
positive, the bounds natural) and `CheckpointAssumption` (the model value for "none" is
not a checkpoint).

*Argument.* Type correctness has one lemma per action, on top of lemmas for the helpers
(`AwaitTyped`, `AdvanceWatermarkTyped`, ...). `EmittedIsDurable` is not inductive:
between the append to the accepted log and the emission, nothing but the position of
the continuation tells that the event is durable. The invariant `DurableInv` adds
exactly that, `CarriesAccepted(w)`: a continuation that has passed its append carries
an event that is in the log. It also adds that `processed` holds only logged events,
because a processed event skips the write. Steps that touch none of this are dealt with
once (`DurableKept`, `DurableOther`), the append and emission steps one by one, and
`DurableStep` puts them together. The refinement uses `DurableInv` and `TypeOK` as its
invariant, with `DownIsIdle` (an engine that is down has nothing that goes on) for
the fact that entries and emissions happen in an open session only; an emission is then a
`Show`, and the idempotence of `AppendAcceptedEvent` makes an append an `Enter` or a stutter.

`ReceiveEngineOutcomeProofs` goes on from there, under the same assumptions:

* `LosesNothingSilently`: `Spec => []NoSilentLoss`.
* `ParkedStoreIsQueue`: `Spec => []ParkedStoreAgrees`.
* `WatermarkLeavesNoneBehind`: `Spec => []CoveredHasOutcome`: an envelope below the saved
  watermark, which R3 will not replay, has its outcome, unless a session joined over it.
* `EachEventIsShownOnce`: `Spec => [](Regular => ProjectionComplete)` where each source is
  an event of its own (`OneEventEach`); `Regular` says that no write has failed and no local
  edit was dispatched twice (see section 4).

*Argument.* `LossInv` follows a consumed message from the stream of a batch, through FIFO
or live buffer, to the handler that carries it and to the log. It adds `StreamsHeld`: a
stream is non-empty only inside a batch or a pass, so that a step which ends one drops
nothing. The lemmas are about where a message is: `LosesNone` says that a step loses
nothing if whatever was carried is carried after it or has been written or reported, and each
action shows that of the place it takes the message from. `ParkedStoreAgrees` speaks of rest
only, while two continuations may each have a save of the parked ids under way, issued at
different times. `ParkInv` says in every state which list will land last (`LastSave`, from
`firstSave`) and that it is the queue (`SavesTheQueue`): every change of the queue issues a
save with the new list in the same step, and `ParkIssued` and `ParkLanded` show that neither
issuing nor landing breaks that. Across a restart it needs `WaitsForQueue` (before the queue
is rebuilt only local edits are handled) and `JoinsOverOrphans`: a session that recovers
rebuilds the queue from the list, and for one that joins, whatever the list may hold is
logged (`ParkedIsLogged`) and so orphaned. The first save of that session replaces the list, and
until then it holds nothing but the queue, still empty, and orphans.

`CoveredHasOutcome` speaks of what the checkpoint covers, and a crash makes the checkpoint
the present; so `CoverInv` says of each task fact in the log, in every state, what has become
of it. While a session has its queue, the fact is `Tracked`: it is resolved, or its removal
is about to be reported, or it is parked and that is stored, or not yet passed by the
watermark in memory, or in the save that parks it, or R3 has still to hand it out.
While the engine is down or rebuilding, `Awaited` says the same of the stores. The case that
needs care is a crash between the two stores: a fact that cannot be read yet is logged and
queued in one step, and the FIFO awaits its save before the next signal, so a crash
finds at most one fact whose parking is not stored and that the watermark has not passed, and
it is the newest in the log (`Newest`, `ParksTheNewest`). R3 only hands out what was logged
before (`ReplaysTheLog`), so nothing older carries the watermark past it. The other conjuncts
tie a continuation's seq and kind to the log (`LogsAgree`, `SignalsDecrypted`, `StageIs`) and
the saves under way to the queue (`SavesCover`); `TracksSteady` deals once with the steps
that leave log and queue alone. A session that joins starts with everything in the log
resolved as orphaned, so only what it logs itself is left to track.

`ProjectionComplete` compares two sequences at rest; in between they differ by what has been
written and not yet emitted, which is at most one event per continuation (`Owed`,
`ShownOrOwed`). That none is written twice, hence shown twice, is a matter of where signals
are. `Lines` lays out every place a signal can wait in: the FIFO, the live buffer, the hand
of each continuation, and the stream of each of its nested passes, counted from the
outermost so that a push or a pop leaves the others where they are. `Distinct` says that no
message or local edit is in two places, and `SignalsNew` that the event of each is still to
be written; `LogIsUsed` adds that the log holds events of decrypted envelopes and dispatched
edits only, so what is decrypted for the first time is new. A step then loses heads of lines,
moves one, or adds one (`DistinctLoses`, `DistinctMoves`, `DistinctAdds`), or it writes the
event of the one signal in its hand, which leaves that hand (`WritesNew`).

`PublishOutboxProofs` proves, for every set of edits, every registry cap and any number of
commits, rebuilt outboxes, boards switched and closed, reloads and failed store operations:

* `TypeCorrect`: `Spec => []TypeOK`.
* `AcceptedBeforeSent`: `Spec => []SentIsAccepted`.
* `AttributesItsOwn`: `Spec => []AttributionIsRight`.
* `MarksCanClear`: `Spec => []PendingIsTracked`.
* `RestoresWhatItTracks`: `Spec => []RegistryMatchesStore`.

They rest on `OutboxAssumption` (finitely many edits, distinct from a commit and from the
model value for "none", and a positive cap).

*Argument.* Three invariants, each on top of the one before. `SendInv` is what the
attribution needs of the publish lock: the lock holds the dispatches that wait and, at its
head, the only one that sends (`LockIsFair`); a window is open exactly while there is one,
for that one (`WindowIsSenders`); and if it has counted one envelope and the sender's is
out, it is the sender's (`WindowCounts`). `Settles` is all that the end of a send does to an
entry. `OutboxInv` follows every copy of an entry (`Copy`): in the registry, in the store, in
a write that is queued or a read that is on its way, as a wrong attribution could come
back from any of them. `CopyIsRight` says what each must be, and `CopiesKept` and
`CopiesFrom` reduce a step to the one entry it writes. `StoreInv` speaks of the store not as
it is but as the transactions already issued will leave it (`WillStore`): that agrees with
the registry in every state (`TrackedIsStored`), while `RegistryMatchesStore` speaks of
settled ones only; and an unresolved entry the registry lacks is still to be read
(`StoredIsTracked`, `Unread`). `PersistStores` and `TailStores` say what issuing and running
a transaction do to `WillStore`.

`TaskBoardProofs` proves, for every timestamp, author, device and task:

* `TieBreakIsAcyclic`, `TieBreakDecides`: `taskWinsOver` is irreflexive and transitive,
  and of two different keys exactly one wins. A key is what identifies an edit here:
  two edits of one device with one timestamp tie, and the first folded stays.
* `MutationIsIdempotent`: folding a mutation twice is folding it once.
* `AtomicEditsCommute`: two mutations of one field-replacing kind commute on any task
  that is there.
* `StampedEditTakesEffect`: an edit stamped by `dispatch` changes the task it was made
  on, whatever the clock reads.

and, for every set of devices and any number of edits, reloads and failed loads:

* `TypeCorrect`: `Spec => []TypeOK`.
* `SeededShowsTheLog`: `Spec => []ShowsTheLog`.
* `SettledDevicesAgree`: `Spec => []AtomicEditsConverge`.
* `LoneWriterLosesNothing`: `Spec => []LoneWriterIsHeard`.

They rest on `BoardAssumption` (finitely many devices, each with a clientId of its own;
clocks are any sets of naturals) and `NoneAssumption`.

*Argument.* A replay is a fold of a log from the left, which the community modules define by
a recursive function over sets of positions. The lemmas up to `FoldOfAppend` show that this
function exists and is unique, by the least position at which it would fail, so that one
more event is one more turn of the loop. `ShowInv` follows the projection through the
rebuild: in every phase it lacks at most the event that is appended and not yet emitted
(`ToShow`), and what was emitted while the log was being read is what `since` adds to
`copy` (`Rebuilding`); an event the copy has already may be folded again, because any event
folded twice changes nothing (`AgainChangesNothing`). It needs `TraceInv`, that what a
session works on is in its log, and `IdInv`, that a device accepts its own edit once.

For convergence, `Result(y, S, m)` says what a task is after the edits S of one kind m,
without mention of their order: as created, or as the one of them left it that none of them
beats, and of several with its key the first dispatched. `ResultOfEdit` extends S by an
edit, `FoldOfEdits` carries that through a log, and `ResultIsUnique` makes any two devices
agree that have folded the same set. What the sets are is the work of four invariants:
`OriginInv` (all that a device holds was dispatched by someone or is its bootstrap),
`StartInv` (nothing before the create), `SnapInv` (a snapshot is the replay of a front of
the founder's log, whose ids `covers` records), and `OrderInv`, which settles ties: edits of
one device stand in its order in its queue, in what it is to send, on the bus and in
every log, and a log has of another device's edits only what was read from the bus. So edits
with one key meet in one order everywhere, and those a snapshot covers are ahead of those it
does not (`FrontInTurn`).

For the lone writer it remains to show that the times of its edits grow (`OneWriter`); then
`Outcome(y, S)`, every edit of S applied, goes through a log like `Result` (`FoldOfWriter`).
An edit is stamped later than the task as shown, so what is needed is that a task as shown
is no older than any own edit in the log: `Top`, which each turn of a fold keeps
(`TopOfAppend`) and a replay has (`TopOfReplay`), provided a device only edits what its log
has the create of (`Grounded`). `PatientInv` carries this to the moment of dispatch, also
where `ShowsTheLog` says nothing: after a late bootstrap (`TopAt`), and in a session that
still loads its log and in which the user creates and edits (`SessionAt`: what such a session
shows began with its own create, so the log had nothing else). A create after a delete breaks
`Top`, hence the exception for a task that came back (`Back`).

`DeviceSyncProofs` proves, for every set of devices, groups, runs and handlers, every
choice of creators and every bound:

* `TypeCorrect`: `Spec => []TypeOK`.
* `BarriersAreHeld`: `Spec => []BarrierIsHeld`, no handler waits for a run that is over.
* `WelcomesAreAccounted`: `Spec => []WelcomeAccounted`, no Welcome is taken off the
  unread list unaccounted for.
* `SlotsAreInvitedOnce`: `Spec => []OneWelcomePerSlot`, a slot is invited once, but for
  a reload between the invite and its record, or a record whose write fails.
* `ForgottenIsNotInvited`: `Spec => ForgottenStaysOut`, an action property.
* `SweepsTheForgotten`: `Spec => []ForgetSweepsGroup`, a group that a forget has gone
  through keeps no leaf of the forgotten device, rotated or not.

They rest on `DeviceAssumption` (the sets and bounds are what they are called) and
`NoneAssumption` (the model value for "none" is none of the others).

*Argument.* Each property gets an inductive invariant of its own on top of `TypeInv`,
which is `TypeOK` and the fact that a continuation past its first await has what it
works on. `BarrierInv` adds that the variable `joinBarrier`, too, names a run that is in
a turn, as that is where a handler takes its reference from. `AccountInv` adds what the
position of a run tells: at `readJoined` its device has the group, at `readFailed` the
failure is on record. `InviteInv` says where the key of a published invite is kept: in
the cache, or lost by a reload or a failed write and so in `unrecorded`; that whatever the cache holds is
in the store or about to be written by the handler that added it; and that no two
handlers of a device hold the same key, which is what `pendingInvites` is for. `CacheInv`
says that the cache of forgotten slots is the store, except between the write and the
refresh that the write's event starts. `ForgetSweepsGroup` rests on two. `AdmitInv` says
where leaves come from: they are distinct, each is the founder's or has its Welcome, and a
device knows its own leaf in a group it has loaded; so a device admitted once has one
position in the tree (`OnePosition`). `SweepInv` says that a sweep still has that position
`Ahead`: among the indexes it goes through, and such that a second lookup finds it again.
A retry takes the first index of its lookup, and `FirstLeast` is why it does not run past
the leaf: the indexes already gone through are blank, so the least one left is one that the
sweep still holds. Each is split by who moves: steps that leave the
variables of an invariant alone are dealt with together (`AccountQuiet`, `InviteQuiet`),
the others one by one.

`IdentityProofs` proves, for every set of users, sign-ins and groups, any number of reloads
and whatever a sign-in does not wait for:

* `TypeCorrect`: `Spec => []TypeOK`.
* `StoresFollowThePage`: `Spec => []BoundToPage`.
* `ClientFollowsThePage`: `Spec => []ClientIsOfPage`.
* `ReloadIsHonest`: `Spec => []ReloadRestoresNoOther`.
* `LeavesAreAnnounced`: `Spec => []NoGhostLeaf`.
* `ClientIsFoundAgain`: `Spec => []ClientKeepsItsSlot`, provided `"store" \notin Hasty`. The
  code has nothing that makes a sign-in wait for a clientId that is being stored; it takes two
  IndexedDB accesses. Without the proviso the property fails: an `init()` of the session
  before stores the clientId it has minted over that of the client.

They rest on `IdentityAssumption`. *Argument.* One invariant, `IInv`, carries the first five, as
types already need it: a forget keeps what the client's user has, so there must be such a
user. `OneSignIn` and `ProviderFollows` say why the name of a mount is never used again: it is
that of a sign-in that is over. So an `init()` that finds `mountedRef` true
(`RunsAreNamed`, `BoundAsShown`) was started by the mount that is on the page, and binds or
hands over that mount's user. `BoundAsShown` is stronger than `BoundToPage`: as long as no
sign-in was hurried, nothing but a sign-out unbinds the stores. `SessionHasOwner` names for
each stored session the page, the sign-in under way or the forgotten user it belongs to;
`ForgetIsNamed` says that a forget signs out with the method of the mount it was started
from. `Announces` is what `NoGhostLeaf` lacks: the group about to be destroyed has been left,
and at the end all that the user was in. The sign-ins, the steps of `init()` and the forget
have a lemma each for what they have in common (`CommitKeepsProvider`, `InitMoves`,
`StoresMove`). `SlotInv` is for the last: no init() but that of the mount on the page, or of
the last one while nobody signs in, is at its clientId, and what the mounted one has read or
stored the identity store still holds, up to the last step but one of a forget.

`EngineSessionProofs` proves, for any number of mounts, envelopes, snapshot tasks and
edits and any bound on failures:

* `TypeCorrect`: `Spec => []TypeOK`.
* `SeededBoardIsWhole`: `Spec => []BoardIsWhole`.
* `DrainsOnce`: `Spec => []OneDrain`.
* `BoardlessEnginesAreSilent`: `Spec => OnlyOwnersWrite`.
* `MarkStays`: `Spec => MarkIsKept`.

They rest on `SessionAssumption`. *Argument.* The invariant is `SInv`. `Fit` says of one
engine what its generation tells of it: 0 before `start()`, 1 while it runs, 2 after
`stop()`, and that a FIFO of an engine not yet started holds edits only. `Place` ties that to
the board: an engine that is neither new nor over is the mounted one, or one that `stop()`
found before its lifecycle. So a signal, which carries generation 1, is only written by the
engine of the board (`StartJobOwns`), and only that engine listens. `MarkIsKnown` says that
a running engine takes the bootstrap for completed when the checkpoint says so, step by step
from the origin that `ResolveOrigin` chose: with it no save of that engine can lose
the mark (`SavesTheMark`). `BoardSees` is `BoardIsWhole` carried through the time in which
the board still reads the log: what is to be replayed counts as seen. `BoardIsWhole` alone
is not inductive, as it says nothing while the board is being seeded.
`EngineMoves` and `JobMoves` are what all steps of an engine have in common.

`LegacyMigrationProofs` proves, for every set of users, calls, stores and task keys and any
number of crashes:

* `TypeCorrect`: `Spec => []TypeOK`.
* `NothingLegacyIsLost`: `Spec => []LegacyKept`.
* `OneInherits`: `Spec => []OnePartition`.
* `KeepsTheNewer`: `Spec => NeverSetBack`.

They rest on `MigrationAssumption`. *Argument.* `LegacyKept` is not inductive: that an item
may leave its old database depends on what the call that deletes it has stored. `KeptInv`
adds `CopiedFirst` (a database about to be deleted is gone already or has been copied, which
holds however calls overlap) and, for the task log, `FindsItsKeys`: as long as no calls
have overlapped, the one that goes on still finds the keys it has listed, and has stored
the one it is about to delete. `HalvesApart` keeps the two halves from taking each
other's items. `MarkedInv` is about the marker: a call that has found none, with no other
beside it, still finds none, and a client writes only once there is one. So no call that
stores can meet what a client wrote, and the legacy data are where the marker says or
with the call that is about to say so.

The leaves of all eight modules are small enough to be proved at a fifth of the provers'
usual time limits (`tlapm --stretch 0.2`), so a slower machine finds the same proofs.

## 6. Only model-checked, and not modelled

*Only model-checked.* Liveness and everything under fairness is out of the prover's
reach: `ReadableIsResolved`, `RetryPassEnds`, `StartReachesLive` and `DispatchSettles` are
TLC's. So is induction over data: the lemmas by which `TaskBoardProofs` reaches whole
logs argue by a least position instead.

*Abstracted.* Which queue entry is the eldest is any earlier one; the clock is a choice
of which parked facts have aged out; a checkpoint save lands in the step that issues it
unless it is the one that fails; an envelope's content is its id, its epoch and whether
it decodes; an envelope whose ingest rejects may be delivered again like any other; there is
one group, so one h-tag in the outbox bridge, and of another board only that it holds the
gates. `retry()` of the outbox has no caller in the program and is left out. In
`PublishOutbox` the accepted log takes an edit in the step that awaits it. In `TaskBoard` a snapshot has one
copy (the winner among several is only proved to be decided, by `TieBreakDecides`), the
bootstrap's event and `bootstrapCompleted` are written in one step, and the projection
that `dispatch` reads, that of the last render, is `shown`. In `DeviceSync` a commit is made on the
current tree or refused, so a stale epoch is a failed call and every member has the
same tree; `syncKnownKeyPackages` over several slots is one task per slot, which allows
more interleavings than the code's loop; `knownEvents` holds the latest version of a
slot only, as the code collapses it before use; the relay always has a KeyPackage event
for a slot, and a rotation succeeds or is lost with a reload.

In `EngineSession` a save is one attempt and a retry that may land at any later moment
(`Resave`), the raw log is not told apart from the accepted one when a start without a
checkpoint looks for either, what R3 resubmits has been consumed and is skipped, a page
reload is left to `ReceiveEngine`, and a mount with the origin of the group before it, which
needs an IndexedDB read to return before React has applied `setEngineOrigin(null)`, does not
occur. In `Identity` one forget runs at a time, `getPublicKey` does not fail once a remote
signer is ready, and the own leaf is always found (`leave()` is the same step here).

*Not modelled yet.* `reset()` of the engine, which has no caller, health reporting, clearing
of the outbox registry on an identity switch, records of gift wraps that do not decrypt, a
failed Welcome dismissed by the user, leaving a group from the group manager, the selected
group that localStorage remembers across users, and the next steps named in the plan. A
joiner is meant to leave invites to the creator (`device-sync.ts` 619-628), but the mark
that says so is written after the join, and its fallback compares with the KeyPackages that
a rotation replaces: `DeviceSync` reaches states where a joiner invites siblings and even
the creator again. No property covers this yet. That every Welcome is settled eventually is
not checked either; nor is anything about facts that a session has joined over, once they are
named: the code has no way back to them.

*Not modelled.* React rendering, relays and signers (pure I/O; their effects are inputs
of the models), the MLS library itself (third-party: modelled from how the adapter uses
it), end-to-end tests and tooling.
