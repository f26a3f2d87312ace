---------------------------- MODULE PublishOutbox ----------------------------
(***************************************************************************)
(* How a local edit leaves the device and is confirmed: dispatch() of      *)
(* src/src/store/task-store.tsx with its two readiness gates, the          *)
(* optimistic accept and the pending marks of react-engine-hooks.ts, the   *)
(* publish outbox (publish-outbox.ts), and the outbox bridge of            *)
(* marmot-adapter.ts, which learns the id of the envelope a send produced  *)
(* from what network.publish emits inside a window, and confirms an edit   *)
(* when that very envelope comes back from a relay.                        *)
(*                                                                         *)
(* pc[e] is the await the dispatch of edit e is suspended at; an action is *)
(* the code from there to the next await.  An edit stands for its rumorId, *)
(* and for the one envelope its send publishes (retry() has no caller).    *)
(*                                                                         *)
(* The model is of one group.  The provider outlives its board: leaving it *)
(* for another one stops this group's engine and disposes of its outbox,   *)
(* but the gates, the registry and the dispatches under way stay.          *)
(***************************************************************************)
EXTENDS Naturals, Sequences, FiniteSets, SequencesExt

CONSTANTS
  Edit,         \* the edits the user dispatches
  NoEnvelope,   \* sentEventId = null
  Commit,       \* a kind-445 the same client publishes that is no edit
  MaxEntries,   \* MAX_OUTBOX_ENTRIES_PER_GROUP
  MaxCommits,   \* bound: commits published by the client
  MaxTurns,     \* bound: outboxes rebuilt for a new group reference, boards left, page reloads
  MaxFailures   \* bound: local store operations that fail for good

ASSUME OutboxAssumption ==
  /\ IsFiniteSet(Edit) /\ NoEnvelope \notin Edit /\ Commit \notin Edit /\ Commit # NoEnvelope
  /\ MaxEntries \in Nat \ {0}
  /\ MaxCommits \in Nat /\ MaxTurns \in Nat /\ MaxFailures \in Nat

\* OutboxEntry: what the reconciliation depends on.
Entry == [status : {"pending", "sent", "reconciled", "failed"},
          sentEventId : Edit \union {Commit, NoEnvelope}]

\* Mutant: sentEventId starts undefined.
NewEntryUndefined == [status |-> "pending", sentEventId |-> "undefined"]

NewEntry == [status |-> "pending", sentEventId |-> NoEnvelope]

PC == {"new", "localGate", "accepting", "acceptingLeft", "outboxGate", "notifying",
       "notifyingLeft", "lock", "sending", "done", "lost"}

VARIABLES
  accepted,     \* edits in the accepted log (durable)
  gaveUp,       \* edits whose accepted-log write was given up and reported
  unheard,      \* edits whose dispatchLocal reached no running engine of this group
  stored,       \* the outbox array in IndexedDB (durable)
  published     \* edits whose envelope reached network.publish

VARIABLES
  bridge,       \* what dispatchLocalGateRef holds: "none", the dispatchLocal of the
                \* "mounted" bridge, or a "stale" one: of a bridge gone, or of another board
  outbox,       \* "none", "loading" until loadPersisted settles, or "ready"
  entries,      \* outboxEntries, the in-memory registry
  pending,      \* the rumorIds the hook marks as not yet confirmed
  createdAt,    \* order of the dispatches
  pc, lock      \* per dispatch: its await; the per-group publish lock

VARIABLES
  inFlight, count, firstEventId, expected  \* the attribution window

VARIABLES
  disk,         \* transactions issued on the outbox store, in order
  loads         \* results of reads, not yet back in loadPersisted

VARIABLES
  evicted,      \* edits the in-memory cap dropped in this session
  astray,       \* edits of which an older copy, or none, was loaded or stored
  commits, turns, failures

durable == <<accepted, gaveUp, unheard, stored, published>>
session == <<bridge, outbox, entries, pending, createdAt, pc, lock>>
window  == <<inFlight, count, firstEventId, expected>>
io      == <<disk, loads>>
history == <<evicted, astray>>
budget  == <<commits, turns, failures>>
vars    == <<durable, session, window, io, history, budget>>

----------------------------------------------------------------------------
(* The registry and the durable array. *)

Tracked == DOMAIN entries

\* f with e mapped to x.
With(f, e, x) == [d \in DOMAIN f \union {e} |-> IF d = e THEN x ELSE f[d]]

Keep(f, S) == [d \in DOMAIN f \intersect S |-> f[d]]

\* What the cap leaves of f: the entries dispatched last.
Newest(f) ==
  {e \in DOMAIN f : Cardinality({d \in DOMAIN f : createdAt[d] > createdAt[e]}) < MaxEntries}

Await(e, at) == pc' = [pc EXCEPT ![e] = at]

Put(e, x) == [op |-> "put", edit |-> e, entry |-> x]
Get == [op |-> "get"]

\* The hooks through which the registry reports are those of an outbox.
Hooked == outbox # "none"

\* Mutant: an entry that has a write queued is not written again.
PersistOnce(e, x) ==
  /\ disk' = IF \/ ~Hooked
                \/ \E i \in DOMAIN disk : disk[i].op = "put" /\ disk[i].edit = e
             THEN disk ELSE Append(disk, Put(e, x))
  /\ astray' = IF Hooked THEN astray ELSE astray \union {e}

\* The writes of e that a transaction issued now would follow, no read between.
QueuedWrites(e) ==
  {i \in DOMAIN disk : /\ disk[i].op = "put" /\ disk[i].edit = e
                       /\ \A j \in i .. Len(disk) : disk[j] # Get}

\* notifyOutboxPersist: persistEntry snapshots the entry when its transaction
\* runs, so one still queued behind the last read writes the newer state.  With
\* no hook registered nothing is written.
Persist(e, x) ==
  /\ disk' = IF ~Hooked THEN disk
             ELSE IF QueuedWrites(e) = {} THEN Append(disk, Put(e, x))
             ELSE [i \in DOMAIN disk |-> IF i \in QueuedWrites(e) THEN Put(e, x) ELSE disk[i]]
  /\ astray' = IF Hooked THEN astray ELSE astray \union {e}

\* Mutant: an eviction is not reported to the pending marks.
EnforceCapSilently(f, marks) ==
  /\ entries' = Keep(f, Newest(f))
  /\ evicted' = evicted \union (DOMAIN f \ Newest(f))
  /\ pending' = marks

\* enforceOutboxCap over the new registry f, the marks being as given: an
\* evicted entry can no longer be reconciled, so its mark is cleared.
EnforceCap(f, marks) ==
  /\ entries' = Keep(f, Newest(f))
  /\ evicted' = evicted \union (DOMAIN f \ Newest(f))
  /\ pending' = marks \ (DOMAIN f \ Newest(f))

\* markOutboxSent and its fallback: only a pending entry is sent.
Sent(f, e, v) ==
  IF e \in DOMAIN f /\ f[e].status = "pending"
  THEN With(f, e, [status |-> "sent", sentEventId |-> v]) ELSE f

GiveUp == failures < MaxFailures /\ failures' = failures + 1

Turn == turns < MaxTurns /\ turns' = turns + 1

----------------------------------------------------------------------------
(* dispatch() up to the send. *)

\* Mutant: dispatch does not wait for dispatchLocal (S12-Fable-1, window B).
LocalGateUnawaited == TRUE

\* The gate is armed once a bridge has forwarded dispatchLocal, and never disarmed:
\* not when that bridge unmounts, nor when another board takes the provider over.
LocalGate == bridge # "none"

Dispatch(e) ==
  /\ pc[e] = "new"
  /\ createdAt' = [createdAt EXCEPT ![e] = Cardinality({d \in Edit : createdAt[d] # 0}) + 1]
  /\ Await(e, "localGate")
  /\ UNCHANGED <<durable, bridge, outbox, entries, pending, lock, window, io, history, budget>>

\* The dispatchLocal of a bridge that is gone returns at once; another board's
\* accepts the edit into another group.
DispatchLocal(e) ==
  /\ pc[e] = "localGate" /\ LocalGate
  /\ Await(e, IF bridge = "mounted" THEN "accepting" ELSE "outboxGate")
  /\ unheard' = IF bridge = "stale" THEN unheard \union {e} ELSE unheard
  /\ UNCHANGED <<accepted, gaveUp, stored, published, bridge, outbox, entries, pending,
                 createdAt, lock, window, io, history, budget>>

\* acceptLocal: an edit accepted before is left alone; a write given up is
\* reported by the engine, and the promise resolves all the same.
EngineAccepts(e) ==
  \/ accepted' = accepted \union {e} /\ UNCHANGED <<gaveUp, failures>>
  \/ e \notin accepted /\ GiveUp /\ gaveUp' = gaveUp \union {e} /\ UNCHANGED accepted

\* dispatchLocal returns: the edit is marked pending whatever became of it.
AcceptLocal(e) ==
  /\ pc[e] = "accepting"
  /\ EngineAccepts(e)
  /\ pending' = pending \union {e}
  /\ Await(e, "outboxGate")
  /\ UNCHANGED <<unheard, stored, published, bridge, outbox, entries, createdAt, lock, window,
                 io, history, commits, turns>>

\* The FIFO of an engine stopped meanwhile still runs the job; a write it gives
\* up is reported to nobody, and the mark goes to a hook that is gone.
AcceptLeft(e) ==
  /\ pc[e] = "acceptingLeft"
  /\ \/ accepted' = accepted \union {e} /\ UNCHANGED <<unheard, failures>>
     \/ e \notin accepted /\ GiveUp /\ unheard' = unheard \union {e} /\ UNCHANGED accepted
  /\ Await(e, "outboxGate")
  /\ UNCHANGED <<gaveUp, stored, published, bridge, outbox, entries, pending, createdAt, lock,
                 window, io, history, commits, turns>>

\* publish(): its own onLocalAccept repeats the accept.
Publish(e) ==
  /\ pc[e] = "outboxGate" /\ outbox = "ready"
  /\ Await(e, IF bridge = "mounted" THEN "notifying" ELSE "notifyingLeft")
  /\ UNCHANGED <<durable, bridge, outbox, entries, pending, createdAt, lock, window, io,
                 history, budget>>

\* The board has been left: the outbox that becomes ready is another group's.
CarriedOff(e) ==
  /\ pc[e] = "outboxGate" /\ outbox = "none" /\ bridge = "stale"
  /\ Await(e, "lost")
  /\ UNCHANGED <<durable, bridge, outbox, entries, pending, createdAt, lock, window, io,
                 history, budget>>

\* registerOutboxEntry with the marks as given, and the attempt takes its place
\* in the publish lock.
Enter(e, marks) ==
  /\ EnforceCap(With(entries, e, NewEntry), marks)
  /\ Persist(e, NewEntry)
  /\ lock' = Append(lock, e)
  /\ Await(e, "lock")

Register(e) ==
  /\ pc[e] = "notifying"
  /\ EngineAccepts(e) /\ unheard' = unheard \ {e}
  /\ Enter(e, pending \union {e})
  /\ UNCHANGED <<stored, published, bridge, outbox, createdAt, window, loads, commits, turns>>

\* onLocalAccept reached a bridge that was gone or has gone since: its engine can
\* have accepted now what it gave up before, and nothing is marked.
RegisterLeft(e) ==
  /\ pc[e] = "notifyingLeft"
  /\ accepted' \in {accepted, accepted \union ({e} \intersect gaveUp)}
  /\ Enter(e, pending)
  /\ UNCHANGED <<gaveUp, unheard, stored, published, bridge, outbox, createdAt, window, loads,
                 budget>>

----------------------------------------------------------------------------
(* doAttemptSend and the attribution window. *)

\* Its turn in withPublishLock: markOutboxAttemptStarted, beginOutboxPublishWindow.
StartAttempt(e) ==
  /\ pc[e] = "lock" /\ Head(lock) = e
  /\ IF e \in Tracked THEN Persist(e, entries[e]) ELSE UNCHANGED <<disk, astray>>
  /\ inFlight' = inFlight + 1
  /\ expected' = Append(expected, e)
  /\ Await(e, "sending")
  /\ UNCHANGED <<durable, bridge, outbox, entries, pending, createdAt, lock, count,
                 firstEventId, loads, evicted, budget>>

\* The wrapped network.publish sees a kind-445 while a window is open.
Observe(v) ==
  /\ count' = count + 1
  /\ firstEventId' = IF count = 0 THEN v ELSE firstEventId

\* sendApplicationRumor reaches network.publish.
NetworkPublish(e) ==
  /\ pc[e] = "sending" /\ e \notin published
  /\ Observe(e)
  /\ published' = published \union {e}
  /\ UNCHANGED <<accepted, gaveUp, unheard, stored, session, inFlight, expected, io, history,
                 budget>>

\* A commit of the same client (auto-invite, leaf removal) falls in the window.
PublishCommit ==
  /\ inFlight > 0 /\ commits < MaxCommits
  /\ Observe(Commit)
  /\ commits' = commits + 1
  /\ UNCHANGED <<durable, session, inFlight, expected, io, history, turns, failures>>

\* Mutant: an ambiguous window is attributed all the same.
AttributedAmbiguously(queue) ==
  IF inFlight = 1 /\ queue # <<>> /\ count > 0
  THEN Sent(entries, Head(queue), firstEventId) ELSE entries

\* The registry after endOutboxPublishWindow: the outermost window, if exactly
\* one kind-445 was seen in it, attributes that one to the front of the FIFO.
Attributed(queue) ==
  IF inFlight = 1 /\ queue # <<>> /\ count = 1
  THEN Sent(entries, Head(queue), firstEventId) ELSE entries

CloseWindow(queue) ==
  /\ inFlight' = inFlight - 1
  /\ IF inFlight > 1 THEN expected' = queue /\ UNCHANGED <<count, firstEventId>>
     ELSE /\ expected' = IF queue = <<>> THEN <<>> ELSE Tail(queue)
          /\ count' = 0 /\ firstEventId' = NoEnvelope

\* Mutant: the publish lock is not released.
SettleHoldingLock(e) == UNCHANGED lock /\ Await(e, "done")

\* The attempt is over: the lock passes on.
Settle(e) ==
  /\ lock' = Tail(lock)
  /\ Await(e, "done")

\* sendApplicationRumor resolves: some relay has acknowledged the envelope.
SendResolves(e) ==
  /\ pc[e] = "sending" /\ e \in published
  /\ CloseWindow(expected)
  /\ LET f == Attributed(expected) IN
     IF e \in DOMAIN f
     THEN entries' = Sent(f, e, f[e].sentEventId) /\ Persist(e, entries'[e])
     ELSE entries' = f /\ UNCHANGED <<disk, astray>>
  /\ Settle(e)
  /\ UNCHANGED <<durable, bridge, outbox, pending, createdAt, loads, evicted, budget>>

\* sendApplicationRumor throws, before or after it reached network.publish: the
\* expectation is dropped, then the window closed and the entry marked failed.
SendThrows(e) ==
  /\ pc[e] = "sending"
  /\ LET queue == RemoveFirst(expected, e)
         f == Attributed(queue)
     IN /\ CloseWindow(queue)
        /\ IF e \in DOMAIN f
           THEN /\ entries' = With(f, e, [f[e] EXCEPT !.status = "failed"])
                /\ Persist(e, entries'[e])
                /\ pending' = pending \ {e}
           ELSE entries' = f /\ UNCHANGED <<disk, astray, pending>>
  /\ Settle(e)
  /\ UNCHANGED <<durable, bridge, outbox, createdAt, loads, evicted, budget>>

\* An envelope of ours comes back and is skipped: reconcileOwnEcho, which does
\* nothing where no entry has its id.
Echo(v) ==
  /\ bridge = "mounted" /\ v \in published
  /\ \E e \in Tracked :
       /\ entries[e].sentEventId = v /\ entries[e].status # "reconciled"
       /\ Persist(e, [entries[e] EXCEPT !.status = "reconciled"])
       /\ entries' = Keep(entries, Tracked \ {e})
       /\ pending' = pending \ {e}
  /\ UNCHANGED <<durable, bridge, outbox, createdAt, pc, lock, window, loads, evicted, budget>>

----------------------------------------------------------------------------
(* The outbox store and the life of an outbox. *)

\* A queued persistEntry runs: upsert, then the cap on the durable array.  If
\* it fails nobody notices.
StorePut ==
  /\ disk # <<>> /\ Head(disk).op = "put"
  /\ disk' = Tail(disk)
  /\ LET p == Head(disk)
         f == With(stored, p.edit, p.entry)
     IN \/ stored' = Keep(f, Newest(f)) /\ UNCHANGED <<astray, failures>>
        \/ GiveUp /\ astray' = astray \union {p.edit} /\ UNCHANGED stored
  /\ UNCHANGED <<accepted, gaveUp, unheard, published, session, window, loads, evicted, commits, turns>>

\* The read of a loadPersisted runs; its result is on the way back.
StoreGet ==
  /\ disk # <<>> /\ Head(disk) = Get
  /\ disk' = Tail(disk)
  /\ loads' = Append(loads, stored)
  /\ UNCHANGED <<durable, session, window, history, budget>>

\* Only the outbox that is still current opens the gate when it has settled.
OpensGate == Hooked /\ Len(loads) = 1 /\ \A i \in DOMAIN disk : disk[i] # Get

\* The copy read is older than a write issued since.
Overtaken(copy) ==
  {e \in DOMAIN copy : \/ \E i \in DOMAIN disk : disk[i].op = "put" /\ disk[i].edit = e
                       \/ e \in DOMAIN stored /\ stored[e] # copy[e]}

\* loadPersisted settles: rehydrateOutboxEntries overwrites what is in memory.
Rehydrate ==
  /\ loads # <<>>
  /\ loads' = Tail(loads)
  /\ outbox' = IF OpensGate THEN "ready" ELSE outbox
  /\ LET copy == Head(loads) IN
     \/ /\ EnforceCap([e \in Tracked \union DOMAIN copy |->
                          IF e \in DOMAIN copy THEN copy[e] ELSE entries[e]], pending)
        /\ astray' = astray \union Overtaken(copy)
        /\ UNCHANGED failures
     \/ /\ GiveUp /\ astray' = astray \union DOMAIN copy
        /\ UNCHANGED <<entries, evicted, pending>>
  /\ UNCHANGED <<durable, bridge, createdAt, pc, lock, window, disk, commits, turns>>

\* The effect that owns the outbox runs: first with the group, and again, after
\* its cleanup, whenever the group reference changes.
CreateOutbox ==
  /\ IF Hooked THEN Turn ELSE UNCHANGED turns
  /\ outbox' = "loading"
  /\ disk' = Append(disk, Get)
  /\ UNCHANGED <<durable, bridge, entries, pending, createdAt, pc, lock, window, loads, history,
                 commits, failures>>

\* The engine's origin is resolved and its bridge has reported.
MountBridge ==
  /\ bridge # "mounted" /\ outbox # "none" /\ bridge' = "mounted"
  /\ UNCHANGED <<durable, outbox, entries, pending, createdAt, pc, lock, window, io, history,
                 budget>>

\* The board is left: the outbox is disposed of, the bridge unmounts and its
\* marks go with it; what a dispatch awaits of the engine comes from a stopped one.
LeaveBoard ==
  /\ Hooked /\ Turn
  /\ outbox' = "none" /\ pending' = {}
  /\ UNCHANGED <<durable, entries, createdAt, lock, window, io, history, commits, failures>>

\* For another board of the same provider, which is not keyed by its group.
SwitchBoard ==
  /\ LeaveBoard
  /\ bridge' = "stale"
  /\ pc' = [e \in Edit |-> CASE pc[e] = "accepting" -> "acceptingLeft"
                             [] pc[e] = "notifying" -> "notifyingLeft"
                             [] OTHER -> pc[e]]

\* For none: the provider unmounts, and what waits for one of its gates is
\* released with nothing to call, or waits for good.
CloseBoard ==
  /\ LeaveBoard
  /\ bridge' = "none"
  /\ pc' = [e \in Edit |->
              CASE pc[e] \in {"localGate", "accepting", "acceptingLeft", "outboxGate"} -> "lost"
                [] pc[e] = "notifying" -> "notifyingLeft"
                [] OTHER -> pc[e]]

\* The page is reloaded: only the stores and the relay remember.
Reload ==
  /\ Turn
  /\ bridge' = "none" /\ outbox' = "none" /\ entries' = <<>> /\ pending' = {}
  /\ pc' = [e \in Edit |-> IF pc[e] \in {"new", "done"} THEN pc[e] ELSE "lost"]
  /\ lock' = <<>> /\ inFlight' = 0 /\ count' = 0 /\ firstEventId' = NoEnvelope
  /\ expected' = <<>> /\ disk' = <<>> /\ loads' = <<>>
  /\ evicted' = {} /\ astray' = {}
  /\ UNCHANGED <<durable, createdAt, commits, failures>>

----------------------------------------------------------------------------

Init ==
  /\ accepted = {} /\ gaveUp = {} /\ unheard = {} /\ stored = <<>> /\ published = {}
  /\ bridge = "none" /\ outbox = "none" /\ entries = <<>> /\ pending = {}
  /\ createdAt = [e \in Edit |-> 0] /\ pc = [e \in Edit |-> "new"] /\ lock = <<>>
  /\ inFlight = 0 /\ count = 0 /\ firstEventId = NoEnvelope /\ expected = <<>>
  /\ disk = <<>> /\ loads = <<>>
  /\ evicted = {} /\ astray = {}
  /\ commits = 0 /\ turns = 0 /\ failures = 0

\* What the dispatch of e does next.
Advance(e) ==
  \/ DispatchLocal(e) \/ AcceptLocal(e) \/ AcceptLeft(e) \/ Publish(e) \/ CarriedOff(e)
  \/ Register(e) \/ RegisterLeft(e) \/ StartAttempt(e)

\* network.publish gives each relay ten seconds, so a send always settles.
Send(e) == NetworkPublish(e) \/ SendResolves(e) \/ SendThrows(e)

Next ==
  \/ \E e \in Edit : Dispatch(e) \/ Advance(e) \/ Send(e) \/ Echo(e)
  \/ PublishCommit \/ MountBridge \/ CreateOutbox \/ StorePut \/ StoreGet \/ Rehydrate
  \/ SwitchBoard \/ CloseBoard \/ Reload

Spec == Init /\ [][Next]_vars

\* A page that has loaded, or a provider that has mounted, opens its board.
Opens == outbox = "none" /\ bridge = "none"

\* The event loop resumes what has resolved and transactions run; nothing is
\* assumed of relays handing an envelope back, of reloads, or of the user, who
\* need not return to a board left.
FairSpec ==
  /\ Spec
  /\ WF_vars(MountBridge) /\ WF_vars(Opens /\ CreateOutbox)
  /\ WF_vars(StorePut) /\ WF_vars(StoreGet) /\ WF_vars(Rehydrate)
  /\ \A e \in Edit : WF_vars(Advance(e)) /\ WF_vars(Send(e))

----------------------------------------------------------------------------
(* Properties. *)

\* Every variable has its type; the window is open for sends only.
TypeOK ==
  /\ accepted \subseteq Edit /\ gaveUp \subseteq Edit /\ unheard \subseteq Edit
  /\ published \subseteq Edit
  /\ DOMAIN stored \subseteq Edit /\ \A e \in DOMAIN stored : stored[e] \in Entry
  /\ bridge \in {"none", "mounted", "stale"} /\ outbox \in {"none", "loading", "ready"}
  /\ Tracked \subseteq Edit /\ \A e \in Tracked : entries[e] \in Entry
  /\ pending \subseteq Edit /\ createdAt \in [Edit -> Nat]
  /\ pc \in [Edit -> PC] /\ lock \in Seq(Edit)
  /\ inFlight \in Nat /\ count \in Nat /\ firstEventId \in Edit \union {Commit, NoEnvelope}
  /\ expected \in Seq(Edit)
  /\ \A i \in DOMAIN disk :
       disk[i] = Get \/ disk[i] \in [op : {"put"}, edit : Edit, entry : Entry]
  /\ \A i \in DOMAIN loads :
       DOMAIN loads[i] \subseteq Edit /\ \A e \in DOMAIN loads[i] : loads[i][e] \in Entry
  /\ evicted \subseteq Edit /\ astray \subseteq Edit
  /\ commits \in Nat /\ turns \in Nat /\ failures \in Nat

\* marmot-adapter.ts:335-342: commits may fall in a window, sends may fail in
\* it, and outboxes be replaced around it, but an entry is never attributed an
\* envelope that is not its own, in memory or in the store.
AttributionIsRight ==
  \A f \in {entries, stored} \union {loads[i] : i \in DOMAIN loads} :
    \A e \in DOMAIN f : f[e].sentEventId \in {e, NoEnvelope}

\* MLS never hands an author its own message back, so an edit the author is to
\* see must be accepted before it leaves: whatever order the two readiness gates
\* open in, and whichever board they were armed for, an envelope on the network is
\* in the accepted log, unless that write was given up and reported, or no running
\* engine of the group was ever asked: the board had been left for another and its
\* bridge not yet mounted again, when dispatchLocalGateRef, which task-store.tsx:317-322
\* says is reset, still holds the dispatchLocal of another bridge.
SentIsAccepted == published \subseteq accepted \union gaveUp \union unheard

\* react-engine-hooks.ts:170-181: once a dispatch is over, its edit is marked
\* pending only while the registry holds an entry that can still be resolved; no
\* eviction, failure, echo or rehydration leaves a mark nothing will clear.
PendingIsTracked ==
  \A e \in pending : pc[e] = "done" =>
    e \in Tracked /\ entries[e].status \in {"pending", "sent"}

\* No transaction is queued and the outbox of the session has loaded.
Settled == disk = <<>> /\ loads = <<>> /\ outbox = "ready"

\* AC-PUB-1: what the registry tracks is what a restart would restore, and what
\* is stored as unresolved is tracked, so its echo confirms it before or after a
\* restart; except an entry the cap dropped, and one astray: a failed transaction
\* a load that a newer write overtook, or a change made with no outbox to write it.
RegistryMatchesStore ==
  Settled =>
    /\ \A e \in (Tracked \intersect DOMAIN stored) \ astray : entries[e] = stored[e]
    /\ \A e \in DOMAIN stored \ (astray \union evicted) :
         stored[e].status \in {"pending", "sent"} => e \in Tracked

\* A dispatched edit passes both gates, the engine's FIFO and the publish lock:
\* its send settles unless the page is reloaded or the board left first.
DispatchSettles == \A e \in Edit : (pc[e] = "localGate") ~> (pc[e] \in {"done", "lost"})

=============================================================================
