------------------------------ MODULE TaskBoard ------------------------------
(***************************************************************************)
(* What the devices of a group show: the task projector with its shared    *)
(* tie-break (src/src/domain), the seed-then-fold of react-engine-hooks.ts *)
(* around the accepted log, the timestamps task-store.tsx gives to edits,  *)
(* and the kind-30078 snapshot a new member starts from (device-sync.ts,   *)
(* fetchBootstrap of marmot-adapter.ts).                                   *)
(*                                                                         *)
(* The projector never relates two tasks, so one task stands for all.      *)
(* Edits reach every device in one total order, bus, the strictest         *)
(* delivery the design assumes; a device reads the bus from where it       *)
(* joined, and has its own edits in its log before they are sent.          *)
(***************************************************************************)
EXTENDS Naturals, Sequences, FiniteSets, SequencesExt

CONSTANTS
  Device,       \* the members' devices
  Founder,      \* the device that creates the group and invites the others
  Author,       \* updatedBy: the rank of the device's pubkey
  Client,       \* updatedByDevice: the rank of the device's MLS clientId
  Mutation,     \* the mutation types users dispatch
  NoTask,       \* the task is not on the board
  NoEvent,      \* no emission pending
  MaxEdits,     \* bound: edits dispatched
  Clock,        \* bound: readings of the devices' clocks, in seconds
  MaxFaults     \* bound: page reloads, and loads of the accepted log that fail

Kind == {"task.updated", "task.status_changed", "task.assigned", "task.deleted"}

ASSUME BoardAssumption ==
  /\ IsFiniteSet(Device) /\ Founder \in Device
  /\ Author \in [Device -> Nat] /\ Client \in [Device -> Nat]
  /\ \A c, d \in Device : Client[c] = Client[d] => c = d
  /\ Mutation \subseteq Kind
  /\ MaxEdits \in Nat /\ Clock \subseteq Nat /\ MaxFaults \in Nat

\* TieBreakFields, and a Task: of each field, the edit that wrote it.
Key  == [at : Nat, by : Nat, dev : Nat]
Task == [wrote : [Kind \ {"task.deleted"} -> Nat], key : Key]

\* AcceptedDomainEvent; 0 is the id that the bootstrap path derives.
BootstrapId == 0
Event == [id : Nat, kind : {"task.created"}, task : Task] \union [id : Nat, kind : Kind, key : Key]

ASSUME NoneAssumption == NoTask \notin Task /\ NoEvent \notin Event

Phase == {"absent", "unmounted", "loading", "loaded", "joining", "live"}

VARIABLES
  bus,          \* the edits published to the group, in MLS order
  edits,        \* every edit dispatched; its position is its id
  snapshot,     \* the kind-30078 payload on the relay
  invite        \* of each device: "none", "invited", or "synced"

VARIABLES
  log,          \* accepted log (durable)
  read,         \* what the device has read of the bus (durable)
  bootstrapped  \* bootstrapCompleted (durable)

VARIABLES
  phase, shown, \* the hook and the engine behind it; its projection
  since,        \* eventsSinceRebuildStart
  copy,         \* the log as loadAcceptedEvents read it
  emitting,     \* appended and not yet emitted
  queue,        \* edits that await acceptLocal
  unsent        \* edits accepted and not yet sent

VARIABLES
  late,         \* the bootstrap was folded after events it precedes in the log
  unseeded,     \* the seeding load failed in this session
  hasty,        \* an edit was dispatched before those before it were folded
  covers,       \* the edits that a device's snapshot stands for
  faults

group   == <<bus, edits, snapshot, invite>>
durable == <<log, read, bootstrapped>>
session == <<phase, shown, since, copy, emitting, queue, unsent>>
history == <<late, unseeded, hasty, covers, faults>>
vars    == <<group, durable, session, history>>

----------------------------------------------------------------------------
(* The projector. *)

\* Mutant: the third level of the tie-break is missing.
WinsOverByAuthor(k, x) ==
  IF k.at # x.at THEN k.at > x.at ELSE k.by < x.by

\* taskWinsOver.
WinsOver(k, x) ==
  IF k.at # x.at THEN k.at > x.at
  ELSE IF k.by # x.by THEN k.by < x.by ELSE k.dev < x.dev

\* applyEvent: a create is first-write-wins, a mutation of a task that is not
\* there or that loses the tie-break does nothing.
ApplyEvent(x, e) ==
  IF e.kind = "task.created" THEN IF x = NoTask THEN e.task ELSE x
  ELSE IF x = NoTask \/ ~WinsOver(e.key, x.key) THEN x
  ELSE IF e.kind = "task.deleted" THEN NoTask
  ELSE [wrote |-> [x.wrote EXCEPT ![e.kind] = e.id], key |-> e.key]

\* The fold of a list of events, which skips those with an id in seen.
Folded(seen, x, events) ==
  FoldLeft(LAMBDA y, e : IF e.id \in seen THEN y ELSE ApplyEvent(y, e), x, events)

\* buildProjection of the log in replayOrder: the bootstrap events first.
Replayed(events) ==
  Folded({BootstrapId}, Folded(Nat \ {BootstrapId}, NoTask, events), events)

Ids(events) == {events[i].id : i \in DOMAIN events}

----------------------------------------------------------------------------
(* An edit, from dispatch to the bus. *)

Mounted(d) == phase[d] \in {"loading", "loaded", "joining", "live"}

\* Mutant: an edit of the same second keeps its timestamp.
MonotonicWithinSecond(now, x) == IF now < x.key.at THEN x.key.at + 1 ELSE now

\* ensureMonotonicTimestamp for a mutation of the task as projected.
EnsureMonotonic(now, x) == IF now <= x.key.at THEN x.key.at + 1 ELSE now

\* Mutant: the device is not stamped on the edit.
KeyAtUnstamped(d, at) == [at |-> at, by |-> Author[d]]

KeyAt(d, at) == [at |-> at, by |-> Author[d], dev |-> Client[d]]

\* createTask: every field is written by the create itself.
CreateEvent(id, k) ==
  [id |-> id, kind |-> "task.created",
   task |-> [wrote |-> [m \in Kind \ {"task.deleted"} |-> id], key |-> k]]

\* dispatch stamps the edit, and waits for acceptLocal's turn.
Enqueue(d, e) ==
  /\ edits' = Append(edits, e)
  /\ queue' = [queue EXCEPT ![d] = Append(@, e)]
  /\ hasty' = (hasty \/ queue[d] # <<>> \/ emitting[d] # NoEvent \/ unseeded[d])
  /\ UNCHANGED <<bus, snapshot, invite, durable, phase, shown, since, copy, emitting, unsent,
                 late, unseeded, covers, faults>>

\* Task ids are UUIDs, so the task is created once.
DispatchCreate(d) ==
  /\ Mounted(d) /\ edits = <<>> /\ MaxEdits > 0
  /\ \E now \in Clock : Enqueue(d, CreateEvent(1, KeyAt(d, now)))

\* The user edits the task as shown.
DispatchMutation(d) ==
  /\ Mounted(d) /\ shown[d] # NoTask /\ Len(edits) < MaxEdits
  /\ \E now \in Clock, m \in Mutation :
       Enqueue(d, [id |-> Len(edits) + 1, kind |-> m,
                   key |-> KeyAt(d, EnsureMonotonic(now, shown[d]))])

\* The engine appends to the accepted log, and emits when the write returns.
Accept(d, e) ==
  /\ emitting[d] = NoEvent
  /\ log' = [log EXCEPT ![d] = Append(@, e)]
  /\ emitting' = [emitting EXCEPT ![d] = e]

AcceptLocal(d) ==
  /\ Mounted(d) /\ queue[d] # <<>>
  /\ Accept(d, Head(queue[d]))
  /\ queue' = [queue EXCEPT ![d] = Tail(@)]
  /\ unsent' = [unsent EXCEPT ![d] = Append(@, Head(queue[d]))]
  /\ UNCHANGED <<group, read, bootstrapped, phase, shown, since, copy, history>>

\* dispatchLocal has returned; the outbox sends in order of acceptance.
Send(d) ==
  /\ unsent[d] # <<>>
  /\ Head(unsent[d]) # emitting[d]
  /\ bus' = Append(bus, Head(unsent[d]))
  /\ unsent' = [unsent EXCEPT ![d] = Tail(@)]
  /\ UNCHANGED <<edits, snapshot, invite, durable, phase, shown, since, copy, emitting, queue,
                 history>>

----------------------------------------------------------------------------
(* What a device receives. *)

\* The next edit on the bus; one already in the log is known by its id.
Deliver(d) ==
  /\ phase[d] = "live" /\ read[d] < Len(bus)
  /\ read' = [read EXCEPT ![d] = @ + 1]
  /\ LET e == bus[read[d] + 1] IN
     IF e.id \in Ids(log[d]) THEN emitting[d] = NoEvent /\ UNCHANGED <<log, emitting>>
     ELSE Accept(d, e)
  /\ UNCHANGED <<group, bootstrapped, phase, shown, since, copy, queue, unsent, history>>

\* inviteByKeyPackageEvent: the invited device reads what is sent from now on.
Invite(d) ==
  /\ phase[Founder] = "live" /\ invite[d] = "none" /\ d # Founder
  /\ invite' = [invite EXCEPT ![d] = "invited"]
  /\ phase' = [phase EXCEPT ![d] = "unmounted"]
  /\ read' = [read EXCEPT ![d] = Len(bus)]
  /\ UNCHANGED <<bus, edits, snapshot, log, bootstrapped, shown, since, copy, emitting, queue,
                 unsent, history>>

\* publishTaskStateSync, not awaited by the invite: the task as the founder's
\* accepted log has it by then.
PublishSnapshot(d) ==
  /\ invite[d] = "invited"
  /\ invite' = [invite EXCEPT ![d] = "synced"]
  /\ snapshot' = [snapshot EXCEPT ![d] = Replayed(log[Founder])]
  /\ covers' = [covers EXCEPT ![d] = Ids(log[Founder])]
  /\ UNCHANGED <<bus, edits, durable, session, late, unseeded, hasty, faults>>

\* runBootstrapFetch resolves, with what the relay holds; after T_join the
\* engine has gone live already.
ResolveBootstrap(d) ==
  /\ phase[d] \in {"joining", "live"} /\ ~bootstrapped[d]
  /\ bootstrapped' = [bootstrapped EXCEPT ![d] = TRUE]
  /\ phase' = [phase EXCEPT ![d] = "live"]
  /\ IF snapshot[d] = NoTask \/ BootstrapId \in Ids(log[d])
     THEN emitting[d] = NoEvent /\ UNCHANGED <<log, emitting, late>>
     ELSE /\ Accept(d, [id |-> BootstrapId, kind |-> "task.created", task |-> snapshot[d]])
          /\ late' = [late EXCEPT ![d] = @ \/ log[d] # <<>>]
  /\ UNCHANGED <<group, read, shown, since, copy, queue, unsent, unseeded, hasty, covers,
                 faults>>

\* T_join fires first: on to catching_up, the fetch goes on.
JoinTimeout(d) ==
  /\ phase[d] = "joining"
  /\ phase' = [phase EXCEPT ![d] = "live"]
  /\ UNCHANGED <<group, durable, shown, since, copy, emitting, queue, unsent, history>>

----------------------------------------------------------------------------
(* The hook. *)

\* foldAccepted: into the projection, and for a rebuild in flight to replay.
Emit(d) ==
  /\ emitting[d] # NoEvent
  /\ shown' = [shown EXCEPT ![d] = ApplyEvent(@, emitting[d])]
  /\ since' = IF phase[d] \in {"loading", "loaded"}
              THEN [since EXCEPT ![d] = Append(@, emitting[d])] ELSE since
  /\ emitting' = [emitting EXCEPT ![d] = NoEvent]
  /\ UNCHANGED <<group, durable, phase, copy, queue, unsent, history>>

\* The effect subscribes to a new engine and boot() starts the rebuild.
Mount(d) ==
  /\ phase[d] = "unmounted"
  /\ phase' = [phase EXCEPT ![d] = "loading"]
  /\ UNCHANGED <<group, durable, shown, since, copy, emitting, queue, unsent, history>>

\* loadAcceptedEvents reads the log; its result is on the way back.
LoadLog(d) ==
  /\ phase[d] = "loading"
  /\ phase' = [phase EXCEPT ![d] = "loaded"]
  /\ copy' = [copy EXCEPT ![d] = log[d]]
  /\ UNCHANGED <<group, durable, shown, since, emitting, queue, unsent, history>>

\* boot() goes on to engine.start().
StartEngine(d) ==
  /\ phase' = [phase EXCEPT ![d] = IF bootstrapped[d] THEN "live" ELSE "joining"]
  /\ since' = [since EXCEPT ![d] = <<>>]
  /\ copy' = [copy EXCEPT ![d] = <<>>]

\* Mutant: what was emitted during the load is not replayed on top of it.
RebuiltWithoutReplay(d) == Replayed(copy[d])

\* What the rebuild commits: the log as read, and what was emitted meanwhile.
Rebuilt(d) == Folded(Ids(copy[d]), Replayed(copy[d]), since[d])

Rebuild(d) ==
  /\ phase[d] = "loaded"
  /\ shown' = [shown EXCEPT ![d] = Rebuilt(d)]
  /\ StartEngine(d)
  /\ UNCHANGED <<group, durable, emitting, queue, unsent, history>>

\* The load rejects: the projection is left as it is and the engine started.
LoadFails(d) ==
  /\ phase[d] = "loading" /\ faults < MaxFaults
  /\ faults' = faults + 1
  /\ unseeded' = [unseeded EXCEPT ![d] = TRUE]
  /\ StartEngine(d)
  /\ UNCHANGED <<group, durable, shown, emitting, queue, unsent, late, hasty, covers>>

\* The page is reloaded: what was not accepted, or not sent, is gone.
Reload(d) ==
  /\ Mounted(d) /\ faults < MaxFaults
  /\ faults' = faults + 1
  /\ phase' = [phase EXCEPT ![d] = "unmounted"]
  /\ shown' = [shown EXCEPT ![d] = NoTask]
  /\ emitting' = [emitting EXCEPT ![d] = NoEvent]
  /\ since' = [since EXCEPT ![d] = <<>>] /\ copy' = [copy EXCEPT ![d] = <<>>]
  /\ queue' = [queue EXCEPT ![d] = <<>>] /\ unsent' = [unsent EXCEPT ![d] = <<>>]
  /\ late' = [late EXCEPT ![d] = FALSE] /\ unseeded' = [unseeded EXCEPT ![d] = FALSE]
  /\ UNCHANGED <<group, durable, hasty, covers>>

----------------------------------------------------------------------------

\* The founder is live, the others are still to be invited.
Init ==
  /\ bus = <<>> /\ edits = <<>>
  /\ snapshot = [d \in Device |-> NoTask] /\ invite = [d \in Device |-> "none"]
  /\ log = [d \in Device |-> <<>>] /\ read = [d \in Device |-> 0]
  /\ bootstrapped = [d \in Device |-> d = Founder]
  /\ phase = [d \in Device |-> IF d = Founder THEN "live" ELSE "absent"]
  /\ shown = [d \in Device |-> NoTask]
  /\ since = [d \in Device |-> <<>>] /\ copy = [d \in Device |-> <<>>]
  /\ emitting = [d \in Device |-> NoEvent]
  /\ queue = [d \in Device |-> <<>>] /\ unsent = [d \in Device |-> <<>>]
  /\ late = [d \in Device |-> FALSE] /\ unseeded = [d \in Device |-> FALSE] /\ hasty = FALSE
  /\ covers = [d \in Device |-> {}] /\ faults = 0

Edits(d) == DispatchCreate(d) \/ DispatchMutation(d) \/ AcceptLocal(d) \/ Send(d)
Receives(d) == Deliver(d) \/ Invite(d) \/ PublishSnapshot(d) \/ ResolveBootstrap(d)
               \/ JoinTimeout(d)
Hook(d) == Emit(d) \/ Mount(d) \/ LoadLog(d) \/ Rebuild(d) \/ LoadFails(d) \/ Reload(d)

Next == \E d \in Device : Edits(d) \/ Receives(d) \/ Hook(d)

Spec == Init /\ [][Next]_vars

----------------------------------------------------------------------------
(* Properties. *)

\* Every variable has its type.
TypeOK ==
  /\ bus \in Seq(Event) /\ edits \in Seq(Event)
  /\ snapshot \in [Device -> Task \union {NoTask}]
  /\ invite \in [Device -> {"none", "invited", "synced"}]
  /\ log \in [Device -> Seq(Event)] /\ read \in [Device -> Nat]
  /\ bootstrapped \in [Device -> BOOLEAN] /\ phase \in [Device -> Phase]
  /\ shown \in [Device -> Task \union {NoTask}]
  /\ since \in [Device -> Seq(Event)] /\ copy \in [Device -> Seq(Event)]
  /\ emitting \in [Device -> Event \union {NoEvent}]
  /\ queue \in [Device -> Seq(Event)] /\ unsent \in [Device -> Seq(Event)]
  /\ late \in [Device -> BOOLEAN] /\ unseeded \in [Device -> BOOLEAN] /\ hasty \in BOOLEAN
  /\ covers \in [Device -> SUBSET Nat] /\ faults \in Nat

\* The hook has seeded its projection and has folded all that was accepted.
Seeded(d) ==
  phase[d] \in {"joining", "live"} /\ emitting[d] = NoEvent /\ ~unseeded[d]

\* R-INV-4: whatever is accepted before, during and after the seeding load, the
\* device shows what a rebuild from its log would show; unless a bootstrap was
\* folded after events that replayOrder puts behind it.
ShowsTheLog == \A d \in Device : Seeded(d) /\ ~late[d] => shown[d] = Replayed(log[d])

\* new-member-task-state-sync AC-7: the bootstrap and the live events commute,
\* so the order they were applied in makes no difference to what is shown.
BootstrapCommutes == \A d \in Device : Seeded(d) => shown[d] = Replayed(log[d])

\* What the device has folded: its log, and what its snapshot stands for.
Known(d) ==
  (Ids(log[d]) \ {BootstrapId}) \union (IF BootstrapId \in Ids(log[d]) THEN covers[d] ELSE {})

\* The task is there before any edit of it: from a snapshot, or by its create.
Based(d) ==
  BootstrapId \in Ids(log[d]) \/ (log[d] # <<>> /\ log[d][1].kind = "task.created")

\* All devices have joined and are at rest, nothing is left to accept, send or read,
\* and all are based and have folded what was sent.  One that joins reads what is
\* sent after its invite: what is older it knows from the snapshot, or not at all.
Settled ==
  \A d \in Device :
    /\ phase[d] = "live" /\ bootstrapped[d] /\ Seeded(d) /\ ~late[d]
    /\ queue[d] = <<>> /\ unsent[d] = <<>> /\ read[d] = Len(bus)
    /\ Known(d) = Ids(bus) /\ Based(d)

Agreed == \A c, d \in Device : shown[c] = shown[d]

Mutations == {i \in Ids(bus) : edits[i].kind # "task.created"}

\* property-based-invariants C1: as long as all mutations are of one kind that
\* replaces a field, settled devices agree, though each applies its own edits
\* ahead of the others' and the joiner starts from a snapshot taken at any time.
AtomicEditsConverge ==
  Settled /\ Cardinality({edits[i].kind : i \in Mutations} \ {"task.deleted"}) <= 1
          /\ (\A i \in Mutations : edits[i].kind # "task.deleted")
  => Agreed

\* property-based-invariants C0 (spec.md:77): settled devices show the same.
SettledStateEqual == Settled => Agreed

\* The edit that wrote a field last, among the published ones.
LastOf(m) ==
  LET writes == {i \in Mutations : edits[i].kind = m}
  IN IF writes = {} THEN 1 ELSE CHOOSE i \in writes : \A j \in writes : j <= i

\* R1, by design: a create that arrives after a delete brings the task back; here
\* one that was in a snapshot before it was sent.
Resurrected(d) ==
  \E i, j \in DOMAIN log[d] :
    i < j /\ log[d][i].kind = "task.deleted" /\ log[d][j].kind = "task.created"

\* task-store-utils.ts:3-26: edits of one device in one second, by a clock that
\* may even go back, are not lost to the tie-break: if nobody else edits and each
\* edit is folded before the next, all devices end with every edit applied.  A
\* session whose seeding load failed has not folded what its log has.
LoneWriterIsHeard ==
  Settled /\ ~hasty /\ (\A i, j \in Mutations : edits[i].key.dev = edits[j].key.dev)
          /\ (\A d \in Device : ~Resurrected(d))
  => \A d \in Device :
       IF \E i \in Mutations : edits[i].kind = "task.deleted" THEN shown[d] = NoTask
       ELSE shown[d] # NoTask /\ \A m \in Kind \ {"task.deleted"} : shown[d].wrote[m] = LastOf(m)

=============================================================================
