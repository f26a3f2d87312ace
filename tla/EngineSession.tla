---------------------------- MODULE EngineSession ----------------------------
(***************************************************************************)
(* The sessions of one group's receive engine: the board that mounts it    *)
(* (react-engine-hooks.ts, task-store.tsx), and start(), stop(), the       *)
(* generation token, the joining phase and acceptLocal of                  *)
(* receive-engine.ts. Every mount makes an engine of its own over the same *)
(* stores and the same MLS group, and leaving the group stops it, so that  *)
(* the continuations of two engines can meet. What an engine does with a   *)
(* signal is the module ReceiveEngine; here it is written and shown.       *)
(*                                                                         *)
(* A store runs its transactions in the order they were issued: a write    *)
(* takes effect, and a read its value, when it is issued; what awaits it   *)
(* goes on later.                                                          *)
(***************************************************************************)
EXTENDS Naturals, Sequences, FiniteSets

CONSTANTS
  Mount,        \* bound: one engine each
  Sent,         \* task events in the envelopes of the group
  Snap,         \* task events of the snapshot that the inviter publishes
  Local,        \* edits dispatched on the board, once each
  None,
  MaxFailures   \* bound: store and relay calls that fail for good

ASSUME SessionAssumption ==
  /\ IsFiniteSet(Mount) /\ IsFiniteSet(Sent) /\ IsFiniteSet(Snap) /\ IsFiniteSet(Local)
  /\ Sent \intersect Snap = {} /\ Local \intersect (Sent \union Snap) = {}
  /\ None \notin Mount \union Sent \union Snap \union Local
  /\ None \notin BOOLEAN /\ None \notin {"welcome", "restored"} /\ None \notin {0, 1, 2}
  /\ MaxFailures \in Nat

TaskEvents == Sent \union Snap \union Local

VARIABLES
  log,          \* durable: the accepted log
  mark,         \* durable: bootstrapCompleted of the checkpoint, None without one
  consumed      \* durable: envelopes that the MLS ratchet has decrypted

VARIABLES
  origin,       \* engineOrigin of the TaskStoreProvider
  mounted,      \* the engine of the mounted board
  board,        \* its projection, and the rebuild that seeds it
  eng           \* every engine

VARIABLES
  zombies,      \* history: engines that stop() has left running
  misrouted,    \* history: a group with durable state was started as a fresh one
  early, late,  \* history: edits whose write was under way as their engine started, or
                \* was issued after it was stopped
  failures

durable == <<log, mark, consumed>>
history == <<zombies, misrouted, early, late>>
vars    == <<durable, origin, mounted, board, eng, history, failures>>

NoJob == [ev |-> None, gen |-> 0, ok |-> FALSE]

NewEngine ==
  [pc |-> "none", origin |-> None, loaded |-> None, gen |-> 0, bc |-> FALSE,
   timer |-> "off", fetch |-> "off", feed |-> {}, sub |-> FALSE, todo |-> {}, buffer |-> {},
   queue |-> <<>>, job |-> NoJob, processed |-> {}, drains |-> 0]

NoBoard == [shown |-> {}, seeding |-> FALSE, read |-> {}, since |-> {}, blind |-> FALSE]

Fails == failures < MaxFailures /\ failures' = failures + 1

Set(m, e) == eng' = [eng EXCEPT ![m] = e]
Waits(m, evs) ==
  eng[m].job.ev \in evs \/ \E i \in DOMAIN eng[m].queue : eng[m].queue[i].ev \in evs
Enqueued(e, ev, g) == [e EXCEPT !.queue = Append(@, [ev |-> ev, gen |-> g])]

\* saveCheckpointResilient: one attempt is awaited, the rest is left to Resave.
Save(b) == \/ mark' = b /\ UNCHANGED failures
           \/ Fails /\ UNCHANGED mark

----------------------------------------------------------------------------
(* The board. *)

\* The origin of the next start; a read that fails makes it a fresh group.
ResolveOrigin ==
  /\ mounted = None /\ origin = None
  /\ LET fresh == mark = None /\ log = {} IN
     \/ origin' = (IF fresh THEN "welcome" ELSE "restored") /\ UNCHANGED <<misrouted, failures>>
     \/ Fails /\ origin' = "welcome" /\ misrouted' = (misrouted \/ ~fresh)
  /\ UNCHANGED <<durable, mounted, board, eng, zombies, early, late>>

\* The effect of useReceiveEngine: subscribe, and read the log to seed the board.
MountBoard(m) ==
  /\ mounted = None /\ origin # None /\ eng[m].pc = "none"
  /\ mounted' = m /\ Set(m, [NewEngine EXCEPT !.pc = "seed", !.origin = origin])
  /\ board' = [NoBoard EXCEPT !.seeding = TRUE, !.read = log]
  /\ UNCHANGED <<durable, origin, history, failures>>

\* dispatchLocal: acceptLocal enqueues without a generation.
Dispatch(l) ==
  /\ mounted # None
  /\ \A m \in Mount : ~Waits(m, {l})
  /\ l \notin log
  /\ Set(mounted, Enqueued(eng[mounted], l, None))
  /\ UNCHANGED <<durable, origin, mounted, board, history, failures>>

\* What stop() leaves of an engine: jobs of the FIFO still run, but only an edit
\* does anything.
Stopped(e) == [e EXCEPT !.pc = "over", !.gen = @ + 1, !.timer = "off", !.fetch = "off",
                        !.feed = {}, !.sub = FALSE, !.todo = {}, !.buffer = {}]

\* The cleanup: unsubscribe and stop(), which does nothing before a lifecycle.
Unmount ==
  /\ mounted # None
  /\ mounted' = None /\ origin' = None /\ board' = NoBoard
  /\ LET m == mounted
         e == eng[m]
     IN IF e.pc \in {"seed", "load", "logs"}
        THEN /\ zombies' = IF e.pc = "seed" THEN zombies ELSE zombies \union {m}
             /\ UNCHANGED <<eng, mark, failures>>
        ELSE /\ Set(m, Stopped(e)) /\ Save(e.bc) /\ UNCHANGED zombies
  /\ UNCHANGED <<log, consumed, misrouted, early, late>>

----------------------------------------------------------------------------
(* start(). *)

\* Mutant: the flag is taken from the checkpoint, which there may be none of.
JoiningFromCheckpoint(m, e) ==
  /\ Set(m, [e EXCEPT !.pc = "joining", !.gen = 1, !.bc = e.loaded])
  /\ Save(FALSE)

\* enterJoining, up to the save it awaits.
Joining(m, e) ==
  /\ Set(m, [e EXCEPT !.pc = "joining", !.gen = 1, !.bc = FALSE])
  /\ Save(FALSE)

\* Mutant: the flag is not taken from the checkpoint.
RecoveringUnmarked(m, e) ==
  /\ Set(m, [e EXCEPT !.pc = "recovering", !.gen = 1])
  /\ Save(FALSE)

\* enterRecovering, up to the save: the flag is set, with a checkpoint or without.
Recovering(m, e) ==
  /\ Set(m, [e EXCEPT !.pc = "recovering", !.gen = 1, !.bc = TRUE])
  /\ Save(TRUE)

\* boot() goes on to start().
Boot(m) ==
  IF eng[m].origin = "welcome" THEN Joining(m, eng[m])
  ELSE /\ Set(m, [eng[m] EXCEPT !.pc = "load", !.gen = 1, !.loaded = mark])
       /\ UNCHANGED <<mark, failures>>

\* Mutant: the events folded while the log was read are clobbered.
SeededClobbering(m) ==
  /\ mounted = m /\ eng[m].pc = "seed"
  /\ board' = [board EXCEPT !.seeding = FALSE, !.shown = board.read]
  /\ Boot(m)
  /\ UNCHANGED <<log, consumed, origin, mounted, history>>

\* rebuildFromPersistence: what was folded meanwhile is replayed on what was read.
Seeded(m) ==
  /\ mounted = m /\ eng[m].pc = "seed"
  /\ board' = [board EXCEPT !.seeding = FALSE, !.shown = board.read \union board.since]
  /\ Boot(m)
  /\ UNCHANGED <<log, consumed, origin, mounted, history>>

\* The read fails: the board shows what is folded from now on.
SeedFails(m) ==
  /\ mounted = m /\ eng[m].pc = "seed" /\ Fails
  /\ board' = [board EXCEPT !.seeding = FALSE, !.blind = TRUE]
  /\ IF eng[m].origin = "welcome"
     THEN Set(m, [eng[m] EXCEPT !.pc = "joining", !.gen = 1]) /\ mark' = FALSE
     ELSE Set(m, [eng[m] EXCEPT !.pc = "load", !.gen = 1, !.loaded = mark]) /\ UNCHANGED mark
  /\ UNCHANGED <<log, consumed, origin, mounted, history>>

\* The board is gone: boot() returns.
SeedCancelled(m) ==
  /\ mounted # m /\ eng[m].pc = "seed"
  /\ Set(m, [eng[m] EXCEPT !.pc = "over"])
  /\ UNCHANGED <<durable, origin, mounted, board, history, failures>>

\* loadCheckpoint returns; without a usable one the logs are read.
Loaded(m) ==
  /\ eng[m].pc = "load"
  /\ \/ eng[m].loaded = TRUE /\ Recovering(m, eng[m]) /\ UNCHANGED misrouted
     \/ eng[m].loaded = FALSE /\ Joining(m, eng[m]) /\ UNCHANGED misrouted
     \/ /\ Set(m, [eng[m] EXCEPT !.pc = "logs", !.loaded = IF log = {} THEN None ELSE TRUE])
        /\ misrouted' = (misrouted \/ (eng[m].loaded = TRUE /\ log = {}))
        /\ IF eng[m].loaded = None THEN UNCHANGED failures ELSE Fails
        /\ UNCHANGED mark
  /\ UNCHANGED <<log, consumed, origin, mounted, board, zombies, early, late>>

\* Preserve and replay, if there is anything.
LogsLoaded(m) ==
  /\ eng[m].pc = "logs"
  /\ IF eng[m].loaded = TRUE THEN Recovering(m, eng[m]) ELSE Joining(m, eng[m])
  /\ UNCHANGED <<log, consumed, origin, mounted, board, history>>

----------------------------------------------------------------------------
(* joining: fetchBootstrap against T_join. *)

\* enterCatchingUp, up to the save.
CatchingUp(m, e) ==
  /\ Set(m, [e EXCEPT !.pc = "cutover"])
  /\ Save(e.bc)

Joined(m) ==
  /\ eng[m].pc = "joining"
  /\ Set(m, [eng[m] EXCEPT !.pc = "bootstrap", !.timer = "armed", !.fetch = "asking"])
  /\ UNCHANGED <<durable, origin, mounted, board, history, failures>>

\* The relay answers. It may hold no snapshot yet, or not answer at all, and
\* fetchBootstrap yields nothing then.
BootstrapAnswers(m) ==
  /\ eng[m].fetch = "asking"
  /\ \E found \in {{}, Snap} :
       Set(m, [eng[m] EXCEPT !.fetch = "feeding", !.feed = found])
  /\ UNCHANGED <<durable, origin, mounted, board, history, failures>>

BootstrapFeeds(m) ==
  /\ eng[m].fetch = "feeding" /\ ~Waits(m, Snap)
  /\ \E b \in eng[m].feed :
       Set(m, Enqueued([eng[m] EXCEPT !.feed = @ \ {b}], b, eng[m].gen))
  /\ UNCHANGED <<durable, origin, mounted, board, history, failures>>

\* Mutant: T_join goes on after the bootstrap has resolved.
BootstrapDoneKeepingTimer(m) ==
  /\ eng[m].fetch = "feeding" /\ eng[m].feed = {} /\ ~Waits(m, Snap)
  /\ LET e == [eng[m] EXCEPT !.fetch = "over", !.bc = TRUE] IN
     IF e.timer = "armed" THEN CatchingUp(m, e) ELSE Set(m, e) /\ Save(TRUE)
  /\ UNCHANGED <<log, consumed, origin, mounted, board, history>>

\* The drain is over: before T_join it starts the cutover, later it only saves.
BootstrapDone(m) ==
  /\ eng[m].fetch = "feeding" /\ eng[m].feed = {} /\ ~Waits(m, Snap)
  /\ LET e == [eng[m] EXCEPT !.fetch = "over", !.bc = TRUE] IN
     IF e.timer = "armed" THEN CatchingUp(m, [e EXCEPT !.timer = "off"])
     ELSE Set(m, e) /\ Save(TRUE)
  /\ UNCHANGED <<log, consumed, origin, mounted, board, history>>

\* The drain throws (the members of the group cannot be read).
BootstrapThrows(m) ==
  /\ eng[m].fetch = "asking"
  /\ LET e == [eng[m] EXCEPT !.fetch = "over"] IN
     IF e.timer = "armed" THEN CatchingUp(m, [e EXCEPT !.timer = "off"])
     ELSE Set(m, e) /\ UNCHANGED <<mark, failures>>
  /\ UNCHANGED <<log, consumed, origin, mounted, board, history>>

TJoin(m) ==
  /\ eng[m].timer = "armed"
  /\ CatchingUp(m, [eng[m] EXCEPT !.timer = "fired"])
  /\ UNCHANGED <<log, consumed, origin, mounted, board, history>>

----------------------------------------------------------------------------
(* recovering, and the cutover. *)

\* R1 marks what the accepted log holds; what R3 resubmits, the ratchet skips.
Recovered(m) ==
  /\ eng[m].pc = "recovering"
  /\ CatchingUp(m, [eng[m] EXCEPT !.processed = @ \union log])
  /\ UNCHANGED <<log, consumed, origin, mounted, board, history>>

OpenLive(m) ==
  /\ eng[m].pc = "cutover"
  /\ Set(m, [eng[m] EXCEPT !.pc = "catchUp", !.sub = TRUE, !.buffer = {}, !.drains = @ + 1])
  /\ UNCHANGED <<durable, origin, mounted, board, history, failures>>

\* catchUp ingests what the relay holds: the ratchet yields an envelope once.
CatchUp(m) ==
  /\ eng[m].pc = "catchUp"
  /\ \E answer \in SUBSET (Sent \ consumed) :
       /\ consumed' = consumed \union answer
       /\ Set(m, [eng[m] EXCEPT !.pc = "drain", !.todo = answer])
  /\ UNCHANGED <<log, mark, origin, mounted, board, history, failures>>

\* catchUp throws: the engine stays in catching_up.
CatchUpThrows(m) ==
  /\ eng[m].pc = "catchUp" /\ Fails
  /\ Set(m, [eng[m] EXCEPT !.pc = "stuck"])
  /\ UNCHANGED <<durable, origin, mounted, board, history>>

DrainNext(m) ==
  /\ eng[m].pc = "drain" /\ ~Waits(m, Sent)
  /\ \E s \in eng[m].todo :
       Set(m, Enqueued([eng[m] EXCEPT !.todo = @ \ {s}], s, eng[m].gen))
  /\ UNCHANGED <<durable, origin, mounted, board, history, failures>>

\* L6 and L7.
BufferLive(m) ==
  /\ eng[m].pc = "drain" /\ ~Waits(m, Sent) /\ eng[m].todo = {}
  /\ Set(m, [eng[m] EXCEPT !.pc = "buffering"]) /\ Save(eng[m].bc)
  /\ UNCHANGED <<log, consumed, origin, mounted, board, history>>

DrainBuffered(m) ==
  /\ eng[m].pc = "buffering" /\ ~Waits(m, Sent)
  /\ \E s \in eng[m].buffer :
       Set(m, Enqueued([eng[m] EXCEPT !.buffer = @ \ {s}], s, eng[m].gen))
  /\ UNCHANGED <<durable, origin, mounted, board, history, failures>>

GoLive(m) ==
  /\ eng[m].pc = "buffering" /\ ~Waits(m, Sent) /\ eng[m].buffer = {}
  /\ Set(m, [eng[m] EXCEPT !.pc = "live"]) /\ Save(eng[m].bc)
  /\ UNCHANGED <<log, consumed, origin, mounted, board, history>>

\* A live push, for the engine that ingests it first.
Deliver(m, s) ==
  /\ eng[m].sub /\ s \notin consumed
  /\ consumed' = consumed \union {s}
  /\ Set(m, IF eng[m].pc = "live" THEN Enqueued(eng[m], s, eng[m].gen)
            ELSE [eng[m] EXCEPT !.buffer = @ \union {s}])
  /\ UNCHANGED <<log, mark, origin, mounted, board, history, failures>>

\* The periodic tick of live, or the retry of a save that failed.
Resave(m) ==
  /\ eng[m].pc = "live" \/ (failures > 0 /\ eng[m].pc \in {"bootstrap", "cutover", "catchUp",
                                                          "drain", "buffering", "stuck"})
  /\ mark # eng[m].bc /\ mark' = eng[m].bc
  /\ UNCHANGED <<log, consumed, origin, mounted, board, eng, history, failures>>

----------------------------------------------------------------------------
(* The serial FIFO: a signal or an edit is written, then shown. *)

\* Its turn has come: a signal of an older generation is dropped, and so is what
\* has been processed; else the write is issued.
Writes(m, ev, rest) ==
  /\ \/ log' = log \union {ev} /\ UNCHANGED failures
        /\ Set(m, [eng[m] EXCEPT !.queue = rest,
                                 !.job = [ev |-> ev, gen |-> eng[m].gen, ok |-> TRUE]])
     \/ Fails /\ UNCHANGED log
        /\ Set(m, [eng[m] EXCEPT !.queue = rest,
                                 !.job = [ev |-> ev, gen |-> eng[m].gen, ok |-> FALSE]])
  /\ late' = IF ev \in Local /\ mounted # m THEN late \union {ev} ELSE late

\* Mutant: enqueue instead of enqueueGen.
StartJobOfAnyGeneration(m) ==
  /\ eng[m].job = NoJob /\ eng[m].queue # <<>>
  /\ LET h == Head(eng[m].queue)
         rest == Tail(eng[m].queue)
     IN IF h.ev \in eng[m].processed
        THEN Set(m, [eng[m] EXCEPT !.queue = rest]) /\ UNCHANGED <<log, late, failures>>
        ELSE Writes(m, h.ev, rest)
  /\ UNCHANGED <<mark, consumed, origin, mounted, board, zombies, misrouted, early>>

StartJob(m) ==
  /\ eng[m].job = NoJob /\ eng[m].queue # <<>>
  /\ LET h == Head(eng[m].queue)
         rest == Tail(eng[m].queue)
     IN IF h.gen \notin {None, eng[m].gen} \/ h.ev \in eng[m].processed
        THEN Set(m, [eng[m] EXCEPT !.queue = rest]) /\ UNCHANGED <<log, late, failures>>
        ELSE Writes(m, h.ev, rest)
  /\ UNCHANGED <<mark, consumed, origin, mounted, board, zombies, misrouted, early>>

\* The write returns. In a generation that is over nothing follows, else the
\* event is marked and emitted, to a board that is still there.
JobReturns(m) ==
  /\ eng[m].job # NoJob
  /\ LET j == eng[m].job
         current == j.ok /\ j.gen = eng[m].gen
     IN /\ Set(m, [eng[m] EXCEPT !.job = NoJob,
                                 !.processed = IF current THEN @ \union {j.ev} ELSE @])
        /\ board' = IF ~current \/ mounted # m THEN board
                    ELSE [board EXCEPT !.shown = @ \union {j.ev},
                                       !.since = IF board.seeding THEN @ \union {j.ev} ELSE @]
        /\ early' = IF j.gen = 0 /\ eng[m].gen = 1 THEN early \union {j.ev} ELSE early
  /\ UNCHANGED <<durable, origin, mounted, zombies, misrouted, late, failures>>

----------------------------------------------------------------------------
(* The specification. *)

\* A group that was never opened, or what earlier sessions have left: a bootstrap
\* that is done, or one that is still to be done (bound: nothing fails then).
Init ==
  /\ \/ log = {} /\ mark = None /\ failures = 0
     \/ log = Snap /\ mark = TRUE /\ failures = 0
     \/ log = {} /\ mark = FALSE /\ failures = MaxFailures
  /\ consumed = {}
  /\ origin = None /\ mounted = None /\ board = NoBoard
  /\ eng = [m \in Mount |-> NewEngine]
  /\ zombies = {} /\ misrouted = FALSE /\ early = {} /\ late = {}

Engine(m) ==
  \/ Seeded(m) \/ SeedFails(m) \/ SeedCancelled(m) \/ Loaded(m) \/ LogsLoaded(m)
  \/ Joined(m) \/ BootstrapAnswers(m) \/ BootstrapFeeds(m) \/ BootstrapDone(m)
  \/ BootstrapThrows(m) \/ TJoin(m)
  \/ Recovered(m) \/ OpenLive(m) \/ CatchUp(m) \/ CatchUpThrows(m) \/ DrainNext(m)
  \/ BufferLive(m) \/ DrainBuffered(m) \/ GoLive(m) \/ Resave(m)
  \/ StartJob(m) \/ JobReturns(m)

Next ==
  \/ ResolveOrigin \/ Unmount
  \/ \E m \in Mount : MountBoard(m) \/ Engine(m) \/ \E s \in Sent : Deliver(m, s)
  \/ \E l \in Local : Dispatch(l)

Spec == Init /\ [][Next]_vars

----------------------------------------------------------------------------
(* Properties. *)

EngineType ==
  [pc : {"none", "seed", "load", "logs", "joining", "bootstrap", "recovering", "cutover",
         "catchUp", "drain", "buffering", "live", "stuck", "over"},
   origin : {"welcome", "restored", None}, loaded : BOOLEAN \union {None}, gen : 0 .. 2,
   bc : BOOLEAN, timer : {"off", "armed", "fired"}, fetch : {"off", "asking", "feeding", "over"},
   feed : SUBSET Snap, sub : BOOLEAN, todo : SUBSET Sent, buffer : SUBSET Sent,
   queue : Seq([ev : TaskEvents, gen : {0, 1, None}]),
   job : [ev : TaskEvents, gen : 0 .. 2, ok : BOOLEAN] \union {NoJob},
   processed : SUBSET TaskEvents, drains : Nat]

\* Types.
TypeOK ==
  /\ log \subseteq TaskEvents /\ mark \in BOOLEAN \union {None} /\ consumed \subseteq Sent
  /\ origin \in {"welcome", "restored", None} /\ mounted \in Mount \union {None}
  /\ board \in [shown : SUBSET TaskEvents, seeding : BOOLEAN, read : SUBSET TaskEvents,
                since : SUBSET TaskEvents, blind : BOOLEAN]
  /\ eng \in [Mount -> EngineType]
  /\ zombies \subseteq Mount /\ misrouted \in BOOLEAN
  /\ early \subseteq Local /\ late \subseteq Local /\ failures \in 0 .. MaxFailures

\* Once it is seeded the board shows every event that is in the log, or its
\* engine is about to emit it, whatever was accepted while the log was read.
\* Exempt: an edit dispatched before start() or run after stop(), and what an
\* engine that outlives its board takes from the ratchet.
BoardIsWhole ==
  mounted # None /\ ~board.seeding /\ ~board.blind /\ zombies = {} =>
    log \subseteq board.shown \union {eng[mounted].job.ev} \union early \union late

\* An engine writes to the accepted log for the board that mounts it: one that was
\* stopped writes no signal any more (receive-engine.ts 305-320). Exempt are edits
\* that stop() leaves in the FIFO.
OnlyOwnersWrite ==
  [][\A e \in log' \ log : \/ e \in Local
                           \/ \E m \in Mount \intersect (zombies \union {mounted}) :
                                eng'[m].job.ev = e]_vars

\* A completed bootstrap stays marked (engine-types.ts 228), unless the durable
\* state could not be read, or by an engine that outlives its board.
MarkIsKept ==
  [][mark = TRUE => mark' = TRUE \/ misrouted \/ zombies # {}]_vars

\* History is drained once for each start (receive-engine.ts 1264-1280), and by one
\* engine at a time, unless one outlives its board.
OneDrain ==
  /\ \A m \in Mount : eng[m].drains <= 1
  /\ zombies = {} => Cardinality({m \in Mount : eng[m].sub}) <= 1

\* bootstrapCompleted is true once the bootstrap is fully applied (engine-types.ts
\* 226-227): the snapshot's tasks are in the log.
BootstrapApplied == mark = TRUE => Snap \subseteq log

=============================================================================
