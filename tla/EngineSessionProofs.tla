-------------------------- MODULE EngineSessionProofs --------------------------
(* What TLAPS proves of EngineSession, for every number of engines, envelopes,   *)
(* snapshot tasks and edits, and any bound on failures.                          *)
EXTENDS EngineSession, FiniteSetTheorems, SequenceTheorems, TLAPS

Running == {"joining", "bootstrap", "recovering", "cutover", "catchUp", "drain", "buffering",
            "live", "stuck"}
Cutover == {"catchUp", "drain", "buffering", "live", "stuck"}
Unborn  == {"none", "seed"}

Board == [shown : SUBSET TaskEvents, seeding : BOOLEAN, read : SUBSET TaskEvents,
          since : SUBSET TaskEvents, blind : BOOLEAN]

Edit  == [ev : Local, gen : {None}]
Entry == Edit \union [ev : TaskEvents, gen : {1}]
Job   == [ev : TaskEvents, gen : 0 .. 2, ok : BOOLEAN]

----------------------------------------------------------------------------
(* The inductive invariants. *)

\* The generation says how far an engine has come; what it waits for, and what is
\* in its FIFO, belongs to where it is.
Fit(e) ==
  /\ e.pc \in Unborn => e.gen = 0
  /\ e.pc = "over" => e.gen \in {0, 2}
  /\ e.pc \in Running \union {"load", "logs"} => e.gen = 1
  /\ e.timer = "armed" => e.pc = "bootstrap"
  /\ e.fetch \in {"asking", "feeding"} => e.pc \in Running
  /\ e.sub => e.pc \in Cutover
  /\ e.drains <= 1 /\ (e.pc \notin Cutover \union {"over"} => e.drains = 0)
  /\ e.queue \in Seq(Entry) /\ (e.gen = 0 => e.queue \in Seq(Edit))
  /\ e.job # NoJob => e.job.gen <= e.gen /\ (e.job.gen = 0 => e.job.ev \in Local)

\* The mounted engine is at work; any other is not, but for one that has outlived
\* its board, or whose log is still being read. The board waits for the latter.
Place(m, pc) ==
  IF mounted = m THEN pc \notin {"none", "over"} /\ (pc = "seed" => board.seeding)
  ELSE pc \in {"none", "seed", "over"} \/ m \in zombies

Fits == \A m \in Mount : Fit(eng[m]) /\ Place(m, eng[m].pc)

\* What an engine takes for the mark is what the checkpoint k holds.
Knows(e, k) ==
  /\ e.pc = "seed" /\ e.origin = "welcome" => k # TRUE
  /\ e.pc = "load" => e.loaded = k
  /\ e.pc = "logs" /\ e.loaded # TRUE => k # TRUE
  /\ e.pc \in Running /\ k = TRUE => e.bc = TRUE

MarkIsKnown ==
  zombies = {} /\ ~misrouted =>
    /\ mounted = None /\ origin = "welcome" => mark # TRUE
    /\ \A m \in Mount : m = mounted => Knows(eng[m], mark)

\* What of the log the board is still to show is in the job of its engine.
Pending(e) == IF e.job.ok THEN {e.job.ev} ELSE {}

Seen(b) == IF b.seeding THEN b.read \union b.since ELSE b.shown
BoardSees ==
  mounted # None /\ ~board.blind /\ zombies = {} =>
    log \subseteq Seen(board) \union Pending(eng[mounted]) \union early \union late

SInv == TypeOK /\ Fits /\ MarkIsKnown /\ BoardSees

----------------------------------------------------------------------------
(* What all steps of an engine have in common. *)

LEMMA NoJobType == NoJob.gen = 0 /\ NoJob.ok = FALSE /\ NoJob.ev = None /\ NoJob \notin Job
  BY SessionAssumption DEF NoJob, Job, TaskEvents

\* What is known of an engine.
LEMMA AtEngine ==
  ASSUME SInv, NEW m \in Mount
  PROVE /\ eng[m] \in EngineType /\ Fit(eng[m]) /\ Place(m, eng[m].pc)
        /\ mounted = m /\ zombies = {} /\ ~misrouted => Knows(eng[m], mark)
  BY DEF SInv, TypeOK, Fits, MarkIsKnown

LEMMA SaveMoves ==
  ASSUME SInv, NEW b \in BOOLEAN, Save(b)
  PROVE /\ mark' \in {b, mark} /\ mark' \in BOOLEAN \union {None}
        /\ failures' \in 0 .. MaxFailures
  BY SessionAssumption DEF Save, Fails, SInv, TypeOK

LEMMA FailsMoves ==
  ASSUME SInv, Fails
  PROVE failures' \in 0 .. MaxFailures
  BY SessionAssumption DEF Fails, SInv, TypeOK

\* A step of engine m that writes no task event.
LEMMA EngineMoves ==
  ASSUME SInv, NEW m \in Mount, NEW e \in EngineType, Fit(e), Place(m, e.pc), Set(m, e),
         e.job = eng[m].job, UNCHANGED <<log, origin, mounted, zombies, early, late>>,
         board' \in Board, ~board'.blind => ~board.blind /\ Seen(board) \subseteq Seen(board'),
         consumed' \subseteq Sent, mark' \in BOOLEAN \union {None},
         misrouted' \in BOOLEAN, misrouted => misrouted', failures' \in 0 .. MaxFailures,
         mark' = mark \/ mounted = m \/ zombies # {},
         board' = board \/ (mounted = m /\ e.pc # "seed"),
         mounted = m /\ zombies = {} /\ ~misrouted' => Knows(e, mark')
  PROVE SInv'
<1>1. eng' = [eng EXCEPT ![m] = e] /\ eng \in [Mount -> EngineType]
  BY DEF Set, SInv, TypeOK
<1>1a. /\ eng' \in [Mount -> EngineType] /\ eng'[m] = e
      /\ \A k \in Mount \ {m} : eng'[k] = eng[k]
  BY <1>1
<1>2. TypeOK'
  BY <1>1a DEF SInv, TypeOK, Board
<1>3. Fits'
  BY <1>1a DEF SInv, Fits, Place
<1>4. MarkIsKnown'
  <2> SUFFICES ASSUME zombies = {}, ~misrouted'
               PROVE /\ mounted = None /\ origin = "welcome" => mark' # TRUE
                     /\ \A k \in Mount : k = mounted => Knows(eng'[k], mark')
    BY DEF MarkIsKnown
  <2>1. ~misrouted
    OBVIOUS
  <2>2. CASE mounted = m
    BY <1>1a, <2>2, SessionAssumption
  <2>3. CASE mounted # m
    BY <1>1a, <2>1, <2>3 DEF SInv, MarkIsKnown
  <2> QED
    BY <2>2, <2>3
<1>5. BoardSees'
  <2>1. \A k \in Mount : eng'[k].job = eng[k].job
    BY <1>1a
  <2>2. mounted # None => mounted \in Mount
    BY DEF SInv, TypeOK
  <2> QED
    BY <2>1, <2>2 DEF SInv, BoardSees, Pending, Board
<1> QED
  BY <1>2, <1>3, <1>4, <1>5 DEF SInv

----------------------------------------------------------------------------
(* joining. *)

LEMMA JoinedKeeps == ASSUME SInv, NEW m \in Mount, Joined(m) PROVE SInv'
<1> DEFINE e == [eng[m] EXCEPT !.pc = "bootstrap", !.timer = "armed", !.fetch = "asking"]
<1>1. /\ eng[m].pc = "joining" /\ Set(m, e)
      /\ UNCHANGED <<durable, origin, mounted, board, history, failures>>
  BY DEF Joined
<1>2. e \in EngineType
  <2>1. eng[m] \in EngineType
    BY AtEngine
  <2> QED
    BY <2>1 DEF EngineType
<1>3. Fit(e)
  BY <1>1, AtEngine DEF EngineType, Fit, Running, Cutover, Unborn
<1>4. Place(m, e.pc) /\ e.job = eng[m].job
  BY <1>1, AtEngine DEF EngineType, Place
<1>5. mounted = m /\ zombies = {} /\ ~misrouted => Knows(e, mark)
  <2>1. e.pc = "bootstrap" /\ e.bc = eng[m].bc
    BY <1>2, AtEngine DEF EngineType
  <2> HIDE DEF e
  <2>2. mounted = m /\ zombies = {} /\ ~misrouted /\ mark = TRUE => eng[m].bc = TRUE
    BY <1>1, AtEngine DEF Knows, Running
  <2> QED
    BY <2>1, <2>2 DEF Knows
<1> HIDE DEF e
<1> QED
  BY <1>1, <1>2, <1>3, <1>4, <1>5, EngineMoves DEF durable, history, SInv, TypeOK, Board

LEMMA BootstrapAnswersKeeps == ASSUME SInv, NEW m \in Mount, BootstrapAnswers(m) PROVE SInv'
<1>1. PICK found \in {{}, Snap} : Set(m, [eng[m] EXCEPT !.fetch = "feeding", !.feed = found])
  BY DEF BootstrapAnswers
<1> DEFINE e == [eng[m] EXCEPT !.fetch = "feeding", !.feed = found]
<1>2. /\ eng[m].fetch = "asking" /\ Set(m, e)
      /\ UNCHANGED <<durable, origin, mounted, board, history, failures>>
  BY <1>1 DEF BootstrapAnswers
<1>3. e \in EngineType
  <2>1. eng[m] \in EngineType
    BY AtEngine
  <2> QED
    BY <2>1 DEF EngineType
<1>4. Fit(e)
  BY <1>2, AtEngine DEF EngineType, Fit
<1>5. Place(m, e.pc) /\ e.job = eng[m].job
  BY <1>2, AtEngine DEF EngineType, Place
<1>6. mounted = m /\ zombies = {} /\ ~misrouted => Knows(e, mark)
  <2>1. /\ e.pc = eng[m].pc /\ e.origin = eng[m].origin
        /\ e.loaded = eng[m].loaded /\ e.bc = eng[m].bc
    BY AtEngine DEF EngineType
  <2> HIDE DEF e
  <2> QED
    BY <2>1, AtEngine DEF Knows
<1> HIDE DEF e
<1> QED
  BY <1>2, <1>3, <1>4, <1>5, <1>6, EngineMoves DEF durable, history, SInv, TypeOK, Board

\* What an enqueued event leaves as it was.
LEMMA EnqueuedFits ==
  ASSUME NEW e \in EngineType, Fit(e), NEW ev \in TaskEvents, NEW g \in {1, None},
         g = 1 => e.gen # 0, g # 1 => ev \in Local
  PROVE /\ Enqueued(e, ev, g) \in EngineType /\ Fit(Enqueued(e, ev, g))
        /\ Enqueued(e, ev, g).pc = e.pc /\ Enqueued(e, ev, g).job = e.job
        /\ Enqueued(e, ev, g).origin = e.origin /\ Enqueued(e, ev, g).loaded = e.loaded
        /\ Enqueued(e, ev, g).bc = e.bc
<1> DEFINE x == [ev |-> ev, gen |-> g]
<1> DEFINE q == Append(e.queue, x)
<1>1. /\ x \in Entry /\ x \in [ev : TaskEvents, gen : {0, 1, None}] /\ (e.gen = 0 => x \in Edit)
  BY DEF Entry, Edit, TaskEvents
<1> HIDE DEF x
<1>2. /\ q \in Seq(Entry) /\ (e.gen = 0 => q \in Seq(Edit))
      /\ q \in Seq([ev : TaskEvents, gen : {0, 1, None}])
  BY <1>1, AppendProperties DEF EngineType, Fit
<1>3. Enqueued(e, ev, g) = [e EXCEPT !.queue = q]
  BY DEF Enqueued, x
<1> HIDE DEF q
<1> DEFINE n == [e EXCEPT !.queue = q]
<1>4. n \in EngineType /\ n.queue = q
  BY <1>2 DEF EngineType
<1>5. /\ n.pc = e.pc /\ n.gen = e.gen /\ n.timer = e.timer /\ n.fetch = e.fetch /\ n.sub = e.sub
      /\ n.drains = e.drains /\ n.job = e.job
  BY DEF EngineType
<1>6. n.origin = e.origin /\ n.loaded = e.loaded /\ n.bc = e.bc
  BY DEF EngineType
<1> HIDE DEF n
<1>7. Fit(n)
  BY <1>2, <1>4, <1>5 DEF Fit
<1> QED
  BY <1>3, <1>4, <1>5, <1>6, <1>7 DEF n

LEMMA BootstrapFeedsKeeps == ASSUME SInv, NEW m \in Mount, BootstrapFeeds(m) PROVE SInv'
<1>1. PICK b \in eng[m].feed :
        Set(m, Enqueued([eng[m] EXCEPT !.feed = @ \ {b}], b, eng[m].gen))
  BY DEF BootstrapFeeds
<1> DEFINE d == [eng[m] EXCEPT !.feed = @ \ {b}]
<1> DEFINE e == Enqueued(d, b, eng[m].gen)
<1>2. /\ eng[m].fetch = "feeding" /\ Set(m, e)
      /\ UNCHANGED <<durable, origin, mounted, board, history, failures>>
  BY <1>1 DEF BootstrapFeeds
<1>3. eng[m] \in EngineType /\ eng[m].gen = 1 /\ b \in TaskEvents
  BY <1>2, AtEngine DEF Fit, EngineType, TaskEvents
<1>4. /\ d \in EngineType /\ d.pc = eng[m].pc /\ d.job = eng[m].job /\ d.gen = 1
      /\ d.origin = eng[m].origin /\ d.loaded = eng[m].loaded /\ d.bc = eng[m].bc
  BY <1>3 DEF EngineType
<1>5. Fit(d)
  BY <1>3, AtEngine DEF EngineType, Fit
<1> HIDE DEF d
<1>6. /\ e \in EngineType /\ Fit(e) /\ e.pc = eng[m].pc /\ e.job = eng[m].job
      /\ e.origin = eng[m].origin /\ e.loaded = eng[m].loaded /\ e.bc = eng[m].bc
  BY <1>3, <1>4, <1>5, EnqueuedFits
<1> HIDE DEF e
<1>7. Place(m, e.pc) /\ (mounted = m /\ zombies = {} /\ ~misrouted => Knows(e, mark))
  BY <1>6, AtEngine DEF Knows
<1> QED
  BY <1>2, <1>6, <1>7, EngineMoves DEF durable, history, SInv, TypeOK, Board

\* start() decides for joining when no completed bootstrap is known of.
LEMMA JoiningKeeps ==
  ASSUME SInv, NEW m \in Mount, Joining(m, eng[m]), eng[m].pc \in {"seed", "load", "logs"},
         mounted = m \/ m \in zombies,
         mounted = m /\ zombies = {} /\ ~misrouted => mark # TRUE,
         UNCHANGED <<log, consumed, origin, mounted, history>>, board' = board \/ mounted = m,
         board' \in Board, ~board'.blind => ~board.blind /\ Seen(board) \subseteq Seen(board')
  PROVE SInv'
<1> DEFINE e == [eng[m] EXCEPT !.pc = "joining", !.gen = 1, !.bc = FALSE]
<1>1. Set(m, e) /\ Save(FALSE)
  BY DEF Joining
<1>2. /\ mark' \in {FALSE, mark} /\ mark' \in BOOLEAN \union {None}
      /\ failures' \in 0 .. MaxFailures
  BY <1>1, SaveMoves
<1>3. eng[m] \in EngineType
  BY AtEngine
<1>3a. e \in EngineType
  <2>1. [eng[m] EXCEPT !.gen = 1] \in EngineType
    BY <1>3 DEF EngineType
  <2>2. [[eng[m] EXCEPT !.gen = 1] EXCEPT !.pc = "joining", !.bc = FALSE] \in EngineType
    BY <2>1 DEF EngineType
  <2>3. e = [[eng[m] EXCEPT !.gen = 1] EXCEPT !.pc = "joining", !.bc = FALSE]
    BY <1>3 DEF EngineType
  <2> QED
    BY <2>2, <2>3
<1>4. /\ e.pc = "joining" /\ e.gen = 1 /\ e.timer = eng[m].timer
      /\ e.fetch = eng[m].fetch /\ e.sub = eng[m].sub /\ e.drains = eng[m].drains
      /\ e.queue = eng[m].queue /\ e.job = eng[m].job
  BY <1>3 DEF EngineType
<1> HIDE DEF e
<1>5. Fit(e)
  <2>1. eng[m].job # NoJob => eng[m].job.gen <= 1
    <3>1. eng[m].gen \in {0, 1} /\ Fit(eng[m])
      BY AtEngine DEF Fit, Unborn
    <3>2. eng[m].job # NoJob => eng[m].job.gen \in 0 .. 2
      BY <1>3 DEF EngineType
    <3> QED
      BY <3>1, <3>2 DEF Fit
  <2> QED
    BY <1>4, <2>1, AtEngine DEF Fit, Running, Cutover, Unborn
<1>6. Place(m, e.pc)
  BY <1>4 DEF Place
<1>7. mounted = m /\ zombies = {} /\ ~misrouted => Knows(e, mark')
  BY <1>2, <1>4 DEF Knows
<1> QED
  BY <1>1, <1>2, <1>3a, <1>4, <1>5, <1>6, <1>7, EngineMoves DEF history, SInv, TypeOK

\* enterRecovering marks the bootstrap as done, in the engine and in the store.
LEMMA RecoveringKeeps ==
  ASSUME SInv, NEW m \in Mount, Recovering(m, eng[m]), eng[m].pc \in {"load", "logs"},
         UNCHANGED <<log, consumed, origin, mounted, history, board>>
  PROVE SInv'
<1> DEFINE e == [eng[m] EXCEPT !.pc = "recovering", !.gen = 1, !.bc = TRUE]
<1>1. Set(m, e) /\ Save(TRUE)
  BY DEF Recovering
<1>2. /\ mark' \in {TRUE, mark} /\ mark' \in BOOLEAN \union {None}
      /\ failures' \in 0 .. MaxFailures
  BY <1>1, SaveMoves
<1>3. eng[m] \in EngineType /\ eng[m].gen = 1
  BY AtEngine DEF Fit
<1>4. /\ e \in EngineType /\ e.pc = "recovering" /\ e.gen = 1 /\ e.timer = eng[m].timer
      /\ e.fetch = eng[m].fetch /\ e.sub = eng[m].sub /\ e.drains = eng[m].drains
      /\ e.queue = eng[m].queue /\ e.job = eng[m].job /\ e.bc = TRUE
  BY <1>3 DEF EngineType
<1> HIDE DEF e
<1>5. Fit(e)
  BY <1>3, <1>4, AtEngine DEF Fit, Running, Cutover, Unborn
<1>6. Place(m, e.pc) /\ (mounted = m \/ zombies # {})
  BY <1>4, AtEngine DEF Place
<1>7. Knows(e, mark')
  BY <1>4 DEF Knows
<1> QED
  BY <1>1, <1>2, <1>4, <1>5, <1>6, <1>7, EngineMoves DEF history, SInv, TypeOK, Board

\* enterCatchingUp saves what the engine knows of the bootstrap.
LEMMA CatchingUpKeeps ==
  ASSUME SInv, NEW m \in Mount, NEW d \in EngineType, Fit(d), CatchingUp(m, d),
         d.pc \in {"bootstrap", "recovering"}, d.timer # "armed", d.job = eng[m].job,
         eng[m].pc \in Running, d.bc = eng[m].bc \/ d.bc = TRUE,
         UNCHANGED <<log, consumed, origin, mounted, history, board>>
  PROVE SInv'
<1> DEFINE e == [d EXCEPT !.pc = "cutover"]
<1>1. Set(m, e) /\ Save(d.bc) /\ d.bc \in BOOLEAN
  BY DEF CatchingUp, EngineType
<1>2. /\ mark' \in {d.bc, mark} /\ mark' \in BOOLEAN \union {None}
      /\ failures' \in 0 .. MaxFailures
  BY <1>1, SaveMoves
<1>3. /\ e \in EngineType /\ e.pc = "cutover" /\ e.gen = d.gen /\ e.timer = d.timer
      /\ e.fetch = d.fetch /\ e.sub = d.sub /\ e.drains = d.drains
      /\ e.queue = d.queue /\ e.job = d.job /\ e.bc = d.bc
  BY DEF EngineType
<1> HIDE DEF e
<1>4. Fit(e)
  BY <1>3 DEF Fit, Running, Cutover, Unborn
<1>5. Place(m, e.pc) /\ (mounted = m \/ zombies # {})
  BY <1>3, AtEngine DEF Place, Running
<1>6. mounted = m /\ zombies = {} /\ ~misrouted => Knows(e, mark')
  BY <1>1, <1>2, <1>3, AtEngine DEF Knows
<1> QED
  BY <1>1, <1>2, <1>3, <1>4, <1>5, <1>6, EngineMoves DEF history, SInv, TypeOK, Board

LEMMA BootstrapDoneKeeps == ASSUME SInv, NEW m \in Mount, BootstrapDone(m) PROVE SInv'
<1> DEFINE d == [eng[m] EXCEPT !.fetch = "over", !.bc = TRUE]
<1>1. /\ eng[m].fetch = "feeding" /\ UNCHANGED <<log, consumed, origin, mounted, board, history>>
      /\ IF d.timer = "armed" THEN CatchingUp(m, [d EXCEPT !.timer = "off"])
         ELSE Set(m, d) /\ Save(TRUE)
  BY DEF BootstrapDone
<1>2. eng[m] \in EngineType /\ eng[m].pc \in Running
  BY <1>1, AtEngine DEF Fit
<1>3. /\ d \in EngineType /\ d.pc = eng[m].pc /\ d.gen = eng[m].gen /\ d.timer = eng[m].timer
      /\ d.fetch = "over" /\ d.sub = eng[m].sub /\ d.drains = eng[m].drains
      /\ d.queue = eng[m].queue /\ d.job = eng[m].job /\ d.bc = TRUE
  BY <1>2 DEF EngineType
<1> HIDE DEF d
<1>4. Fit(d)
  BY <1>3, AtEngine DEF Fit
<1>5. CASE d.timer = "armed"
  <2> DEFINE x == [d EXCEPT !.timer = "off"]
  <2>1. /\ x \in EngineType /\ x.pc = d.pc /\ x.gen = d.gen /\ x.timer = "off"
        /\ x.fetch = d.fetch /\ x.sub = d.sub /\ x.drains = d.drains
        /\ x.queue = d.queue /\ x.job = d.job /\ x.bc = d.bc
    BY <1>3 DEF EngineType
  <2>2. CatchingUp(m, x)
    BY <1>1, <1>5
  <2> HIDE DEF x
  <2>3. Fit(x) /\ x.pc = "bootstrap"
    BY <1>4, <1>5, <2>1 DEF Fit
  <2> QED
    BY <1>1, <1>2, <1>3, <2>1, <2>2, <2>3, CatchingUpKeeps
<1>6. CASE d.timer # "armed"
  <2>1. Set(m, d) /\ Save(TRUE)
    BY <1>1, <1>6
  <2>2. mark' \in BOOLEAN \union {None} /\ failures' \in 0 .. MaxFailures
    BY <2>1, SaveMoves
  <2>3. Place(m, d.pc) /\ (mounted = m \/ zombies # {})
    BY <1>2, <1>3, AtEngine DEF Place, Running
  <2>4. Knows(d, mark')
    BY <1>2, <1>3 DEF Knows, Running
  <2> QED
    BY <1>1, <1>3, <1>4, <2>1, <2>2, <2>3, <2>4, EngineMoves DEF history, SInv, TypeOK, Board
<1> QED
  BY <1>5, <1>6

LEMMA BootstrapThrowsKeeps == ASSUME SInv, NEW m \in Mount, BootstrapThrows(m) PROVE SInv'
<1> DEFINE d == [eng[m] EXCEPT !.fetch = "over"]
<1>1. /\ eng[m].fetch = "asking" /\ UNCHANGED <<log, consumed, origin, mounted, board, history>>
      /\ IF d.timer = "armed" THEN CatchingUp(m, [d EXCEPT !.timer = "off"])
         ELSE Set(m, d) /\ UNCHANGED <<mark, failures>>
  BY DEF BootstrapThrows
<1>2. eng[m] \in EngineType /\ eng[m].pc \in Running
  BY <1>1, AtEngine DEF Fit
<1>3. /\ d \in EngineType /\ d.pc = eng[m].pc /\ d.gen = eng[m].gen /\ d.timer = eng[m].timer
      /\ d.fetch = "over" /\ d.sub = eng[m].sub /\ d.drains = eng[m].drains
      /\ d.queue = eng[m].queue /\ d.job = eng[m].job /\ d.bc = eng[m].bc
      /\ d.origin = eng[m].origin /\ d.loaded = eng[m].loaded
  BY <1>2 DEF EngineType
<1> HIDE DEF d
<1>4. Fit(d)
  BY <1>3, AtEngine DEF Fit
<1>5. CASE d.timer = "armed"
  <2> DEFINE x == [d EXCEPT !.timer = "off"]
  <2>1. /\ x \in EngineType /\ x.pc = d.pc /\ x.gen = d.gen /\ x.timer = "off"
        /\ x.fetch = d.fetch /\ x.sub = d.sub /\ x.drains = d.drains
        /\ x.queue = d.queue /\ x.job = d.job /\ x.bc = d.bc
    BY <1>3 DEF EngineType
  <2>2. CatchingUp(m, x)
    BY <1>1, <1>5
  <2> HIDE DEF x
  <2>3. Fit(x) /\ x.pc = "bootstrap"
    BY <1>4, <1>5, <2>1 DEF Fit
  <2> QED
    BY <1>1, <1>2, <1>3, <2>1, <2>2, <2>3, CatchingUpKeeps
<1>6. CASE d.timer # "armed"
  <2>1. Set(m, d) /\ UNCHANGED <<mark, failures>>
    BY <1>1, <1>6
  <2>2. Place(m, d.pc)
    BY <1>3, AtEngine
  <2>3. mounted = m /\ zombies = {} /\ ~misrouted => Knows(d, mark)
    BY <1>3, AtEngine DEF Knows
  <2> QED
    BY <1>1, <1>3, <1>4, <2>1, <2>2, <2>3, EngineMoves DEF history, SInv, TypeOK, Board
<1> QED
  BY <1>5, <1>6

LEMMA TJoinKeeps == ASSUME SInv, NEW m \in Mount, TJoin(m) PROVE SInv'
<1> DEFINE d == [eng[m] EXCEPT !.timer = "fired"]
<1>1. /\ eng[m].timer = "armed" /\ CatchingUp(m, d)
      /\ UNCHANGED <<log, consumed, origin, mounted, board, history>>
  BY DEF TJoin
<1>2. eng[m] \in EngineType /\ eng[m].pc = "bootstrap"
  BY <1>1, AtEngine DEF Fit
<1>3. /\ d \in EngineType /\ d.pc = "bootstrap" /\ d.gen = eng[m].gen /\ d.timer = "fired"
      /\ d.fetch = eng[m].fetch /\ d.sub = eng[m].sub /\ d.drains = eng[m].drains
      /\ d.queue = eng[m].queue /\ d.job = eng[m].job /\ d.bc = eng[m].bc
  BY <1>2 DEF EngineType
<1> HIDE DEF d
<1>4. Fit(d) /\ eng[m].pc \in Running
  BY <1>2, <1>3, AtEngine DEF Fit, Running
<1> QED
  BY <1>1, <1>3, <1>4, CatchingUpKeeps

----------------------------------------------------------------------------
(* recovering, and the cutover. *)

LEMMA RecoveredKeeps == ASSUME SInv, NEW m \in Mount, Recovered(m) PROVE SInv'
<1> DEFINE d == [eng[m] EXCEPT !.processed = @ \union log]
<1>1. /\ eng[m].pc = "recovering" /\ CatchingUp(m, d)
      /\ UNCHANGED <<log, consumed, origin, mounted, board, history>>
  BY DEF Recovered
<1>2. eng[m] \in EngineType /\ eng[m].timer # "armed" /\ log \subseteq TaskEvents
  BY <1>1, AtEngine DEF Fit, SInv, TypeOK
<1>3. /\ d \in EngineType /\ d.pc = "recovering" /\ d.gen = eng[m].gen /\ d.timer = eng[m].timer
      /\ d.fetch = eng[m].fetch /\ d.sub = eng[m].sub /\ d.drains = eng[m].drains
      /\ d.queue = eng[m].queue /\ d.job = eng[m].job /\ d.bc = eng[m].bc
  BY <1>1, <1>2 DEF EngineType
<1> HIDE DEF d
<1>4. Fit(d) /\ eng[m].pc \in Running
  BY <1>1, <1>3, AtEngine DEF Fit, Running
<1> QED
  BY <1>1, <1>2, <1>3, <1>4, CatchingUpKeeps

LEMMA OpenLiveKeeps == ASSUME SInv, NEW m \in Mount, OpenLive(m) PROVE SInv'
<1> DEFINE e == [eng[m] EXCEPT !.pc = "catchUp", !.sub = TRUE, !.buffer = {}, !.drains = @ + 1]
<1>1. /\ eng[m].pc = "cutover" /\ Set(m, e)
      /\ UNCHANGED <<durable, origin, mounted, board, history, failures>>
  BY DEF OpenLive
<1>2. eng[m] \in EngineType /\ eng[m].gen = 1 /\ eng[m].drains = 0
  BY <1>1, AtEngine DEF Fit, Running, Cutover
<1>3. e \in EngineType
  <2> DEFINE n == eng[m].drains + 1
             x == [eng[m] EXCEPT !.drains = n]
  <2>1. n \in Nat
    BY <1>2
  <2> HIDE DEF n
  <2>2. x \in EngineType
    BY <1>2, <2>1 DEF EngineType
  <2>3. e = [x EXCEPT !.pc = "catchUp", !.sub = TRUE, !.buffer = {}]
    BY <1>2 DEF n, EngineType
  <2> HIDE DEF x, e
  <2>4. [x EXCEPT !.pc = "catchUp", !.sub = TRUE, !.buffer = {}] \in EngineType
    BY <2>2 DEF EngineType
  <2> QED
    BY <2>3, <2>4
<1>4. /\ e.pc = "catchUp" /\ e.gen = 1 /\ e.timer = eng[m].timer /\ e.fetch = eng[m].fetch
      /\ e.drains = 1 /\ e.queue = eng[m].queue /\ e.job = eng[m].job /\ e.bc = eng[m].bc
  BY <1>2 DEF EngineType
<1> HIDE DEF e
<1>5. Fit(e)
  BY <1>1, <1>2, <1>4, AtEngine DEF Fit, Running, Cutover, Unborn
<1>6. Place(m, e.pc)
  BY <1>1, <1>4, AtEngine DEF Place
<1>7. mounted = m /\ zombies = {} /\ ~misrouted => Knows(e, mark)
  BY <1>1, <1>4, AtEngine DEF Knows, Running
<1> QED
  BY <1>1, <1>3, <1>4, <1>5, <1>6, <1>7, EngineMoves DEF durable, history, SInv, TypeOK, Board

\* Within the cutover an engine moves on, or puts a signal into its FIFO.
LEMMA CutoverMoves ==
  ASSUME SInv, NEW m \in Mount, eng[m].pc \in Cutover, NEW e \in EngineType, Set(m, e),
         e.pc \in Cutover, e.gen = eng[m].gen, e.timer = eng[m].timer, e.drains = eng[m].drains,
         e.job = eng[m].job, e.bc = eng[m].bc, e.queue \in Seq(Entry),
         UNCHANGED <<log, origin, mounted, board, history>>,
         consumed' \subseteq Sent, mark' \in {mark, e.bc}, failures' \in 0 .. MaxFailures
  PROVE SInv'
<1>1. eng[m].gen = 1 /\ eng[m].timer # "armed" /\ e.bc \in BOOLEAN
  BY AtEngine DEF Fit, Running, Cutover, EngineType
<1>2. Fit(e)
  BY <1>1, AtEngine DEF Fit, Running, Cutover, Unborn
<1>3. Place(m, e.pc) /\ (mounted = m \/ zombies # {})
  BY AtEngine DEF Place, Cutover
<1>4. mounted = m /\ zombies = {} /\ ~misrouted => Knows(e, mark')
  BY AtEngine DEF Knows, Running, Cutover
<1> QED
  BY <1>1, <1>2, <1>3, <1>4, EngineMoves DEF history, SInv, TypeOK, Board

\* A signal enters the FIFO in the engine's generation.
LEMMA CutoverEnqueues ==
  ASSUME SInv, NEW m \in Mount, eng[m].pc \in Cutover, NEW d \in EngineType,
         d.pc = eng[m].pc, d.gen = eng[m].gen, d.timer = eng[m].timer, d.drains = eng[m].drains,
         d.job = eng[m].job, d.bc = eng[m].bc, d.queue = eng[m].queue, d.fetch = eng[m].fetch,
         d.sub = eng[m].sub, NEW ev \in TaskEvents, Set(m, Enqueued(d, ev, eng[m].gen)),
         UNCHANGED <<log, origin, mounted, board, history, mark, failures>>, consumed' \subseteq Sent
  PROVE SInv'
<1>1. eng[m].gen = 1 /\ Fit(eng[m])
  BY AtEngine DEF Fit, Running, Cutover
<1>2. Fit(d)
  BY <1>1 DEF Fit
<1> DEFINE e == Enqueued(d, ev, eng[m].gen)
<1>3. /\ e \in EngineType /\ Fit(e) /\ e.pc = d.pc /\ e.job = d.job /\ e.bc = d.bc
  BY <1>1, <1>2, EnqueuedFits
<1>3a. Set(m, e)
  OBVIOUS
<1> HIDE DEF e
<1>4. Place(m, e.pc)
  BY <1>3, AtEngine
<1>5. mounted = m /\ zombies = {} /\ ~misrouted => Knows(e, mark)
  BY <1>3, AtEngine DEF Knows, Running, Cutover
<1> QED
  BY <1>3, <1>3a, <1>4, <1>5, EngineMoves DEF history, SInv, TypeOK, Board

LEMMA CatchUpKeeps == ASSUME SInv, NEW m \in Mount, CatchUp(m) PROVE SInv'
<1>1. PICK answer \in SUBSET (Sent \ consumed) :
        /\ consumed' = consumed \union answer
        /\ Set(m, [eng[m] EXCEPT !.pc = "drain", !.todo = answer])
  BY DEF CatchUp
<1> DEFINE e == [eng[m] EXCEPT !.pc = "drain", !.todo = answer]
<1>2. /\ eng[m].pc = "catchUp" /\ Set(m, e)
      /\ UNCHANGED <<log, mark, origin, mounted, board, history, failures>>
  BY <1>1 DEF CatchUp
<1>3. eng[m] \in EngineType /\ Fit(eng[m])
  BY AtEngine
<1>4. /\ e \in EngineType /\ e.pc = "drain" /\ e.gen = eng[m].gen /\ e.timer = eng[m].timer
      /\ e.drains = eng[m].drains /\ e.job = eng[m].job /\ e.bc = eng[m].bc /\ e.queue = eng[m].queue
  BY <1>3 DEF EngineType
<1> HIDE DEF e
<1> QED
  BY <1>1, <1>2, <1>3, <1>4, CutoverMoves DEF Cutover, Fit, SInv, TypeOK

LEMMA CatchUpThrowsKeeps == ASSUME SInv, NEW m \in Mount, CatchUpThrows(m) PROVE SInv'
<1> DEFINE e == [eng[m] EXCEPT !.pc = "stuck"]
<1>1. /\ eng[m].pc = "catchUp" /\ Fails /\ Set(m, e)
      /\ UNCHANGED <<durable, origin, mounted, board, history>>
  BY DEF CatchUpThrows
<1>2. eng[m] \in EngineType /\ Fit(eng[m])
  BY AtEngine
<1>3. /\ e \in EngineType /\ e.pc = "stuck" /\ e.gen = eng[m].gen /\ e.timer = eng[m].timer
      /\ e.drains = eng[m].drains /\ e.job = eng[m].job /\ e.bc = eng[m].bc /\ e.queue = eng[m].queue
  BY <1>2 DEF EngineType
<1> HIDE DEF e
<1>4. failures' \in 0 .. MaxFailures
  BY <1>1, FailsMoves
<1> QED
  BY <1>1, <1>2, <1>3, <1>4, CutoverMoves DEF Cutover, Fit, durable, SInv, TypeOK

LEMMA DrainNextKeeps == ASSUME SInv, NEW m \in Mount, DrainNext(m) PROVE SInv'
<1>1. PICK s \in eng[m].todo : Set(m, Enqueued([eng[m] EXCEPT !.todo = @ \ {s}], s, eng[m].gen))
  BY DEF DrainNext
<1> DEFINE d == [eng[m] EXCEPT !.todo = @ \ {s}]
<1>2. /\ eng[m].pc = "drain" /\ Set(m, Enqueued(d, s, eng[m].gen))
      /\ UNCHANGED <<durable, origin, mounted, board, history, failures>>
  BY <1>1 DEF DrainNext
<1>3. eng[m] \in EngineType
  BY AtEngine
<1>4. s \in TaskEvents
  BY <1>3 DEF EngineType, TaskEvents
<1>5. d \in EngineType
  BY <1>3 DEF EngineType
<1>6. /\ d.pc = eng[m].pc /\ d.gen = eng[m].gen /\ d.timer = eng[m].timer
      /\ d.drains = eng[m].drains /\ d.job = eng[m].job /\ d.bc = eng[m].bc
      /\ d.queue = eng[m].queue /\ d.fetch = eng[m].fetch /\ d.sub = eng[m].sub
  BY <1>3 DEF EngineType
<1> HIDE DEF d
<1> QED
  BY <1>2, <1>4, <1>5, <1>6, CutoverEnqueues DEF Cutover, durable, SInv, TypeOK

LEMMA DrainBufferedKeeps == ASSUME SInv, NEW m \in Mount, DrainBuffered(m) PROVE SInv'
<1>1. PICK s \in eng[m].buffer :
        Set(m, Enqueued([eng[m] EXCEPT !.buffer = @ \ {s}], s, eng[m].gen))
  BY DEF DrainBuffered
<1> DEFINE d == [eng[m] EXCEPT !.buffer = @ \ {s}]
<1>2. /\ eng[m].pc = "buffering" /\ Set(m, Enqueued(d, s, eng[m].gen))
      /\ UNCHANGED <<durable, origin, mounted, board, history, failures>>
  BY <1>1 DEF DrainBuffered
<1>3. eng[m] \in EngineType
  BY AtEngine
<1>4. s \in TaskEvents
  BY <1>3 DEF EngineType, TaskEvents
<1>5. d \in EngineType
  BY <1>3 DEF EngineType
<1>6. /\ d.pc = eng[m].pc /\ d.gen = eng[m].gen /\ d.timer = eng[m].timer
      /\ d.drains = eng[m].drains /\ d.job = eng[m].job /\ d.bc = eng[m].bc
      /\ d.queue = eng[m].queue /\ d.fetch = eng[m].fetch /\ d.sub = eng[m].sub
  BY <1>3 DEF EngineType
<1> HIDE DEF d
<1> QED
  BY <1>2, <1>4, <1>5, <1>6, CutoverEnqueues DEF Cutover, durable, SInv, TypeOK

\* A move to pc that saves the mark.
LEMMA CutoverSaves ==
  ASSUME SInv, NEW m \in Mount, eng[m].pc \in Cutover, NEW pc \in {"buffering", "live"},
         Set(m, [eng[m] EXCEPT !.pc = pc]), Save(eng[m].bc),
         UNCHANGED <<log, consumed, origin, mounted, board, history>>
  PROVE SInv'
<1> DEFINE e == [eng[m] EXCEPT !.pc = pc]
<1>1. eng[m] \in EngineType /\ Fit(eng[m]) /\ eng[m].bc \in BOOLEAN
  BY AtEngine DEF EngineType
<1>2. /\ e \in EngineType /\ e.pc = pc /\ e.gen = eng[m].gen /\ e.timer = eng[m].timer
      /\ e.drains = eng[m].drains /\ e.job = eng[m].job /\ e.bc = eng[m].bc /\ e.queue = eng[m].queue
  BY <1>1 DEF EngineType
<1>3. Set(m, e)
  OBVIOUS
<1> HIDE DEF e
<1>4. mark' \in {eng[m].bc, mark} /\ failures' \in 0 .. MaxFailures
  BY <1>1, SaveMoves
<1> QED
  BY <1>1, <1>2, <1>3, <1>4, CutoverMoves DEF Cutover, Fit, SInv, TypeOK

LEMMA BufferLiveKeeps == ASSUME SInv, NEW m \in Mount, BufferLive(m) PROVE SInv'
  BY CutoverSaves DEF BufferLive, Cutover

LEMMA GoLiveKeeps == ASSUME SInv, NEW m \in Mount, GoLive(m) PROVE SInv'
  BY CutoverSaves DEF GoLive, Cutover

LEMMA DeliverKeeps == ASSUME SInv, NEW m \in Mount, NEW s \in Sent, Deliver(m, s) PROVE SInv'
<1>1. /\ eng[m].sub /\ consumed' = consumed \union {s}
      /\ UNCHANGED <<log, mark, origin, mounted, board, history, failures>>
      /\ Set(m, IF eng[m].pc = "live" THEN Enqueued(eng[m], s, eng[m].gen)
                ELSE [eng[m] EXCEPT !.buffer = @ \union {s}])
  BY DEF Deliver
<1>2. eng[m] \in EngineType /\ Fit(eng[m]) /\ eng[m].pc \in Cutover /\ s \in TaskEvents
  BY <1>1, AtEngine DEF Fit, TaskEvents
<1>3. consumed' \subseteq Sent
  BY <1>1 DEF SInv, TypeOK
<1>4. CASE eng[m].pc = "live"
  BY <1>1, <1>2, <1>3, <1>4, CutoverEnqueues
<1>5. CASE eng[m].pc # "live"
  <2> DEFINE e == [eng[m] EXCEPT !.buffer = @ \union {s}]
  <2>1. Set(m, e)
    BY <1>1, <1>5
  <2>2. e \in EngineType
    BY <1>2 DEF EngineType
  <2>3. /\ e.pc = eng[m].pc /\ e.gen = eng[m].gen /\ e.timer = eng[m].timer
        /\ e.drains = eng[m].drains /\ e.job = eng[m].job /\ e.bc = eng[m].bc
        /\ e.queue = eng[m].queue
    BY <1>2 DEF EngineType
  <2> HIDE DEF e
  <2> QED
    BY <1>1, <1>2, <1>3, <2>1, <2>2, <2>3, CutoverMoves DEF Fit, SInv, TypeOK
<1> QED
  BY <1>4, <1>5

LEMMA ResaveKeeps == ASSUME SInv, NEW m \in Mount, Resave(m) PROVE SInv'
<1>1. /\ eng[m].pc \in Running /\ mark' = eng[m].bc
      /\ UNCHANGED <<log, consumed, origin, mounted, board, eng, history, failures>>
  BY DEF Resave, Running
<1>2. eng[m] \in EngineType /\ Fit(eng[m]) /\ Place(m, eng[m].pc) /\ eng[m].bc \in BOOLEAN
  BY AtEngine DEF EngineType
<1>3. Set(m, eng[m])
  BY <1>1 DEF Set, SInv, TypeOK
<1>4. mounted = m \/ zombies # {}
  BY <1>1, <1>2 DEF Place, Running
<1>5. mounted = m /\ zombies = {} /\ ~misrouted => Knows(eng[m], mark')
  BY <1>1 DEF Knows, Running
<1> QED
  BY <1>1, <1>2, <1>3, <1>4, <1>5, EngineMoves DEF history, SInv, TypeOK, Board

----------------------------------------------------------------------------
(* start(). *)

\* boot() reads the checkpoint.
LEMMA LoadingKeeps ==
  ASSUME SInv, NEW m \in Mount, eng[m].pc = "seed", mounted = m,
         Set(m, [eng[m] EXCEPT !.pc = "load", !.gen = 1, !.loaded = mark]),
         UNCHANGED <<log, consumed, mark, origin, mounted, history>>,
         failures' \in 0 .. MaxFailures,
         board' \in Board, ~board'.blind => ~board.blind /\ Seen(board) \subseteq Seen(board')
  PROVE SInv'
<1> DEFINE e == [eng[m] EXCEPT !.pc = "load", !.gen = 1, !.loaded = mark]
<1>1. eng[m] \in EngineType /\ Fit(eng[m]) /\ mark \in BOOLEAN \union {None}
  BY AtEngine DEF SInv, TypeOK
<1>2. /\ e.pc = "load" /\ e.gen = 1 /\ e.timer = eng[m].timer /\ e.loaded = mark
      /\ e.fetch = eng[m].fetch /\ e.sub = eng[m].sub /\ e.drains = eng[m].drains
      /\ e.queue = eng[m].queue /\ e.job = eng[m].job
  BY <1>1 DEF EngineType
<1>3. e \in EngineType
  <2> DEFINE x == [eng[m] EXCEPT !.gen = 1]
             y == [x EXCEPT !.pc = "load"]
             z == [y EXCEPT !.loaded = mark]
  <2>1. e = z
    BY <1>1 DEF EngineType
  <2>2. x \in EngineType
    BY <1>1 DEF EngineType
  <2> HIDE DEF x
  <2>3. y \in EngineType
    BY <2>2 DEF EngineType
  <2> HIDE DEF y
  <2>4. z \in EngineType
    BY <1>1, <2>3 DEF EngineType
  <2> QED
    BY <2>1, <2>4
<1>4. Set(m, e)
  OBVIOUS
<1> HIDE DEF e
<1>5. Fit(e)
  <2>1. eng[m].gen = 0
    BY <1>1 DEF Fit, Unborn
  <2>2. eng[m].job # NoJob => eng[m].job.gen \in 0 .. 2
    BY <1>1 DEF EngineType
  <2>3. e.job # NoJob => e.job.gen <= 1 /\ (e.job.gen = 0 => e.job.ev \in Local)
    BY <1>1, <1>2, <2>1, <2>2 DEF Fit
  <2> QED
    BY <1>1, <1>2, <2>3 DEF Fit, Running, Cutover, Unborn
<1>6. Place(m, e.pc) /\ Knows(e, mark)
  BY <1>2 DEF Place, Knows, Running
<1> QED
  BY <1>1, <1>2, <1>3, <1>4, <1>5, <1>6, EngineMoves DEF history, SInv, TypeOK


LEMMA SeededKeeps == ASSUME SInv, NEW m \in Mount, Seeded(m) PROVE SInv'
<1>1. /\ mounted = m /\ eng[m].pc = "seed" /\ Boot(m)
      /\ board' = [board EXCEPT !.seeding = FALSE, !.shown = board.read \union board.since]
      /\ UNCHANGED <<log, consumed, origin, mounted, history>>
  BY DEF Seeded
<1>2. board \in Board /\ board.seeding
  BY <1>1, AtEngine DEF SInv, TypeOK, Board, Place
<1>3. board' \in Board /\ board'.blind = board.blind /\ Seen(board') = Seen(board)
  BY <1>1, <1>2 DEF Board, Seen
<1>4. CASE eng[m].origin = "welcome"
  <2>1. mounted = m /\ zombies = {} /\ ~misrouted => mark # TRUE
    BY <1>1, <1>4, AtEngine DEF Knows
  <2> QED
    BY <1>1, <1>3, <1>4, <2>1, JoiningKeeps DEF Boot
<1>5. CASE eng[m].origin # "welcome"
  <2>1. /\ Set(m, [eng[m] EXCEPT !.pc = "load", !.gen = 1, !.loaded = mark])
        /\ UNCHANGED <<mark, failures>>
    BY <1>1, <1>5 DEF Boot
  <2>2. failures' \in 0 .. MaxFailures
    BY <2>1 DEF SInv, TypeOK
  <2> QED
    BY <1>1, <1>3, <2>1, <2>2, LoadingKeeps
<1> QED
  BY <1>4, <1>5

LEMMA SeedFailsKeeps == ASSUME SInv, NEW m \in Mount, SeedFails(m) PROVE SInv'
<1>1. /\ mounted = m /\ eng[m].pc = "seed" /\ Fails
      /\ board' = [board EXCEPT !.seeding = FALSE, !.blind = TRUE]
      /\ UNCHANGED <<log, consumed, origin, mounted, history>>
  BY DEF SeedFails
<1>2. board' \in Board /\ board'.blind = TRUE
  BY <1>1 DEF SInv, TypeOK, Board
<1>3. failures' \in 0 .. MaxFailures
  BY <1>1, FailsMoves
<1>4. CASE eng[m].origin = "welcome"
  <2> DEFINE e == [eng[m] EXCEPT !.pc = "joining", !.gen = 1]
  <2>1. Set(m, e) /\ mark' = FALSE
    BY <1>4 DEF SeedFails
  <2>2. eng[m] \in EngineType /\ Fit(eng[m])
    BY AtEngine
  <2>3. /\ e.pc = "joining" /\ e.gen = 1 /\ e.timer = eng[m].timer
        /\ e.fetch = eng[m].fetch /\ e.sub = eng[m].sub /\ e.drains = eng[m].drains
        /\ e.queue = eng[m].queue /\ e.job = eng[m].job
    BY <2>2 DEF EngineType
  <2>4. e \in EngineType
    <3> DEFINE x == [eng[m] EXCEPT !.gen = 1]
               y == [x EXCEPT !.pc = "joining"]
    <3>1. e = y
      BY <2>2 DEF EngineType
    <3>2. x \in EngineType
      BY <2>2 DEF EngineType
    <3> HIDE DEF x
    <3>3. y \in EngineType
      BY <3>2 DEF EngineType
    <3> QED
      BY <3>1, <3>3
  <2> HIDE DEF e
  <2>5. Fit(e)
    <3>1. eng[m].gen = 0
      BY <1>1, <2>2 DEF Fit, Unborn
    <3>2. eng[m].job # NoJob => eng[m].job.gen \in 0 .. 2
      BY <2>2 DEF EngineType
    <3>3. e.job # NoJob => e.job.gen <= 1 /\ (e.job.gen = 0 => e.job.ev \in Local)
      BY <2>2, <2>3, <3>1, <3>2 DEF Fit
    <3> QED
      BY <1>1, <2>2, <2>3, <3>3 DEF Fit, Running, Cutover, Unborn
  <2>6. Place(m, e.pc) /\ Knows(e, FALSE)
    BY <1>1, <2>3 DEF Place, Knows, Running
  <2> QED
    BY <1>1, <1>2, <1>3, <2>1, <2>3, <2>4, <2>5, <2>6, EngineMoves DEF history, SInv, TypeOK
<1>5. CASE eng[m].origin # "welcome"
  <2>1. /\ Set(m, [eng[m] EXCEPT !.pc = "load", !.gen = 1, !.loaded = mark])
        /\ UNCHANGED mark
    BY <1>5 DEF SeedFails
  <2> QED
    BY <1>1, <1>2, <1>3, <2>1, LoadingKeeps
<1> QED
  BY <1>4, <1>5

LEMMA SeedCancelledKeeps == ASSUME SInv, NEW m \in Mount, SeedCancelled(m) PROVE SInv'
<1> DEFINE e == [eng[m] EXCEPT !.pc = "over"]
<1>1. /\ mounted # m /\ eng[m].pc = "seed" /\ Set(m, e)
      /\ UNCHANGED <<durable, origin, mounted, board, history, failures>>
  BY DEF SeedCancelled
<1>2. eng[m] \in EngineType /\ Fit(eng[m])
  BY AtEngine
<1>3. /\ e \in EngineType /\ e.pc = "over" /\ e.gen = eng[m].gen /\ e.timer = eng[m].timer
      /\ e.fetch = eng[m].fetch /\ e.sub = eng[m].sub /\ e.drains = eng[m].drains
      /\ e.queue = eng[m].queue /\ e.job = eng[m].job
  BY <1>2 DEF EngineType
<1> HIDE DEF e
<1>4. Fit(e) /\ Place(m, e.pc)
  BY <1>1, <1>2, <1>3 DEF Fit, Place, Running, Cutover, Unborn
<1> QED
  BY <1>1, <1>3, <1>4, EngineMoves DEF durable, history, SInv, TypeOK, Board

LEMMA LoadedKeeps == ASSUME SInv, NEW m \in Mount, Loaded(m) PROVE SInv'
<1>1. /\ eng[m].pc = "load"
      /\ UNCHANGED <<log, consumed, origin, mounted, board, zombies, early, late>>
  BY DEF Loaded
<1>2. eng[m] \in EngineType /\ Fit(eng[m]) /\ (mounted = m \/ m \in zombies) /\ misrouted \in BOOLEAN
  BY <1>1, AtEngine DEF Place, SInv, TypeOK
<1>3. mounted = m /\ zombies = {} /\ ~misrouted => eng[m].loaded = mark
  BY <1>1, AtEngine DEF Knows
<1>4. CASE eng[m].loaded = TRUE /\ Recovering(m, eng[m]) /\ UNCHANGED misrouted
  BY <1>1, <1>4, RecoveringKeeps DEF history
<1>5. CASE eng[m].loaded = FALSE /\ Joining(m, eng[m]) /\ UNCHANGED misrouted
  BY <1>1, <1>2, <1>3, <1>5, JoiningKeeps DEF history, SInv, TypeOK, Board
<1> DEFINE l == IF log = {} THEN None ELSE TRUE
           e == [eng[m] EXCEPT !.pc = "logs", !.loaded = l]
<1>6. CASE /\ Set(m, e) /\ misrouted' = (misrouted \/ (eng[m].loaded = TRUE /\ log = {}))
           /\ IF eng[m].loaded = None THEN UNCHANGED failures ELSE Fails
           /\ UNCHANGED mark
  <2>1. l \in BOOLEAN \union {None} /\ (l # TRUE => log = {})
    OBVIOUS
  <2> HIDE DEF l
  <2>2. /\ e \in EngineType /\ e.pc = "logs" /\ e.gen = eng[m].gen /\ e.timer = eng[m].timer
        /\ e.fetch = eng[m].fetch /\ e.sub = eng[m].sub /\ e.drains = eng[m].drains
        /\ e.queue = eng[m].queue /\ e.job = eng[m].job /\ e.loaded = l
    BY <1>2, <2>1 DEF EngineType
  <2>3. Set(m, e)
    BY <1>6
  <2> HIDE DEF e
  <2>4. Fit(e) /\ Place(m, e.pc)
    BY <1>1, <1>2, <2>2 DEF Fit, Place, Running, Cutover, Unborn
  <2>5. mounted = m /\ zombies = {} /\ ~misrouted' => Knows(e, mark)
    <3> SUFFICES ASSUME mounted = m, zombies = {}, ~misrouted' PROVE Knows(e, mark)
      OBVIOUS
    <3>1. ~misrouted /\ ~(eng[m].loaded = TRUE /\ log = {})
      BY <1>2, <1>6
    <3> QED
      BY <1>3, <2>1, <2>2, <3>1 DEF Knows, Running
  <2>6. failures' \in 0 .. MaxFailures
    BY <1>6, FailsMoves DEF SInv, TypeOK
  <2>7. misrouted' \in BOOLEAN /\ (misrouted => misrouted')
    BY <1>2, <1>6
  <2> QED
    BY <1>1, <1>6, <2>2, <2>3, <2>4, <2>5, <2>6, <2>7, EngineMoves DEF SInv, TypeOK, Board
<1> QED
  BY <1>4, <1>5, <1>6 DEF Loaded

LEMMA LogsLoadedKeeps == ASSUME SInv, NEW m \in Mount, LogsLoaded(m) PROVE SInv'
<1>1. /\ eng[m].pc = "logs" /\ UNCHANGED <<log, consumed, origin, mounted, board, history>>
      /\ IF eng[m].loaded = TRUE THEN Recovering(m, eng[m]) ELSE Joining(m, eng[m])
  BY DEF LogsLoaded
<1>2. /\ mounted = m \/ m \in zombies
      /\ mounted = m /\ zombies = {} /\ ~misrouted /\ eng[m].loaded # TRUE => mark # TRUE
  BY <1>1, AtEngine DEF Place, Knows
<1>3. CASE eng[m].loaded = TRUE
  BY <1>1, <1>3, RecoveringKeeps
<1>4. CASE eng[m].loaded # TRUE
  BY <1>1, <1>2, <1>4, JoiningKeeps DEF SInv, TypeOK, Board
<1> QED
  BY <1>3, <1>4

----------------------------------------------------------------------------
(* The board. *)

LEMMA ResolveOriginKeeps == ASSUME SInv, ResolveOrigin PROVE SInv'
<1>1. /\ mounted = None /\ origin' \in {"welcome", "restored"}
      /\ UNCHANGED <<durable, mounted, board, eng, zombies, early, late>>
      /\ misrouted' \in BOOLEAN /\ failures' \in 0 .. MaxFailures
  BY FailsMoves DEF ResolveOrigin, SInv, TypeOK
<1>2. origin' = "welcome" /\ ~misrouted' => mark # TRUE
  BY SessionAssumption DEF ResolveOrigin, SInv, TypeOK
<1>3. TypeOK'
  BY <1>1 DEF durable, SInv, TypeOK
<1>4. Fits' /\ BoardSees'
  BY <1>1 DEF durable, SInv, Fits, Place, BoardSees
<1>5. MarkIsKnown'
  BY <1>1, <1>2, SessionAssumption DEF durable, MarkIsKnown
<1> QED
  BY <1>3, <1>4, <1>5 DEF SInv

LEMMA MountBoardKeeps == ASSUME SInv, NEW m \in Mount, MountBoard(m) PROVE SInv'
<1> DEFINE e == [NewEngine EXCEPT !.pc = "seed", !.origin = origin]
<1>1. /\ mounted = None /\ eng[m].pc = "none" /\ mounted' = m /\ Set(m, e)
      /\ board' = [NoBoard EXCEPT !.seeding = TRUE, !.read = log]
      /\ UNCHANGED <<durable, origin, history, failures>>
  BY DEF MountBoard
<1>2. /\ e.pc = "seed" /\ e.gen = 0 /\ e.timer = "off" /\ e.fetch = "off" /\ e.sub = FALSE
      /\ e.drains = 0 /\ e.queue = <<>> /\ e.job = NoJob /\ e.origin = origin
  BY DEF NewEngine
<1>3. e \in EngineType
  <2>1. <<>> \in Seq([ev : TaskEvents, gen : {0, 1, None}])
    OBVIOUS
  <2>2. NewEngine \in EngineType
    BY <2>1 DEF NewEngine, EngineType
  <2>3. origin \in {"welcome", "restored", None}
    BY DEF SInv, TypeOK
  <2> HIDE DEF NewEngine
  <2> QED
    BY <2>2, <2>3 DEF EngineType
<1> HIDE DEF e
<1>4. Fit(e)
  <2>1. e.queue \in Seq(Entry) /\ e.queue \in Seq(Edit)
    BY <1>2, EmptySeq
  <2> QED
    BY <1>2, <2>1 DEF Fit, Running, Cutover, Unborn
<1>5. /\ eng' \in [Mount -> EngineType] /\ eng'[m] = e
      /\ \A k \in Mount \ {m} : eng'[k] = eng[k]
  BY <1>1, <1>3 DEF Set, SInv, TypeOK
<1>6. board' \in Board /\ board'.seeding = TRUE /\ Seen(board') = log
  BY <1>1 DEF NoBoard, Board, Seen, SInv, TypeOK
<1>7. TypeOK'
  BY <1>1, <1>5, <1>6 DEF durable, history, Board, SInv, TypeOK
<1>8. Fits'
  BY <1>1, <1>2, <1>4, <1>5, <1>6, SessionAssumption DEF Fits, Place, SInv, history
<1>9. MarkIsKnown'
  <2>1. zombies = {} /\ ~misrouted /\ origin = "welcome" => mark # TRUE
    BY <1>1 DEF SInv, MarkIsKnown
  <2>2. zombies = {} /\ ~misrouted => Knows(e, mark)
    BY <1>2, <2>1 DEF Knows, Running
  <2> QED
    BY <1>1, <1>5, <2>2, SessionAssumption DEF durable, history, MarkIsKnown
<1>10. BoardSees'
  BY <1>1, <1>6 DEF durable, BoardSees
<1> QED
  BY <1>7, <1>8, <1>9, <1>10 DEF SInv

LEMMA DispatchKeeps == ASSUME SInv, NEW l \in Local, Dispatch(l) PROVE SInv'
<1>1. /\ mounted # None /\ Set(mounted, Enqueued(eng[mounted], l, None))
      /\ UNCHANGED <<durable, origin, mounted, board, history, failures>>
  BY DEF Dispatch
<1>2. mounted \in Mount /\ l \in TaskEvents
  BY <1>1 DEF SInv, TypeOK, TaskEvents
<1> DEFINE m == mounted
           e == Enqueued(eng[m], l, None)
<1>3. eng[m] \in EngineType /\ Fit(eng[m]) /\ Place(m, eng[m].pc)
  BY <1>2, AtEngine
<1>4. /\ e \in EngineType /\ Fit(e) /\ e.pc = eng[m].pc /\ e.job = eng[m].job
      /\ e.origin = eng[m].origin /\ e.loaded = eng[m].loaded /\ e.bc = eng[m].bc
  BY <1>2, <1>3, EnqueuedFits, SessionAssumption
<1>5. Set(m, e)
  BY <1>1
<1> HIDE DEF e
<1>6. Place(m, e.pc) /\ (zombies = {} /\ ~misrouted => Knows(e, mark))
  BY <1>2, <1>3, <1>4, AtEngine DEF Knows
<1> QED
  BY <1>1, <1>2, <1>4, <1>5, <1>6, EngineMoves DEF durable, history, SInv, TypeOK, Board

\* No board is left: what its engine knows of the mark does not count any more.
LEMMA UnmountKeeps == ASSUME SInv, Unmount PROVE SInv'
<1> DEFINE m == mounted
<1>1. /\ m # None /\ mounted' = None /\ origin' = None /\ board' = NoBoard
      /\ UNCHANGED <<log, consumed, misrouted, early, late>>
  BY DEF Unmount
<1>2. m \in Mount
  BY <1>1 DEF SInv, TypeOK
<1>3. eng[m] \in EngineType /\ Fit(eng[m]) /\ eng[m].pc \notin {"none", "over"}
  BY <1>2, AtEngine DEF Place
<1>4. BoardSees' /\ MarkIsKnown'
  BY <1>1, <1>2, SessionAssumption DEF BoardSees, MarkIsKnown
<1>5. board' \in Board
  BY <1>1 DEF NoBoard, Board
<1>6. CASE eng[m].pc \in {"seed", "load", "logs"}
  <2>1. /\ zombies' = IF eng[m].pc = "seed" THEN zombies ELSE zombies \union {m}
        /\ UNCHANGED <<eng, mark, failures>>
    BY <1>6 DEF Unmount
  <2>2. TypeOK'
    BY <1>1, <1>2, <1>5, <2>1 DEF Board, SInv, TypeOK
  <2>3. Fits'
    BY <1>1, <1>2, <1>6, <2>1, SessionAssumption DEF SInv, Fits, Place
  <2> QED
    BY <1>4, <2>2, <2>3 DEF SInv
<1>7. CASE eng[m].pc \notin {"seed", "load", "logs"}
  <2> DEFINE e == Stopped(eng[m])
  <2>1. Set(m, e) /\ Save(eng[m].bc) /\ UNCHANGED zombies
    BY <1>7 DEF Unmount
  <2>2. eng[m].gen = 1 /\ eng[m].bc \in BOOLEAN
    BY <1>3, <1>7 DEF EngineType, Fit, Running
  <2>3. mark' \in BOOLEAN \union {None} /\ failures' \in 0 .. MaxFailures
    BY <2>1, <2>2, SaveMoves
  <2>4. /\ e.pc = "over" /\ e.gen = 2 /\ e.timer = "off" /\ e.fetch = "off" /\ e.sub = FALSE
        /\ e.drains = eng[m].drains /\ e.queue = eng[m].queue /\ e.job = eng[m].job
    BY <1>3, <2>2 DEF EngineType, Stopped
  <2>5. e \in EngineType
    <3> DEFINE g == eng[m].gen + 1
               x == [eng[m] EXCEPT !.gen = g]
               y == [x EXCEPT !.pc = "over", !.timer = "off", !.fetch = "off", !.feed = {}]
               z == [y EXCEPT !.sub = FALSE, !.todo = {}, !.buffer = {}]
    <3>1. g \in 0 .. 2
      BY <2>2
    <3> HIDE DEF g
    <3>2. e = z
      BY <1>3 DEF g, EngineType, Stopped
    <3>3. x \in EngineType
      BY <1>3, <3>1 DEF EngineType
    <3> HIDE DEF x
    <3>4. y \in EngineType
      BY <3>3 DEF EngineType
    <3> HIDE DEF y
    <3>5. z \in EngineType
      BY <3>4 DEF EngineType
    <3> QED
      BY <3>2, <3>5
  <2> HIDE DEF e
  <2>6. Fit(e)
    <3>1. eng[m].job # NoJob => eng[m].job.gen <= 2
      <4>1. eng[m].job # NoJob => eng[m].job.gen \in 0 .. 2
        BY <1>3 DEF EngineType
      <4> QED
        BY <4>1
    <3> QED
      BY <1>3, <2>4, <3>1 DEF Fit, Running, Cutover, Unborn
  <2>7. /\ eng' \in [Mount -> EngineType] /\ eng'[m] = e
        /\ \A k \in Mount \ {m} : eng'[k] = eng[k]
    BY <1>2, <2>1, <2>5 DEF Set, SInv, TypeOK
  <2>8. TypeOK'
    BY <1>1, <1>5, <2>1, <2>3, <2>7 DEF Board, SInv, TypeOK
  <2>9. Fits'
    BY <1>1, <1>2, <2>1, <2>4, <2>6, <2>7, SessionAssumption DEF SInv, Fits, Place
  <2> QED
    BY <1>4, <2>8, <2>9 DEF SInv
<1> QED
  BY <1>6, <1>7

----------------------------------------------------------------------------
(* The serial FIFO. *)

\* A step of the FIFO leaves its engine where it is.
LEMMA JobMoves ==
  ASSUME SInv, NEW m \in Mount, NEW e \in EngineType, Fit(e), Set(m, e),
         e.pc = eng[m].pc, e.origin = eng[m].origin, e.loaded = eng[m].loaded, e.bc = eng[m].bc,
         UNCHANGED <<mark, consumed, origin, mounted, zombies, misrouted>>,
         board' \in Board, board'.seeding = board.seeding, log' \subseteq TaskEvents,
         early' \subseteq Local, late' \subseteq Local, failures' \in 0 .. MaxFailures,
         BoardSees'
  PROVE SInv'
<1>1. eng' = [eng EXCEPT ![m] = e] /\ eng \in [Mount -> EngineType]
  BY DEF Set, SInv, TypeOK
<1>2. /\ eng' \in [Mount -> EngineType] /\ eng'[m] = e
      /\ \A k \in Mount \ {m} : eng'[k] = eng[k]
  BY <1>1
<1>3. TypeOK'
  BY <1>2 DEF SInv, TypeOK, Board
<1>4. Fits'
  BY <1>2 DEF SInv, Fits, Place
<1>5. \A k \in Mount : Knows(eng[k], mark) => Knows(eng'[k], mark)
  BY <1>2 DEF Knows
<1>6. MarkIsKnown'
  BY <1>5 DEF SInv, MarkIsKnown
<1> QED
  BY <1>3, <1>4, <1>6 DEF SInv

\* A write is issued: the board waits for the job, or the edit comes too late.
LEMMA StartJobKeeps == ASSUME SInv, NEW m \in Mount, StartJob(m) PROVE SInv'
<1> DEFINE h == Head(eng[m].queue)
           rest == Tail(eng[m].queue)
<1>1. /\ eng[m].job = NoJob /\ eng[m].queue # <<>>
      /\ UNCHANGED <<mark, consumed, origin, mounted, board, zombies, misrouted, early>>
  BY DEF StartJob
<1>2. eng[m] \in EngineType /\ Fit(eng[m]) /\ Place(m, eng[m].pc) /\ eng[m].gen \in 0 .. 2
  BY AtEngine DEF EngineType
<1>3. /\ h \in Entry /\ rest \in Seq(Entry)
      /\ eng[m].gen = 0 => h \in Edit /\ rest \in Seq(Edit)
      /\ rest \in Seq([ev : TaskEvents, gen : {0, 1, None}])
  BY <1>1, <1>2, HeadTailProperties DEF Fit, EngineType
<1>4. h.ev \in TaskEvents /\ (h.ev \notin Local => h.gen = 1)
  BY <1>3 DEF Entry, Edit, TaskEvents
<1>5. eng[m].gen = 0 => h.ev \in Local
  BY <1>3 DEF Edit
<1> HIDE DEF h, rest
<1>6. CASE h.gen \notin {None, eng[m].gen} \/ h.ev \in eng[m].processed
  <2> DEFINE e == [eng[m] EXCEPT !.queue = rest]
  <2>1. Set(m, e) /\ UNCHANGED <<log, late, failures>>
    BY <1>6 DEF StartJob, h, rest
  <2>2. e \in EngineType
    BY <1>2, <1>3 DEF EngineType
  <2>3. /\ e.pc = eng[m].pc /\ e.gen = eng[m].gen /\ e.timer = eng[m].timer
        /\ e.fetch = eng[m].fetch /\ e.sub = eng[m].sub /\ e.drains = eng[m].drains
        /\ e.queue = rest /\ e.job = eng[m].job /\ e.bc = eng[m].bc
        /\ e.origin = eng[m].origin /\ e.loaded = eng[m].loaded
    BY <1>2 DEF EngineType
  <2> HIDE DEF e
  <2>4. Fit(e)
    BY <1>2, <1>3, <2>3 DEF Fit
  <2>5. mounted = m /\ zombies = {} /\ ~misrouted => Knows(e, mark)
    BY <2>3, AtEngine DEF Knows
  <2> QED
    BY <1>1, <1>2, <2>1, <2>2, <2>3, <2>4, <2>5, EngineMoves DEF SInv, TypeOK, Board
<1>7. CASE ~(h.gen \notin {None, eng[m].gen} \/ h.ev \in eng[m].processed)
  <2>1. Writes(m, h.ev, rest)
    BY <1>7 DEF StartJob, h, rest
  <2>2. PICK b \in BOOLEAN :
          /\ Set(m, [eng[m] EXCEPT !.queue = rest,
                                   !.job = [ev |-> h.ev, gen |-> eng[m].gen, ok |-> b]])
          /\ log' = IF b THEN log \union {h.ev} ELSE log
          /\ failures' = failures \/ Fails
    BY <2>1 DEF Writes
  <2> DEFINE j == [ev |-> h.ev, gen |-> eng[m].gen, ok |-> b]
             e == [eng[m] EXCEPT !.queue = rest, !.job = j]
  <2>3. j \in Job /\ j.ev = h.ev /\ j.gen = eng[m].gen /\ j.ok = b
    BY <1>2, <1>4 DEF Job
  <2>4. Set(m, e)
    BY <2>2
  <2> HIDE DEF j
  <2>5. /\ e.pc = eng[m].pc /\ e.gen = eng[m].gen /\ e.timer = eng[m].timer
        /\ e.fetch = eng[m].fetch /\ e.sub = eng[m].sub /\ e.drains = eng[m].drains
        /\ e.queue = rest /\ e.job = j /\ e.bc = eng[m].bc
        /\ e.origin = eng[m].origin /\ e.loaded = eng[m].loaded
    BY <1>2 DEF EngineType
  <2>6. e \in EngineType
    <3> DEFINE x == [eng[m] EXCEPT !.queue = rest]
               y == [x EXCEPT !.job = j]
    <3>1. e = y
      BY <1>2 DEF EngineType
    <3>2. x \in EngineType
      BY <1>2, <1>3 DEF EngineType
    <3> HIDE DEF x
    <3>3. y \in EngineType
      BY <2>3, <3>2 DEF EngineType, Job
    <3> QED
      BY <3>1, <3>3
  <2> HIDE DEF e
  <2>7. Fit(e)
    BY <1>2, <1>3, <1>5, <2>3, <2>5 DEF Fit
  <2>8. late' = IF h.ev \in Local /\ mounted # m THEN late \union {h.ev} ELSE late
    BY <2>1 DEF Writes
  <2>9. /\ log' \subseteq TaskEvents /\ late' \subseteq Local /\ failures' \in 0 .. MaxFailures
    BY <1>4, <2>2, <2>8, FailsMoves DEF SInv, TypeOK
  <2>10. BoardSees'
    <3> SUFFICES ASSUME mounted # None, ~board.blind, zombies = {}
                 PROVE log' \subseteq Seen(board) \union Pending(eng'[mounted])
                                        \union early \union late'
      BY <1>1 DEF BoardSees, Seen
    <3>1. mounted \in Mount /\ eng' = [eng EXCEPT ![m] = e] /\ eng \in [Mount -> EngineType]
      BY <2>4 DEF Set, SInv, TypeOK
    <3>2. log \subseteq Seen(board) \union Pending(eng[mounted]) \union early \union late'
      BY <2>8 DEF SInv, BoardSees
    <3>3. CASE mounted = m
      <4>1. Pending(eng[mounted]) = {} /\ (b => Pending(eng'[mounted]) = {h.ev})
        BY <1>1, <2>3, <2>5, <3>1, <3>3, NoJobType DEF Pending
      <4> QED
        BY <2>2, <3>2, <4>1
    <3>4. CASE mounted # m
      <4>1. Pending(eng'[mounted]) = Pending(eng[mounted])
        BY <3>1, <3>4 DEF Pending
      <4>2. h.ev \in Local
        BY <1>2, <1>4, <1>7, <3>4, SessionAssumption DEF Fit, Place, Unborn
      <4> QED
        BY <2>2, <2>8, <3>2, <3>4, <4>1, <4>2
    <3> QED
      BY <3>3, <3>4
  <2> QED
    BY <1>1, <2>4, <2>5, <2>6, <2>7, <2>9, <2>10, JobMoves DEF SInv, TypeOK, Board
<1> QED
  BY <1>6, <1>7

\* The write returns: what it wrote is shown, or its edit came too early.
LEMMA JobReturnsKeeps == ASSUME SInv, NEW m \in Mount, JobReturns(m) PROVE SInv'
<1> DEFINE j == eng[m].job
           current == j.ok /\ j.gen = eng[m].gen
           p == IF current THEN eng[m].processed \union {j.ev} ELSE eng[m].processed
           e == [eng[m] EXCEPT !.job = NoJob, !.processed = p]
<1>1. /\ j # NoJob /\ UNCHANGED <<durable, origin, mounted, zombies, misrouted, late, failures>>
      /\ board' = IF ~current \/ mounted # m THEN board
                  ELSE [board EXCEPT !.shown = @ \union {j.ev},
                                     !.since = IF board.seeding THEN @ \union {j.ev} ELSE @]
      /\ early' = IF j.gen = 0 /\ eng[m].gen = 1 THEN early \union {j.ev} ELSE early
  BY DEF JobReturns
<1>2. /\ eng[m] \in EngineType /\ Fit(eng[m]) /\ Place(m, eng[m].pc) /\ eng[m].gen \in 0 .. 2
      /\ j \in Job
  BY <1>1, AtEngine DEF EngineType, Job
<1>2a. /\ j.ev \in TaskEvents /\ j.gen \in 0 .. 2 /\ j.gen <= eng[m].gen
       /\ j.gen = 0 => j.ev \in Local
  BY <1>1, <1>2 DEF Fit, Job
<1>3. Set(m, e)
  BY <1>2 DEF JobReturns, EngineType
<1>4. p \subseteq TaskEvents
  BY <1>2, <1>2a DEF EngineType
<1> HIDE DEF p
<1>5. e \in EngineType
  BY <1>2, <1>4 DEF EngineType
<1>6. /\ e.pc = eng[m].pc /\ e.gen = eng[m].gen /\ e.timer = eng[m].timer
      /\ e.fetch = eng[m].fetch /\ e.sub = eng[m].sub /\ e.drains = eng[m].drains
      /\ e.queue = eng[m].queue /\ e.job = NoJob /\ e.bc = eng[m].bc
      /\ e.origin = eng[m].origin /\ e.loaded = eng[m].loaded
  BY <1>2 DEF EngineType
<1> HIDE DEF e
<1>7. Fit(e)
  BY <1>2, <1>6 DEF Fit
<1>8. board \in Board
  BY DEF SInv, TypeOK, Board
<1> HIDE DEF j
<1>9. /\ board' \in Board /\ board'.seeding = board.seeding /\ board'.blind = board.blind
      /\ Seen(board) \subseteq Seen(board')
      /\ current /\ mounted = m => j.ev \in Seen(board')
  <2>1. CASE ~current \/ mounted # m
    BY <1>1, <1>8, <2>1
  <2>2. CASE current /\ mounted = m
    <3> DEFINE s == IF board.seeding THEN board.since \union {j.ev} ELSE board.since
               n == [board EXCEPT !.shown = board.shown \union {j.ev}, !.since = s]
    <3>1. board' = n
      BY <1>1, <1>8, <2>2 DEF Board
    <3>2. s \subseteq TaskEvents
      BY <1>2a, <1>8 DEF Board
    <3>3. /\ board.since \subseteq s /\ (board.seeding => j.ev \in s)
      OBVIOUS
    <3> HIDE DEF s
    <3>4. n \in Board
      BY <1>2a, <1>8, <3>2 DEF Board
    <3>5. /\ n.seeding = board.seeding /\ n.blind = board.blind /\ n.read = board.read
          /\ n.since = s /\ n.shown = board.shown \union {j.ev}
      BY <1>8 DEF Board
    <3> HIDE DEF n
    <3> QED
      BY <3>1, <3>3, <3>4, <3>5 DEF Seen
  <2> QED
    BY <2>1, <2>2
<1>10. early' \subseteq Local
  BY <1>1, <1>2a DEF SInv, TypeOK
<1>11. BoardSees'
  <2> SUFFICES ASSUME mounted # None, ~board.blind, zombies = {}
               PROVE log \subseteq Seen(board') \union Pending(eng'[mounted])
                                     \union early' \union late
    BY <1>1, <1>9 DEF durable, BoardSees, Seen
  <2>1. mounted \in Mount /\ eng' = [eng EXCEPT ![m] = e] /\ eng \in [Mount -> EngineType]
    BY <1>3 DEF Set, SInv, TypeOK
  <2>2. log \subseteq Seen(board) \union Pending(eng[mounted]) \union early' \union late
    BY <1>1 DEF SInv, BoardSees
  <2>3. CASE mounted # m
    <3>1. Pending(eng'[mounted]) = Pending(eng[mounted])
      BY <2>1, <2>3 DEF Pending
    <3> QED
      BY <1>9, <2>2, <3>1
  <2>4. CASE mounted = m
    <3>1. Pending(eng[m]) = IF j.ok THEN {j.ev} ELSE {}
      BY DEF Pending, j
    <3>2. j.ok /\ ~current => j.ev \in early'
      <4>1. eng[m].gen \in {0, 1}
        <5>1. eng[m].pc \in Unborn \union Running \union {"load", "logs"}
          BY <1>2, <2>4 DEF EngineType, Place, Unborn, Running
        <5> QED
          BY <1>2, <5>1 DEF Fit
      <4> QED
        BY <1>1, <1>2a, <4>1
    <3> QED
      BY <1>9, <2>2, <2>4, <3>1, <3>2
  <2> QED
    BY <2>3, <2>4
<1> QED
  BY <1>1, <1>3, <1>5, <1>6, <1>7, <1>9, <1>10, <1>11, JobMoves DEF durable, SInv, TypeOK

----------------------------------------------------------------------------
(* The invariant, and what follows. *)

LEMMA InitHolds == Init => SInv
<1> SUFFICES ASSUME Init PROVE SInv
  OBVIOUS
<1>1. /\ log \subseteq Snap /\ mark \in BOOLEAN \union {None}
      /\ consumed = {} /\ origin = None /\ mounted = None /\ board = NoBoard
      /\ eng = [m \in Mount |-> NewEngine]
      /\ zombies = {} /\ misrouted = FALSE /\ early = {} /\ late = {}
  BY DEF Init
<1>1a. failures \in 0 .. MaxFailures
  BY SessionAssumption DEF Init
<1>2. /\ NewEngine \in EngineType /\ Fit(NewEngine) /\ NewEngine.pc = "none"
  <2>1. /\ <<>> \in Seq([ev : TaskEvents, gen : {0, 1, None}]) /\ <<>> \in Seq(Entry)
        /\ <<>> \in Seq(Edit)
    OBVIOUS
  <2>2. NewEngine \in EngineType
    BY <2>1 DEF NewEngine, EngineType
  <2>3. /\ NewEngine.pc = "none" /\ NewEngine.gen = 0 /\ NewEngine.timer = "off"
        /\ NewEngine.fetch = "off" /\ NewEngine.sub = FALSE /\ NewEngine.drains = 0
        /\ NewEngine.queue = <<>> /\ NewEngine.job = NoJob
    BY DEF NewEngine
  <2> QED
    BY <2>1, <2>2, <2>3 DEF Fit, Running, Cutover, Unborn
<1>3. NoBoard \in Board
  BY DEF NoBoard, Board
<1> HIDE DEF NewEngine, NoBoard
<1>4. TypeOK
  BY <1>1, <1>1a, <1>2, <1>3 DEF TypeOK, Board, TaskEvents
<1>5. Fits
  BY <1>1, <1>2, SessionAssumption DEF Fits, Place
<1>6. MarkIsKnown /\ BoardSees
  BY <1>1, SessionAssumption DEF MarkIsKnown, BoardSees
<1> QED
  BY <1>4, <1>5, <1>6 DEF SInv

LEMMA StutterKeeps == ASSUME SInv, UNCHANGED vars PROVE SInv'
<1>1. UNCHANGED <<log, mark, consumed, origin, mounted, board, eng, zombies, misrouted, early, late,
                  failures>>
  BY DEF vars, durable, history
<1>2. TypeOK' /\ Fits' /\ MarkIsKnown' /\ BoardSees'
  BY <1>1 DEF SInv, TypeOK, Fits, Place, MarkIsKnown, BoardSees
<1> QED
  BY <1>2 DEF SInv

LEMMA EngineKeeps == ASSUME SInv, NEW m \in Mount, Engine(m) PROVE SInv'
<1>1. CASE Seeded(m) \/ SeedFails(m) \/ SeedCancelled(m) \/ Loaded(m) \/ LogsLoaded(m)
  BY <1>1, SeededKeeps, SeedFailsKeeps, SeedCancelledKeeps, LoadedKeeps, LogsLoadedKeeps
<1>2. CASE \/ Joined(m) \/ BootstrapAnswers(m) \/ BootstrapFeeds(m) \/ BootstrapDone(m)
           \/ BootstrapThrows(m) \/ TJoin(m)
  BY <1>2, JoinedKeeps, BootstrapAnswersKeeps, BootstrapFeedsKeeps, BootstrapDoneKeeps,
     BootstrapThrowsKeeps, TJoinKeeps
<1>3. CASE Recovered(m) \/ OpenLive(m) \/ CatchUp(m) \/ CatchUpThrows(m) \/ DrainNext(m)
  BY <1>3, RecoveredKeeps, OpenLiveKeeps, CatchUpKeeps, CatchUpThrowsKeeps, DrainNextKeeps
<1>4. CASE BufferLive(m) \/ DrainBuffered(m) \/ GoLive(m) \/ Resave(m)
  BY <1>4, BufferLiveKeeps, DrainBufferedKeeps, GoLiveKeeps, ResaveKeeps
<1>5. CASE StartJob(m) \/ JobReturns(m)
  BY <1>5, StartJobKeeps, JobReturnsKeeps
<1> QED
  BY <1>1, <1>2, <1>3, <1>4, <1>5 DEF Engine

LEMMA StepKeeps == SInv /\ [Next]_vars => SInv'
<1> SUFFICES ASSUME SInv, [Next]_vars PROVE SInv'
  OBVIOUS
<1>1. CASE ResolveOrigin
  BY <1>1, ResolveOriginKeeps
<1>2. CASE Unmount
  BY <1>2, UnmountKeeps
<1>3. CASE \E m \in Mount : MountBoard(m) \/ Engine(m) \/ \E s \in Sent : Deliver(m, s)
  BY <1>3, MountBoardKeeps, EngineKeeps, DeliverKeeps
<1>4. CASE \E l \in Local : Dispatch(l)
  BY <1>4, DispatchKeeps
<1>5. CASE UNCHANGED vars
  BY <1>5, StutterKeeps
<1> QED
  BY <1>1, <1>2, <1>3, <1>4, <1>5 DEF Next

LEMMA Invariance == Spec => []SInv
  BY InitHolds, StepKeeps, PTL DEF Spec

\* Every variable keeps its type.
THEOREM TypeCorrect == Spec => []TypeOK
<1>1. SInv => TypeOK
  BY DEF SInv
<1> QED
  BY <1>1, Invariance, PTL

\* A board that has been seeded shows what the accepted log holds, but for what its
\* engine is about to emit, whatever was written while the board read the log
\* (rebuildFromPersistence and boot() of react-engine-hooks.ts).
THEOREM SeededBoardIsWhole == Spec => []BoardIsWhole
<1>1. SInv => BoardIsWhole
  BY DEF SInv, BoardSees, Seen, Pending, BoardIsWhole
<1> QED
  BY <1>1, Invariance, PTL

\* However often the board is mounted anew, each engine drains the history once, and
\* one engine at most listens to the group (receive-engine.ts 1264-1280).
THEOREM DrainsOnce == Spec => []OneDrain
<1>1. SInv => OneDrain
  <2> SUFFICES ASSUME SInv PROVE OneDrain
    OBVIOUS
  <2>1. \A m \in Mount : eng[m].drains <= 1
    BY DEF SInv, Fits, Fit
  <2>2. ASSUME zombies = {} PROVE Cardinality({m \in Mount : eng[m].sub}) <= 1
    <3> DEFINE S == {m \in Mount : eng[m].sub}
    <3>1. \A m \in S : m = mounted
      BY <2>2 DEF SInv, Fits, Fit, Place, Cutover
    <3>2. S \subseteq {mounted}
      BY <3>1
    <3> HIDE DEF S
    <3>3. IsFiniteSet({mounted}) /\ Cardinality({mounted}) = 1
      BY FS_Singleton
    <3>4. Cardinality(S) <= Cardinality({mounted})
      BY <3>2, <3>3, FS_Subset
    <3> QED
      BY <3>3, <3>4 DEF S
  <2> QED
    BY <2>1, <2>2 DEF OneDrain
<1> QED
  BY <1>1, Invariance, PTL

\* Nothing but StartJob writes a task event, and then for the board that is there,
\* unless it is an edit.
LEMMA StartJobOwns ==
  ASSUME SInv, NEW m \in Mount, StartJob(m), NEW ev \in log' \ log
  PROVE ev \in Local \/ (m \in zombies \union {mounted} /\ eng'[m].job.ev = ev)
<1> DEFINE h == Head(eng[m].queue)
           rest == Tail(eng[m].queue)
<1>1. eng[m].queue # <<>> /\ h.gen \in {None, eng[m].gen} /\ Writes(m, h.ev, rest)
  BY DEF StartJob
<1>2. eng[m] \in EngineType /\ Fit(eng[m]) /\ Place(m, eng[m].pc)
  BY AtEngine
<1>3. h \in Entry
  BY <1>1, <1>2, HeadTailProperties DEF Fit
<1>4. h.ev \in Local \/ h.gen = 1
  BY <1>3 DEF Entry, Edit
<1> HIDE DEF h, rest
<1> DEFINE j == [ev |-> h.ev, gen |-> eng[m].gen, ok |-> TRUE]
           e == [eng[m] EXCEPT !.queue = rest, !.job = j]
<1>5. ev = h.ev /\ Set(m, e)
  BY <1>1 DEF Writes
<1>6. eng'[m].job.ev = ev
  <2>1. eng'[m] = e
    BY <1>5 DEF Set, SInv, TypeOK
  <2>2. e.job = j
    BY <1>2 DEF EngineType
  <2> QED
    BY <1>5, <2>1, <2>2
<1>7. ASSUME h.gen = 1 PROVE m \in zombies \union {mounted}
  BY <1>1, <1>2, <1>7, SessionAssumption DEF Fit, Place, Unborn
<1> QED
  BY <1>4, <1>5, <1>6, <1>7

LEMMA EngineWrites ==
  ASSUME NEW m \in Mount, Engine(m)
  PROVE StartJob(m) \/ UNCHANGED log
<1>1. CASE Seeded(m) \/ SeedFails(m) \/ SeedCancelled(m) \/ Loaded(m) \/ LogsLoaded(m)
  BY <1>1 DEF Seeded, SeedFails, SeedCancelled, Loaded, LogsLoaded, durable
<1>2. CASE \/ Joined(m) \/ BootstrapAnswers(m) \/ BootstrapFeeds(m) \/ BootstrapDone(m)
           \/ BootstrapThrows(m) \/ TJoin(m)
  BY <1>2 DEF Joined, BootstrapAnswers, BootstrapFeeds, BootstrapDone, BootstrapThrows, TJoin,
              durable
<1>3. CASE Recovered(m) \/ OpenLive(m) \/ CatchUp(m) \/ CatchUpThrows(m) \/ DrainNext(m)
  BY <1>3 DEF Recovered, OpenLive, CatchUp, CatchUpThrows, DrainNext, durable
<1>4. CASE BufferLive(m) \/ DrainBuffered(m) \/ GoLive(m) \/ Resave(m) \/ JobReturns(m)
  BY <1>4 DEF BufferLive, DrainBuffered, GoLive, Resave, JobReturns, durable
<1> QED
  BY <1>1, <1>2, <1>3, <1>4 DEF Engine

\* An engine that its board has left writes no signal to the accepted log any more,
\* but for the engine that stop() found before its lifecycle (receive-engine.ts 305-320).
THEOREM BoardlessEnginesAreSilent == Spec => OnlyOwnersWrite
<1> DEFINE Owned == \A e \in log' \ log :
                      \/ e \in Local
                      \/ \E m \in Mount \intersect (zombies \union {mounted}) : eng'[m].job.ev = e
<1>1. SInv /\ [Next]_vars => [Owned]_vars
  <2> SUFFICES ASSUME SInv, Next, NEW e \in log' \ log
               PROVE \/ e \in Local
                     \/ \E m \in Mount \intersect (zombies \union {mounted}) : eng'[m].job.ev = e
    OBVIOUS
  <2>1. ASSUME UNCHANGED log PROVE FALSE
    BY <2>1
  <2>2. PICK m \in Mount : Engine(m)
    BY <2>1 DEF Next, ResolveOrigin, Unmount, MountBoard, Deliver, Dispatch, durable
  <2>3. StartJob(m)
    BY <2>1, <2>2, EngineWrites
  <2> QED
    BY <2>3, StartJobOwns
<1> QED
  BY <1>1, Invariance, PTL DEF Spec, OnlyOwnersWrite

\* A mark is saved by an engine that has it.
LEMMA SavesTheMark ==
  ASSUME SInv, mark = TRUE, ~misrouted, zombies = {}, NEW m \in Mount, eng[m].pc \in Running,
         NEW b, Save(b), b \in {eng[m].bc, TRUE}
  PROVE mark' = TRUE
<1>1. mounted = m
  BY AtEngine DEF Place, Running
<1>2. eng[m].bc = TRUE
  BY <1>1, AtEngine DEF Knows
<1> QED
  BY <1>2 DEF Save

LEMMA StartKeepsMark ==
  ASSUME SInv, mark = TRUE, ~misrouted, zombies = {}, NEW m \in Mount,
         Seeded(m) \/ SeedFails(m) \/ SeedCancelled(m) \/ Loaded(m) \/ LogsLoaded(m)
  PROVE mark' = TRUE
<1>1. CASE Seeded(m) \/ SeedFails(m)
  <2>1. mounted = m /\ eng[m].pc = "seed"
    BY <1>1 DEF Seeded, SeedFails
  <2>2. eng[m].origin # "welcome"
    BY <2>1, AtEngine DEF Knows
  <2> QED
    BY <1>1, <2>2 DEF Seeded, SeedFails, Boot
<1>2. CASE SeedCancelled(m)
  BY <1>2 DEF SeedCancelled, durable
<1>3. CASE Loaded(m)
  <2>1. mounted = m /\ eng[m].loaded = TRUE
    BY <1>3, AtEngine DEF Loaded, Place, Knows
  <2> QED
    BY <1>3, <2>1 DEF Loaded, Recovering, Save
<1>4. CASE LogsLoaded(m)
  <2>1. mounted = m /\ eng[m].loaded = TRUE
    BY <1>4, AtEngine DEF LogsLoaded, Place, Knows
  <2> QED
    BY <1>4, <2>1 DEF LogsLoaded, Recovering, Save
<1> QED
  BY <1>1, <1>2, <1>3, <1>4

LEMMA RunKeepsMark ==
  ASSUME SInv, mark = TRUE, ~misrouted, zombies = {}, NEW m \in Mount, Engine(m),
         ~(Seeded(m) \/ SeedFails(m) \/ SeedCancelled(m) \/ Loaded(m) \/ LogsLoaded(m))
  PROVE mark' = TRUE
<1>0. eng[m] \in EngineType /\ Fit(eng[m])
  BY AtEngine
<1>1. CASE BootstrapDone(m)
  <2> DEFINE d == [eng[m] EXCEPT !.fetch = "over", !.bc = TRUE]
  <2>1. d.bc = TRUE /\ [d EXCEPT !.timer = "off"].bc = TRUE
    BY <1>0 DEF EngineType
  <2>2. Save(TRUE) /\ eng[m].fetch = "feeding"
    BY <1>1, <2>1 DEF BootstrapDone, CatchingUp
  <2> QED
    BY <1>0, <2>2, SavesTheMark DEF Fit
<1>2. CASE BootstrapThrows(m)
  <2> DEFINE d == [eng[m] EXCEPT !.fetch = "over"]
  <2>1. [d EXCEPT !.timer = "off"].bc = eng[m].bc
    BY <1>0 DEF EngineType
  <2>2. (Save(eng[m].bc) \/ mark' = mark) /\ eng[m].fetch = "asking"
    BY <1>2, <2>1 DEF BootstrapThrows, CatchingUp
  <2> QED
    BY <1>0, <2>2, SavesTheMark DEF Fit
<1>3. CASE TJoin(m)
  <2>1. [eng[m] EXCEPT !.timer = "fired"].bc = eng[m].bc
    BY <1>0 DEF EngineType
  <2>2. Save(eng[m].bc) /\ eng[m].pc \in Running
    BY <1>0, <1>3, <2>1 DEF TJoin, CatchingUp, Fit, Running
  <2> QED
    BY <2>2, SavesTheMark
<1>4. CASE Recovered(m)
  <2>1. [eng[m] EXCEPT !.processed = @ \union log].bc = eng[m].bc
    BY <1>0 DEF EngineType
  <2>2. Save(eng[m].bc) /\ eng[m].pc \in Running
    BY <1>4, <2>1 DEF Recovered, CatchingUp, Running
  <2> QED
    BY <2>2, SavesTheMark
<1>5. CASE BufferLive(m) \/ GoLive(m)
  <2>1. Save(eng[m].bc) /\ eng[m].pc \in Running
    BY <1>5 DEF BufferLive, GoLive, Running
  <2> QED
    BY <2>1, SavesTheMark
<1>6. CASE Resave(m)
  <2>1. Save(eng[m].bc) \/ mark' = eng[m].bc
    BY <1>6 DEF Resave
  <2>2. mounted = m /\ eng[m].pc \in Running
    BY <1>6, AtEngine DEF Resave, Place, Running
  <2> QED
    BY <1>6, <2>2, AtEngine DEF Resave, Knows
<1>7. CASE \/ Joined(m) \/ BootstrapAnswers(m) \/ BootstrapFeeds(m)
           \/ OpenLive(m) \/ CatchUp(m) \/ CatchUpThrows(m) \/ DrainNext(m) \/ DrainBuffered(m)
           \/ StartJob(m) \/ JobReturns(m)
  BY <1>7 DEF Joined, BootstrapAnswers, BootstrapFeeds, OpenLive, CatchUp, CatchUpThrows,
              DrainNext, DrainBuffered, StartJob, JobReturns, durable
<1> QED
  BY <1>1, <1>2, <1>3, <1>4, <1>5, <1>6, <1>7 DEF Engine

\* A bootstrap that is marked as completed stays so, unless the durable state of the
\* group could not be read, or by an engine that outlives its board (engine-types.ts 228).
THEOREM MarkStays == Spec => MarkIsKept
<1> DEFINE Kept == mark = TRUE => mark' = TRUE \/ misrouted \/ zombies # {}
<1>1. SInv /\ [Next]_vars => [Kept]_vars
  <2> SUFFICES ASSUME SInv, Next, mark = TRUE, ~misrouted, zombies = {} PROVE mark' = TRUE
    BY DEF SInv, TypeOK
  <2>1. CASE Unmount
    <3>1. mounted \in Mount /\ (Save(eng[mounted].bc) \/ UNCHANGED mark)
      BY <2>1 DEF Unmount, SInv, TypeOK
    <3>2. UNCHANGED mark \/ eng[mounted].pc \in Running
      <4>1. /\ eng[mounted].pc \notin {"none", "over"} /\ eng[mounted] \in EngineType
        BY <3>1, AtEngine DEF Place
      <4> QED
        BY <2>1, <4>1 DEF Unmount, EngineType, Running
    <3> QED
      BY <3>1, <3>2, SavesTheMark
  <2>2. CASE \E m \in Mount : Engine(m)
    BY <2>2, StartKeepsMark, RunKeepsMark
  <2>3. CASE \/ ResolveOrigin \/ \E l \in Local : Dispatch(l)
             \/ \E m \in Mount : MountBoard(m) \/ \E s \in Sent : Deliver(m, s)
    BY <2>3 DEF ResolveOrigin, Dispatch, MountBoard, Deliver, durable
  <2> QED
    BY <2>1, <2>2, <2>3 DEF Next
<1> QED
  BY <1>1, Invariance, PTL DEF Spec, MarkIsKept

=============================================================================
