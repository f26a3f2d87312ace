------------------------- MODULE ReceiveEngineProofs -------------------------
(* What TLAPS proves of ReceiveEngine, for every value of its constants.     *)
EXTENDS ReceiveEngine, FiniteSetTheorems, SequenceTheorems, TLAPS

USE DEF stores, group, memory, saving, pass, control, outputs, session, budget

----------------------------------------------------------------------------
(* Types of the operators the actions are built from. *)

\* Both continuations are workers.
LEMMA Workers == "chain" \in Worker /\ "cutover" \in Worker
BY DEF Worker

\* The raw log's next seq, and the seq appendFact returns, are naturals.
LEMMA NextSeqType == ASSUME TypeOK PROVE NextSeq \in Nat
<1>1. IsFiniteSet(Fact)
  BY SourceAssumption
<1>2. IsFiniteSet({f \in Fact : seqOf[f] # 0})
  BY <1>1, FS_Subset
<1> QED
  BY <1>2, FS_CardinalityType DEF NextSeq

LEMMA SeqType ==
  ASSUME TypeOK, NEW f \in Fact
  PROVE seqOf[f] \in Nat /\ SeqAfterAppend(f) \in Nat
BY NextSeqType DEF TypeOK, StoresTyped, SeqAfterAppend

\* An idle continuation still has a well-typed job.
LEMMA IdleJobType == IdleJob \in Job
BY SourceAssumption DEF IdleJob, Job, IngestKind

\* A continuation always holds an envelope or a local edit, and an envelope unless it
\* is an acceptLocal of the FIFO.
LEMMA JobSource == ASSUME TypeOK, NEW w \in Worker PROVE job[w].fact \in Source
BY DEF TypeOK, ControlTyped, Job, Source

LEMMA JobFact ==
  ASSUME TypeOK, NEW w \in Worker, job[w].kind # "local" \/ job[w].retry
  PROVE job[w].fact \in Fact
BY DEF TypeOK, ControlTyped, Job, IngestKind

\* The stores' operations and transitionTo keep the stores typed.
\* What the entries of the accepted log are.
LEMMA AcceptedTyped ==
  ASSUME TypeOK
  PROVE /\ Len(accepted) \in Nat /\ DOMAIN accepted = 1..Len(accepted)
        /\ \A i \in DOMAIN accepted : accepted[i].ev \in Event /\ accepted[i].fact \in Source
<1> DEFINE Entries == [ev : Event, fact : Source]
<1>1. accepted \in Seq(Entries)
  BY DEF TypeOK, StoresTyped
<1>2. \A e \in Entries : e.ev \in Event /\ e.fact \in Source
  OBVIOUS
<1> HIDE DEF Entries
<1>3. \A i \in 1..Len(accepted) : accepted[i] \in Entries
  BY <1>1, ElementOfSeq
<1> QED
  BY <1>1, <1>2, <1>3, LenProperties

LEMMA AppendFactTyped ==
  ASSUME TypeOK, NEW f \in Fact, AppendFact(f)
  PROVE seqOf' \in [Fact -> Nat]
BY SeqType DEF TypeOK, StoresTyped, AppendFact

LEMMA AppendAcceptedTyped ==
  ASSUME TypeOK, NEW s \in Source, AppendAcceptedEvent(s)
  PROVE accepted' \in Seq([ev : Event, fact : Source])
<1> DEFINE entry == [ev |-> EventOf[s], fact |-> s]
           Entries == [ev : Event, fact : Source]
<1>1. entry \in Entries
  BY SourceAssumption
<1>2. accepted \in Seq(Entries)
  BY DEF TypeOK, StoresTyped
<1>3. accepted' = accepted \/ accepted' = Append(accepted, entry)
  BY DEF AppendAcceptedEvent
<1> HIDE DEF entry, Entries
<1>4. Append(accepted, entry) \in Seq(Entries)
  BY <1>1, <1>2
<1>5. accepted' \in Seq(Entries)
  BY <1>2, <1>3, <1>4
<1> QED
  BY <1>5 DEF Entries

LEMMA TransitionTyped ==
  ASSUME TypeOK, NEW new, TransitionTo(new),
         lastIngestedSeq' \in Nat, bootstrapCompleted' \in BOOLEAN
  PROVE /\ checkpoint' \in Checkpoint \union {NoCheckpoint}
        /\ failures' \in Nat
        /\ lifecycle' = new
BY DEF TypeOK, StoresTyped, OutputsTyped, TransitionTo, Snapshot, Checkpoint, GiveUp

\* Moving, ending or saving in a continuation keeps the control state typed.
LEMMA AwaitTyped ==
  ASSUME TypeOK, NEW w \in Worker, NEW at \in PC, Await(w, at)
  PROVE pc' \in [Worker -> PC]
BY DEF TypeOK, ControlTyped, Await

LEMMA ReturnTyped ==
  ASSUME TypeOK, NEW w \in Worker, Return(w)
  PROVE pc' \in [Worker -> PC] /\ job' \in [Worker -> Job]
BY IdleJobType DEF TypeOK, ControlTyped, Return, Await, PC

LEMMA IssueSaveTyped ==
  ASSUME TypeOK, NEW w \in Worker, NEW at \in PC, IssueSave(w, at), deferred' \in SUBSET Fact
  PROVE /\ pc' \in [Worker -> PC]
        /\ ids' \in [Worker -> SUBSET Fact]
        /\ firstSave' \in Worker
<1>1. (CHOOSE v \in Worker : v # w) \in Worker
  BY DEF Worker
<1> QED
  BY <1>1 DEF TypeOK, ControlTyped, IssueSave, Await

\* The watermark stays a natural, and an emission is of an event.
LEMMA AdvanceWatermarkTyped ==
  ASSUME TypeOK, NEW seq \in Nat, AdvanceWatermark(seq)
  PROVE lastIngestedSeq' \in Nat
BY DEF TypeOK, MemoryTyped, AdvanceWatermark

LEMMA EmitAcceptedTyped ==
  ASSUME TypeOK, NEW s \in Source, EmitAccepted(s)
  PROVE /\ processed' \in SUBSET Event
        /\ projection' \in Seq(Event)
        /\ lastIngestedSeq' \in Nat
BY SourceAssumption, SeqType, AdvanceWatermarkTyped
   DEF TypeOK, MemoryTyped, OutputsTyped, EmitAccepted

\* Entering, leaving and nesting retry passes keeps the pass state typed.
LEMMA EnterPassTyped ==
  ASSUME TypeOK, NEW w \in Worker, NEW outer \in Seq(Frame), EnterPass(w, outer)
  PROVE /\ pc' \in [Worker -> PC]
        /\ entered' \in [Worker -> BOOLEAN]
        /\ frames' \in [Worker -> Seq(Frame)]
BY DEF TypeOK, ControlTyped, PassTyped, EnterPass, Await, PC

LEMMA LeavePassTyped ==
  ASSUME TypeOK, NEW w \in Worker, LeavePass(w)
  PROVE /\ pc' \in [Worker -> PC]
        /\ stream' \in [Worker -> Seq(IngestSignal)]
        /\ entered' \in [Worker -> BOOLEAN]
        /\ frames' \in [Worker -> Seq(Frame)]
<1>1. CASE frames[w] = <<>>
  BY <1>1, AwaitTyped DEF LeavePass, TypeOK, PassTyped, PC
<1>2. CASE frames[w] # <<>>
  <2>1. Head(frames[w]) \in Frame /\ Tail(frames[w]) \in Seq(Frame)
    BY <1>2 DEF TypeOK, PassTyped
  <2>2. Head(frames[w]).stream \in Seq(IngestSignal) /\ Head(frames[w]).entered \in BOOLEAN
    BY <2>1 DEF Frame
  <2> QED
    BY <1>2, <2>1, <2>2, AwaitTyped DEF LeavePass, TypeOK, PassTyped, PC
<1> QED
  BY <1>1, <1>2

LEMMA HandleEpochAdvancedTyped ==
  ASSUME TypeOK, NEW w \in Worker, NEW outer \in Seq(Frame), HandleEpochAdvanced(w, outer)
  PROVE /\ pc' \in [Worker -> PC]
        /\ entered' \in [Worker -> BOOLEAN]
        /\ frames' \in [Worker -> Seq(Frame)]
        /\ pendingDeferredRetry' \in BOOLEAN
<1>1. pendingDeferredRetry' \in BOOLEAN
  BY DEF TypeOK, MemoryTyped, HandleEpochAdvanced
<1>2. CASE EnterPass(w, outer)
  BY <1>1, <1>2, EnterPassTyped
<1>3. CASE UNCHANGED <<pc, entered, frames>>
  BY <1>1, <1>3 DEF TypeOK, ControlTyped, PassTyped
<1> QED
  BY <1>2, <1>3 DEF HandleEpochAdvanced

\* The adapter yields a well-typed signal.
LEMMA IngestTyped ==
  ASSUME TypeOK, NEW f \in Fact, Ingest(f)
  PROVE consumed' \in SUBSET Fact /\ epoch' \in Nat /\ Ingested(f) \in IngestSignal
BY DEF TypeOK, GroupTyped, Ingest, Ingested, Classify, Content, IngestSignal, IngestKind

\* What follows a handler's saveDeferredIds, whether or not it landed.
LEMMA AfterSaveTyped ==
  ASSUME TypeOK, NEW w \in Worker, pc[w] = "save", NEW landed \in BOOLEAN,
         job[w].kind # "local" \/ job[w].retry,
         AfterSave(w, landed)
  PROVE /\ MemoryTyped' /\ PassTyped' /\ GroupTyped'
        /\ pc' \in [Worker -> PC] /\ job' \in [Worker -> Job]
        /\ serialQueue' \in Seq(Signal) /\ liveBuffer' \in Seq(IngestSignal)
        /\ projection' \in Seq(Event) /\ rejected' \in SUBSET (Source \X Reason)
        /\ evicted' \in SUBSET Fact /\ interrupted' \in SUBSET Fact
        /\ orphaned' \in SUBSET Fact /\ inFetch' \in BOOLEAN /\ restarts' \in Nat
<1>1. job[w].fact \in Fact /\ job[w].fact \in Source
  BY JobFact, JobSource
<1>2. /\ processed' \in SUBSET Event /\ projection' \in Seq(Event) /\ lastIngestedSeq' \in Nat
  BY <1>1, EmitAcceptedTyped, AdvanceWatermarkTyped, SeqType
     DEF AfterSave, NothingAccepted, TypeOK, MemoryTyped, OutputsTyped
<1>3. rejected' \in SUBSET (Source \X Reason)
  BY <1>1 DEF AfterSave, TypeOK, OutputsTyped, Reason
<1>4. MemoryTyped'
  BY <1>2 DEF AfterSave, TypeOK, MemoryTyped
<1>5. pc' \in [Worker -> PC] /\ job' \in [Worker -> Job]
  BY ReturnTyped DEF AfterSave
<1>6. PassTyped' /\ GroupTyped'
  BY DEF AfterSave, TypeOK, PassTyped, GroupTyped
<1> QED
  BY <1>2, <1>3, <1>4, <1>5, <1>6 DEF AfterSave, TypeOK, ControlTyped, OutputsTyped

\* A crash or stop resets the memory to well-typed values.
LEMMA LoseMemoryTyped ==
  ASSUME TypeOK, LoseMemory
  PROVE MemoryTyped' /\ ControlTyped' /\ PassTyped' /\ OutputsTyped' /\ UNCHANGED group
<1>1. Unresolved \in SUBSET Fact
  BY DEF MemoryTyped, TypeOK, GroupTyped, PassTyped, Unresolved, Task
<1>2. MemoryTyped'
  BY DEF LoseMemory, MemoryTyped, Lifecycle
<1>3. ControlTyped'
  <2>1. serialQueue' \in Seq(Signal) /\ liveBuffer' \in Seq(IngestSignal)
    BY DEF LoseMemory
  <2> QED
    BY <2>1, IdleJobType DEF LoseMemory, ControlTyped, PC, Worker
<1>4. PassTyped'
  <2>1. <<>> \in Seq(IngestSignal) /\ <<>> \in Seq(Frame)
    OBVIOUS
  <2> QED
    BY <2>1 DEF LoseMemory, PassTyped
<1>5. OutputsTyped'
  <2>1. /\ interrupted' = interrupted \union Unresolved /\ inFetch' = FALSE
        /\ restarts' = restarts + 1
        /\ UNCHANGED <<projection, rejected, evicted, orphaned, failures>>
    BY DEF LoseMemory
  <2>2. OutputsTyped
    BY DEF TypeOK
  <2>3. interrupted' \in SUBSET Fact /\ restarts' \in Nat
    BY <1>1, <2>1, <2>2 DEF OutputsTyped
  <2> QED
    BY <2>1, <2>2, <2>3 DEF OutputsTyped
<1> QED
  BY <1>2, <1>3, <1>4, <1>5 DEF LoseMemory

----------------------------------------------------------------------------
(* Each action keeps every variable in its type. *)

LEMMA StartJobTyped == ASSUME TypeOK, StartJob PROVE TypeOK'
<1> DEFINE s == Head(serialQueue)
<1>1. s \in Signal /\ serialQueue' \in Seq(Signal)
  BY DEF TypeOK, ControlTyped, StartJob
<1>2. s.fact \in Source /\ [kind |-> s.kind, fact |-> s.fact, retry |-> FALSE] \in Job
  <2>1. CASE s \in IngestSignal
    BY <2>1 DEF IngestSignal, Job, Source
  <2>2. CASE s \in [kind : {"local"}, fact : Local]
    BY <2>2 DEF Job, Source
  <2> QED
    BY <1>1, <2>1, <2>2 DEF Signal
<1> HIDE DEF s
<1>3. /\ pc' \in [Worker -> PC] /\ job' \in [Worker -> Job]
      /\ pendingDeferredRetry' \in BOOLEAN
      /\ entered' \in [Worker -> BOOLEAN] /\ frames' \in [Worker -> Seq(Frame)]
  <2>1. CASE HandleEpochAdvanced("chain", <<>>) /\ UNCHANGED job
    <3>1. <<>> \in Seq(Frame)
      OBVIOUS
    <3> QED
      BY <2>1, <3>1, Workers, HandleEpochAdvancedTyped DEF TypeOK, ControlTyped
  <2>2. CASE UNCHANGED <<pc, job, pendingDeferredRetry, entered, frames>>
    BY <2>2 DEF TypeOK, MemoryTyped, ControlTyped, PassTyped
  <2>3. CASE /\ Await("chain", "append") \/ Await("chain", "accept")
             /\ job' = [job EXCEPT !["chain"] =
                          [kind |-> s.kind, fact |-> s.fact, retry |-> FALSE]]
             /\ UNCHANGED <<pendingDeferredRetry, entered, frames>>
    BY <1>2, <2>3, Workers, AwaitTyped DEF TypeOK, MemoryTyped, ControlTyped, PassTyped, PC
  <2> QED
    BY <2>1, <2>2, <2>3 DEF StartJob, s
<1>4. StoresTyped' /\ GroupTyped' /\ OutputsTyped'
  BY DEF TypeOK, StoresTyped, GroupTyped, OutputsTyped, StartJob
<1>5. MemoryTyped' /\ ControlTyped' /\ PassTyped'
  BY <1>1, <1>3 DEF TypeOK, MemoryTyped, ControlTyped, PassTyped, StartJob
<1> QED
  BY <1>4, <1>5 DEF TypeOK

LEMMA StartTyped == ASSUME TypeOK, Start PROVE TypeOK'
<1>1. lastIngestedSeq' \in Nat /\ bootstrapCompleted' \in BOOLEAN
  <2>1. RestoredWatermark \in Nat
    BY DEF TypeOK, StoresTyped, RestoredWatermark, Checkpoint
  <2>2. CASE lastIngestedSeq' = RestoredWatermark /\ bootstrapCompleted' = TRUE
    BY <2>1, <2>2
  <2>3. CASE lastIngestedSeq' = 0 /\ bootstrapCompleted' = FALSE
    BY <2>3
  <2> QED
    BY <2>2, <2>3 DEF Start
<1>2. /\ checkpoint' \in Checkpoint \union {NoCheckpoint}
      /\ failures' \in Nat /\ lifecycle' \in Lifecycle
  BY <1>1, TransitionTyped DEF Start, Lifecycle
<1>3. projection' \in Seq(Event)
  <2>1. /\ Len(accepted) \in Nat /\ DOMAIN accepted = 1..Len(accepted)
        /\ \A i \in 1..Len(accepted) : accepted[i].ev \in Event
    BY AcceptedTyped
  <2>2. projection' \in [1..Len(accepted) -> Event]
    BY <2>1 DEF Start
  <2> QED
    BY <2>1, <2>2, SeqDef
<1>4. pc' \in [Worker -> PC]
  BY Workers, AwaitTyped DEF Start, PC
<1>5. StoresTyped' /\ MemoryTyped' /\ OutputsTyped'
  BY <1>1, <1>2, <1>3 DEF TypeOK, StoresTyped, MemoryTyped, OutputsTyped, Start
<1>6. ControlTyped' /\ GroupTyped' /\ PassTyped'
  BY <1>4 DEF TypeOK, ControlTyped, GroupTyped, PassTyped, Start
<1> QED
  BY <1>5, <1>6 DEF TypeOK

LEMMA RebuildTyped == ASSUME TypeOK, Rebuild PROVE TypeOK'
<1>1. MemoryTyped'
  <2>1. AcceptedEvents \in SUBSET Event
    BY AcceptedTyped DEF AcceptedEvents
  <2> QED
    BY <2>1 DEF TypeOK, MemoryTyped, StoresTyped, Rebuild
<1>2. StoresTyped'
  BY DEF TypeOK, StoresTyped, Rebuild, GiveUp
<1>3. ControlTyped'
  BY Workers, AwaitTyped DEF TypeOK, ControlTyped, Rebuild, PC
<1>4. PassTyped'
  BY DEF TypeOK, PassTyped, Rebuild, GiveUp
<1>5. GroupTyped' /\ OutputsTyped'
  BY DEF TypeOK, GroupTyped, OutputsTyped, Rebuild, GiveUp
<1> QED
  BY <1>1, <1>2, <1>3, <1>4, <1>5 DEF TypeOK

LEMMA DrainNextTyped == ASSUME TypeOK, DrainNext PROVE TypeOK'
<1>1. Head(stream["cutover"]) \in Signal /\ Tail(stream["cutover"]) \in Seq(IngestSignal)
  BY Workers DEF TypeOK, PassTyped, DrainNext, Signal
<1>2. ControlTyped'
  BY <1>1 DEF TypeOK, ControlTyped, DrainNext
<1>3. PassTyped'
  BY <1>1 DEF TypeOK, PassTyped, DrainNext
<1>4. MemoryTyped' /\ StoresTyped' /\ GroupTyped' /\ OutputsTyped'
  BY DEF TypeOK, MemoryTyped, StoresTyped, GroupTyped, OutputsTyped, DrainNext
<1> QED
  BY <1>2, <1>3, <1>4 DEF TypeOK

LEMMA EnterCatchingUpTyped == ASSUME TypeOK, EnterCatchingUp PROVE TypeOK'
<1>1. MemoryTyped'
  BY TransitionTyped DEF TypeOK, MemoryTyped, EnterCatchingUp, Lifecycle
<1>2. StoresTyped'
  BY TransitionTyped, <1>1 DEF TypeOK, StoresTyped, EnterCatchingUp, MemoryTyped
<1>3. ControlTyped'
  BY Workers, AwaitTyped DEF TypeOK, ControlTyped, EnterCatchingUp, PC
<1>4. OutputsTyped'
  BY TransitionTyped, <1>1 DEF TypeOK, OutputsTyped, EnterCatchingUp, MemoryTyped
<1>5. GroupTyped' /\ PassTyped'
  BY DEF TypeOK, GroupTyped, PassTyped, EnterCatchingUp
<1> QED
  BY <1>1, <1>2, <1>3, <1>4, <1>5 DEF TypeOK

LEMMA CatchUpTyped == ASSUME TypeOK, CatchUp PROVE TypeOK'
<1>1. GroupTyped'
  BY DEF TypeOK, GroupTyped, CatchUp
<1>2. ControlTyped'
  BY Workers, AwaitTyped DEF TypeOK, ControlTyped, CatchUp, PC
<1>3. PassTyped'
  BY DEF TypeOK, PassTyped, CatchUp
<1>4. MemoryTyped' /\ StoresTyped' /\ OutputsTyped'
  BY DEF TypeOK, MemoryTyped, StoresTyped, OutputsTyped, CatchUp
<1> QED
  BY <1>1, <1>2, <1>3, <1>4 DEF TypeOK

LEMMA EnterBufferingLiveTyped == ASSUME TypeOK, EnterBufferingLive PROVE TypeOK'
<1>1. MemoryTyped'
  BY TransitionTyped DEF TypeOK, MemoryTyped, EnterBufferingLive, Lifecycle
<1>2. StoresTyped'
  BY TransitionTyped, <1>1 DEF TypeOK, StoresTyped, EnterBufferingLive, MemoryTyped
<1>3. ControlTyped'
  BY Workers, AwaitTyped DEF TypeOK, ControlTyped, EnterBufferingLive, PC
<1>4. OutputsTyped'
  BY TransitionTyped, <1>1 DEF TypeOK, OutputsTyped, EnterBufferingLive, MemoryTyped
<1>5. GroupTyped' /\ PassTyped'
  BY DEF TypeOK, GroupTyped, PassTyped, EnterBufferingLive
<1> QED
  BY <1>1, <1>2, <1>3, <1>4, <1>5 DEF TypeOK

LEMMA DrainBufferedTyped == ASSUME TypeOK, DrainBuffered PROVE TypeOK'
<1>1. Head(liveBuffer) \in Signal /\ Tail(liveBuffer) \in Seq(IngestSignal)
  BY DEF TypeOK, ControlTyped, DrainBuffered, Signal
<1>2. ControlTyped'
  BY <1>1 DEF TypeOK, ControlTyped, DrainBuffered
<1>3. MemoryTyped' /\ StoresTyped' /\ GroupTyped' /\ PassTyped' /\ OutputsTyped'
  BY DEF TypeOK, MemoryTyped, StoresTyped, GroupTyped, PassTyped, OutputsTyped,
     DrainBuffered
<1> QED
  BY <1>2, <1>3 DEF TypeOK

LEMMA EnterLiveTyped == ASSUME TypeOK, EnterLive PROVE TypeOK'
<1>1. MemoryTyped'
  BY TransitionTyped DEF TypeOK, MemoryTyped, EnterLive, Lifecycle
<1>2. StoresTyped'
  BY TransitionTyped, <1>1 DEF TypeOK, StoresTyped, EnterLive, MemoryTyped
<1>3. ControlTyped'
  BY Workers, AwaitTyped DEF TypeOK, ControlTyped, EnterLive, PC
<1>4. OutputsTyped'
  BY TransitionTyped, <1>1 DEF TypeOK, OutputsTyped, EnterLive, MemoryTyped
<1>5. GroupTyped' /\ PassTyped'
  BY DEF TypeOK, GroupTyped, PassTyped, EnterLive
<1> QED
  BY <1>1, <1>2, <1>3, <1>4, <1>5 DEF TypeOK

LEMMA ConsumeLatchTyped == ASSUME TypeOK, ConsumeLatch PROVE TypeOK'
<1>1. <<>> \in Seq(Frame)
  OBVIOUS
<1>2. MemoryTyped'
  BY <1>1 DEF TypeOK, MemoryTyped, ConsumeLatch
<1>3. ControlTyped'
  BY <1>1, Workers, AwaitTyped, EnterPassTyped DEF TypeOK, ControlTyped, ConsumeLatch, PC
<1>4. PassTyped'
  BY <1>1, Workers, EnterPassTyped DEF TypeOK, PassTyped, ConsumeLatch
<1>5. StoresTyped' /\ GroupTyped' /\ OutputsTyped'
  BY DEF TypeOK, StoresTyped, GroupTyped, OutputsTyped, ConsumeLatch
<1> QED
  BY <1>2, <1>3, <1>4, <1>5 DEF TypeOK

LEMMA SaveCheckpointTyped == ASSUME TypeOK, SaveCheckpoint PROVE TypeOK'
<1>1. StoresTyped'
  BY DEF TypeOK, StoresTyped, MemoryTyped, SaveCheckpoint, Snapshot, Checkpoint
<1>2. MemoryTyped' /\ GroupTyped' /\ ControlTyped' /\ PassTyped' /\ OutputsTyped'
  BY DEF TypeOK, MemoryTyped, GroupTyped, ControlTyped, PassTyped, OutputsTyped,
     SaveCheckpoint
<1> QED
  BY <1>1, <1>2 DEF TypeOK

LEMMA LateBootstrapTyped == ASSUME TypeOK, LateBootstrap PROVE TypeOK'
<1>1. MemoryTyped'
  BY TransitionTyped DEF TypeOK, MemoryTyped, LateBootstrap, Lifecycle
<1>2. StoresTyped'
  BY TransitionTyped, <1>1 DEF TypeOK, StoresTyped, LateBootstrap, MemoryTyped
<1>3. OutputsTyped'
  BY TransitionTyped, <1>1 DEF TypeOK, OutputsTyped, LateBootstrap, MemoryTyped
<1>4. GroupTyped' /\ ControlTyped' /\ PassTyped'
  BY DEF TypeOK, GroupTyped, ControlTyped, PassTyped, LateBootstrap
<1> QED
  BY <1>1, <1>2, <1>3, <1>4 DEF TypeOK

LEMMA DeliverLiveTyped ==
  ASSUME TypeOK, NEW f \in Fact, DeliverLive(f)
  PROVE TypeOK'
<1>1. GroupTyped'
  BY IngestTyped DEF TypeOK, GroupTyped, DeliverLive, Source
<1>2. ControlTyped'
  <2>1. Ingested(f) \in IngestSignal /\ Ingested(f) \in Signal
    BY IngestTyped DEF DeliverLive, Signal
  <2>2. serialQueue \in Seq(Signal) /\ liveBuffer \in Seq(IngestSignal)
    BY DEF TypeOK, ControlTyped
  <2>3. /\ Append(serialQueue, Ingested(f)) \in Seq(Signal)
        /\ Append(liveBuffer, Ingested(f)) \in Seq(IngestSignal)
    BY <2>1, <2>2, AppendProperties
  <2>4. serialQueue' \in Seq(Signal) /\ liveBuffer' \in Seq(IngestSignal)
    BY <2>2, <2>3 DEF DeliverLive
  <2> QED
    BY <2>4 DEF TypeOK, ControlTyped, DeliverLive
<1>3. PassTyped'
  BY IngestTyped DEF TypeOK, PassTyped, DeliverLive
<1>4. MemoryTyped' /\ StoresTyped' /\ OutputsTyped'
  BY DEF TypeOK, MemoryTyped, StoresTyped, OutputsTyped, DeliverLive
<1> QED
  BY <1>1, <1>2, <1>3, <1>4 DEF TypeOK

LEMMA AcceptLocalTyped ==
  ASSUME TypeOK, NEW s \in Local, AcceptLocal(s)
  PROVE TypeOK'
<1>1. [kind |-> "local", fact |-> s] \in Signal
  BY DEF Signal
<1>2. GroupTyped'
  BY DEF TypeOK, GroupTyped, AcceptLocal, Source
<1>3. ControlTyped'
  BY <1>1 DEF TypeOK, ControlTyped, AcceptLocal
<1>4. MemoryTyped' /\ StoresTyped' /\ PassTyped' /\ OutputsTyped'
  BY DEF TypeOK, MemoryTyped, StoresTyped, PassTyped, OutputsTyped, AcceptLocal
<1> QED
  BY <1>2, <1>3, <1>4 DEF TypeOK

LEMMA HandleMessageTyped ==
  ASSUME TypeOK, NEW w \in Worker, HandleMessage(w)
  PROVE TypeOK'
<1>1. job[w].fact \in Fact
  BY JobFact DEF Handling, HandleMessage
<1>2. MemoryTyped'
  BY AdvanceWatermarkTyped, SeqType, <1>1 DEF TypeOK, MemoryTyped, HandleMessage, Handling
<1>3. StoresTyped'
  BY AppendFactTyped, <1>1 DEF TypeOK, StoresTyped, HandleMessage, Handling
<1>4. ControlTyped'
  BY AwaitTyped, ReturnTyped, IssueSaveTyped, <1>1, <1>2 DEF TypeOK, ControlTyped,
     HandleMessage, MemoryTyped, Handling, PC
<1>5. GroupTyped' /\ PassTyped' /\ OutputsTyped'
  BY DEF TypeOK, GroupTyped, PassTyped, OutputsTyped, HandleMessage
<1> QED
  BY <1>2, <1>3, <1>4, <1>5 DEF TypeOK

LEMMA AcceptEventTyped ==
  ASSUME TypeOK, NEW w \in Worker, AcceptEvent(w)
  PROVE TypeOK'
<1>1. job[w].fact \in Source
  BY JobSource
<1>2. MemoryTyped'
  BY EmitAcceptedTyped, <1>1 DEF TypeOK, MemoryTyped, AcceptEvent
<1>3. StoresTyped'
  BY AppendAcceptedTyped, <1>1 DEF TypeOK, StoresTyped, AcceptEvent
<1>4. ControlTyped'
  BY ReturnTyped, <1>1 DEF TypeOK, ControlTyped, AcceptEvent, PC
<1>5. OutputsTyped'
  BY EmitAcceptedTyped, <1>1 DEF TypeOK, OutputsTyped, AcceptEvent
<1>6. GroupTyped' /\ PassTyped'
  BY DEF TypeOK, GroupTyped, PassTyped, AcceptEvent
<1> QED
  BY <1>2, <1>3, <1>4, <1>5, <1>6 DEF TypeOK

LEMMA AcceptDeferredAppendTyped ==
  ASSUME TypeOK, NEW w \in Worker, AcceptDeferredAppend(w)
  PROVE TypeOK'
<1>1. job[w].fact \in Source
  BY JobSource
<1>2. StoresTyped'
  BY AppendAcceptedTyped, <1>1 DEF TypeOK, StoresTyped, AcceptDeferredAppend
<1>3. ControlTyped'
  BY AwaitTyped, <1>1 DEF TypeOK, ControlTyped, AcceptDeferredAppend, PC
<1>4. MemoryTyped' /\ GroupTyped' /\ PassTyped' /\ OutputsTyped'
  BY DEF TypeOK, MemoryTyped, GroupTyped, PassTyped, OutputsTyped, AcceptDeferredAppend
<1> QED
  BY <1>2, <1>3, <1>4 DEF TypeOK

LEMMA AcceptDeferredRemoveTyped ==
  ASSUME TypeOK, NEW w \in Worker, AcceptDeferredRemove(w)
  PROVE TypeOK'
<1>1. job[w].fact \in Source
  BY JobSource
<1>2. MemoryTyped'
  BY EmitAcceptedTyped, <1>1 DEF TypeOK, MemoryTyped, AcceptDeferredRemove, NothingAccepted
<1>3. StoresTyped'
  BY <1>1 DEF TypeOK, StoresTyped, AcceptDeferredRemove, NothingAccepted
<1>4. ControlTyped'
  BY IssueSaveTyped, <1>1, <1>2 DEF TypeOK, ControlTyped, AcceptDeferredRemove,
     MemoryTyped, NothingAccepted, PC
<1>5. OutputsTyped'
  BY EmitAcceptedTyped, <1>1 DEF TypeOK, OutputsTyped, AcceptDeferredRemove,
     NothingAccepted
<1>6. GroupTyped' /\ PassTyped'
  BY DEF TypeOK, GroupTyped, PassTyped, AcceptDeferredRemove
<1> QED
  BY <1>2, <1>3, <1>4, <1>5, <1>6 DEF TypeOK

LEMMA HandleDeferredTyped ==
  ASSUME TypeOK, NEW w \in Worker, HandleDeferred(w)
  PROVE TypeOK'
<1>1. job[w].fact \in Fact
  BY JobFact DEF Handling, HandleDeferred
<1>2. MemoryTyped'
  BY AdvanceWatermarkTyped, SeqType, <1>1 DEF TypeOK, MemoryTyped, HandleDeferred,
     Handling, EnqueueDeferred
<1>3. StoresTyped'
  BY AppendFactTyped, <1>1 DEF TypeOK, StoresTyped, HandleDeferred, Handling,
     EnqueueDeferred
<1>4. ControlTyped'
  BY ReturnTyped, IssueSaveTyped, <1>1, <1>2 DEF TypeOK, ControlTyped, HandleDeferred,
     MemoryTyped, Handling, EnqueueDeferred, PC
<1>5. OutputsTyped'
  BY <1>1 DEF TypeOK, OutputsTyped, MemoryTyped, HandleDeferred, EnqueueDeferred
<1>6. GroupTyped' /\ PassTyped'
  BY DEF TypeOK, GroupTyped, PassTyped, HandleDeferred
<1> QED
  BY <1>2, <1>3, <1>4, <1>5, <1>6 DEF TypeOK

LEMMA HandleSkippedTyped ==
  ASSUME TypeOK, NEW w \in Worker, HandleSkipped(w)
  PROVE TypeOK'
<1>1. job[w].fact \in Fact
  BY JobFact DEF Handling, HandleSkipped
<1>2. MemoryTyped'
  BY AdvanceWatermarkTyped, SeqType, <1>1 DEF TypeOK, MemoryTyped, HandleSkipped, Handling
<1>3. StoresTyped'
  BY AppendFactTyped, <1>1 DEF TypeOK, StoresTyped, HandleSkipped, Handling
<1>4. ControlTyped'
  BY ReturnTyped, IssueSaveTyped, <1>1, <1>2 DEF TypeOK, ControlTyped, HandleSkipped,
     MemoryTyped, Handling, PC
<1>5. GroupTyped' /\ PassTyped' /\ OutputsTyped'
  BY DEF TypeOK, GroupTyped, PassTyped, OutputsTyped, HandleSkipped
<1> QED
  BY <1>2, <1>3, <1>4, <1>5 DEF TypeOK

LEMMA HandleMalformedTyped ==
  ASSUME TypeOK, NEW w \in Worker, HandleMalformed(w)
  PROVE TypeOK'
<1>1. job[w].fact \in Fact
  BY JobFact DEF Handling, HandleMalformed
<1>2. MemoryTyped'
  BY AdvanceWatermarkTyped, SeqType, <1>1 DEF TypeOK, MemoryTyped, HandleMalformed,
     Handling
<1>3. StoresTyped'
  BY AppendFactTyped, <1>1 DEF TypeOK, StoresTyped, HandleMalformed, Handling
<1>4. ControlTyped'
  BY ReturnTyped, IssueSaveTyped, <1>1, <1>2 DEF TypeOK, ControlTyped, HandleMalformed,
     MemoryTyped, Handling, PC
<1>5. OutputsTyped'
  BY <1>1 DEF TypeOK, OutputsTyped, HandleMalformed, Source, Reason
<1>6. GroupTyped' /\ PassTyped'
  BY DEF TypeOK, GroupTyped, PassTyped, HandleMalformed
<1> QED
  BY <1>2, <1>3, <1>4, <1>5, <1>6 DEF TypeOK

LEMMA PruneExpiredTyped ==
  ASSUME TypeOK, NEW w \in Worker, PruneExpired(w)
  PROVE TypeOK'
<1>1. MemoryTyped'
  BY DEF TypeOK, MemoryTyped, PruneExpired
<1>2. ControlTyped'
  BY AwaitTyped, IssueSaveTyped, <1>1 DEF TypeOK, ControlTyped, PruneExpired, MemoryTyped,
     PC
<1>3. PassTyped'
  BY DEF TypeOK, PassTyped, MemoryTyped, PruneExpired
<1>4. StoresTyped' /\ GroupTyped' /\ OutputsTyped'
  BY DEF TypeOK, StoresTyped, GroupTyped, OutputsTyped, PruneExpired
<1> QED
  BY <1>1, <1>2, <1>3, <1>4 DEF TypeOK

LEMMA EnterRetryingTyped ==
  ASSUME TypeOK, NEW w \in Worker, EnterRetrying(w)
  PROVE TypeOK'
<1>1. MemoryTyped'
  BY TransitionTyped DEF TypeOK, MemoryTyped, EnterRetrying, RetryBatch, Lifecycle
<1>2. StoresTyped'
  BY TransitionTyped, <1>1 DEF TypeOK, StoresTyped, EnterRetrying, MemoryTyped, RetryBatch
<1>3. ControlTyped'
  BY AwaitTyped DEF TypeOK, ControlTyped, EnterRetrying, RetryBatch, PC
<1>4. PassTyped'
  BY DEF TypeOK, PassTyped, MemoryTyped, EnterRetrying, RetryBatch
<1>5. OutputsTyped'
  BY TransitionTyped, <1>1 DEF TypeOK, OutputsTyped, EnterRetrying, MemoryTyped, RetryBatch
<1>6. GroupTyped'
  BY DEF TypeOK, GroupTyped, EnterRetrying
<1> QED
  BY <1>1, <1>2, <1>3, <1>4, <1>5, <1>6 DEF TypeOK

LEMMA ChargeBatchTyped ==
  ASSUME TypeOK, NEW w \in Worker, ChargeBatch(w)
  PROVE TypeOK'
<1>1. MemoryTyped'
  BY DEF TypeOK, MemoryTyped, ChargeBatch
<1>2. ControlTyped'
  BY AwaitTyped DEF TypeOK, ControlTyped, ChargeBatch, PC
<1>3. StoresTyped' /\ GroupTyped' /\ PassTyped' /\ OutputsTyped'
  BY DEF TypeOK, StoresTyped, GroupTyped, PassTyped, OutputsTyped, ChargeBatch
<1> QED
  BY <1>1, <1>2, <1>3 DEF TypeOK

LEMMA IngestBatchTyped ==
  ASSUME TypeOK, NEW w \in Worker, IngestBatch(w)
  PROVE TypeOK'
<1>1. \A f \in NextOfBatch(w) : f \in Fact
  BY DEF TypeOK, PassTyped, NextOfBatch
<1>2. GroupTyped'
  BY <1>1, IngestTyped DEF TypeOK, GroupTyped, IngestBatch
<1>3. ControlTyped'
  BY AwaitTyped DEF TypeOK, ControlTyped, IngestBatch, PC
<1>4. PassTyped'
  <2>1. CASE UNCHANGED <<batch, stream>>
    BY <2>1 DEF TypeOK, PassTyped, IngestBatch
  <2>2. ASSUME NEW f \in NextOfBatch(w), Ingest(f),
               stream' = [stream EXCEPT ![w] = Append(@, Ingested(f))],
               batch' = [batch EXCEPT ![w] = @ \ {f}]
        PROVE PassTyped'
    <3>1. Ingested(f) \in IngestSignal
      BY <1>1, <2>2, IngestTyped
    <3>2. Append(stream[w], Ingested(f)) \in Seq(IngestSignal)
      BY <3>1 DEF TypeOK, PassTyped
    <3> QED
      BY <2>2, <3>2 DEF TypeOK, PassTyped, IngestBatch
  <2> QED
    BY <2>1, <2>2 DEF IngestBatch
<1>5. MemoryTyped' /\ StoresTyped' /\ OutputsTyped'
  BY DEF TypeOK, MemoryTyped, StoresTyped, OutputsTyped, IngestBatch
<1> QED
  BY <1>2, <1>3, <1>4, <1>5 DEF TypeOK

LEMMA NextRetriedTyped ==
  ASSUME TypeOK, NEW w \in Worker, NextRetried(w)
  PROVE TypeOK'
<1> DEFINE rest == IF stream[w] = <<>> THEN <<>> ELSE Tail(stream[w])
           outer == <<[stream |-> rest, entered |-> entered[w]]>>
<1>1. /\ stream[w] \in Seq(IngestSignal) /\ rest \in Seq(IngestSignal)
      /\ <<>> \in Seq(IngestSignal)
  BY DEF TypeOK, PassTyped
<1>2. outer \in Seq(Frame)
  BY <1>1 DEF TypeOK, PassTyped, Frame
<1>3. /\ pc' \in [Worker -> PC] /\ job' \in [Worker -> Job]
      /\ pendingDeferredRetry' \in BOOLEAN
      /\ stream' \in [Worker -> Seq(IngestSignal)]
      /\ entered' \in [Worker -> BOOLEAN] /\ frames' \in [Worker -> Seq(Frame)]
  <2>1. CASE /\ stream[w] = <<>>
             /\ UNCHANGED <<job, stream, entered, frames, pendingDeferredRetry>>
    BY <2>1, AwaitTyped DEF NextRetried, TypeOK, MemoryTyped, ControlTyped,
         PassTyped, PC
  <2>2. CASE stream[w] # <<>> /\ Head(stream[w]).kind # "epoch_advanced"
    <3>1. Head(stream[w]) \in IngestSignal
      BY <1>1, <2>2
    <3>2. [kind |-> Head(stream[w]).kind, fact |-> Head(stream[w]).fact, retry |-> TRUE]
            \in Job
      BY <3>1 DEF IngestSignal, Job
    <3>3. pc' \in [Worker -> PC]
      <4>1. Await(w, "append") /\ "append" \in PC
        BY <2>2 DEF NextRetried, PC
      <4> QED
        BY <4>1, AwaitTyped
    <3>4. job' \in [Worker -> Job]
      BY <2>2, <3>2 DEF NextRetried, TypeOK, ControlTyped
    <3>5. stream' \in [Worker -> Seq(IngestSignal)]
      BY <1>1, <2>2 DEF NextRetried, TypeOK, PassTyped
    <3>6. /\ pendingDeferredRetry' \in BOOLEAN
          /\ entered' \in [Worker -> BOOLEAN] /\ frames' \in [Worker -> Seq(Frame)]
      BY <2>2 DEF NextRetried, TypeOK, MemoryTyped, PassTyped
    <3> QED
      BY <3>3, <3>4, <3>5, <3>6
  <2>3. CASE /\ stream[w] # <<>> /\ Head(stream[w]).kind = "epoch_advanced"
             /\ HandleEpochAdvanced(w, outer)
    <3>1. stream' \in [Worker -> Seq(IngestSignal)]
      BY <1>1, <2>3 DEF NextRetried, TypeOK, PassTyped
    <3>2. job' \in [Worker -> Job]
      BY <2>3 DEF NextRetried, TypeOK, ControlTyped
    <3> HIDE DEF outer
    <3>3. /\ pc' \in [Worker -> PC] /\ pendingDeferredRetry' \in BOOLEAN
          /\ entered' \in [Worker -> BOOLEAN] /\ frames' \in [Worker -> Seq(Frame)]
      BY <1>2, <2>3, HandleEpochAdvancedTyped
    <3> QED
      BY <3>1, <3>2, <3>3
  <2>4. stream[w] # <<>> => rest = Tail(stream[w])
    OBVIOUS
  <2> QED
    BY <2>1, <2>2, <2>3, <2>4 DEF NextRetried
<1>4. StoresTyped' /\ GroupTyped' /\ OutputsTyped'
  BY DEF TypeOK, StoresTyped, GroupTyped, OutputsTyped, NextRetried
<1>5. MemoryTyped' /\ ControlTyped' /\ PassTyped'
  BY <1>3 DEF TypeOK, MemoryTyped, ControlTyped, PassTyped, NextRetried
<1> QED
  BY <1>4, <1>5 DEF TypeOK

LEMMA RemoveExhaustedTyped ==
  ASSUME TypeOK, NEW w \in Worker, RemoveExhausted(w)
  PROVE TypeOK'
<1>1. MemoryTyped'
  BY DEF TypeOK, MemoryTyped, RemoveExhausted, ExhaustedEntries
<1>2. ControlTyped'
  BY AwaitTyped, IssueSaveTyped, <1>1 DEF TypeOK, ControlTyped, RemoveExhausted,
     MemoryTyped, ExhaustedEntries, PC
<1>3. PassTyped'
  BY DEF TypeOK, PassTyped, MemoryTyped, RemoveExhausted, ExhaustedEntries
<1>4. StoresTyped' /\ GroupTyped' /\ OutputsTyped'
  BY DEF TypeOK, StoresTyped, GroupTyped, OutputsTyped, RemoveExhausted
<1> QED
  BY <1>1, <1>2, <1>3, <1>4 DEF TypeOK

LEMMA EndOfPassTyped ==
  ASSUME TypeOK, NEW w \in Worker, EndOfPass(w)
  PROVE TypeOK'
<1>1. MemoryTyped'
  BY TransitionTyped DEF TypeOK, MemoryTyped, EndOfPass, Lifecycle
<1>2. StoresTyped'
  BY TransitionTyped, <1>1 DEF TypeOK, StoresTyped, EndOfPass, MemoryTyped
<1>3. ControlTyped'
  BY AwaitTyped, LeavePassTyped DEF TypeOK, ControlTyped, EndOfPass, PC
<1>4. PassTyped'
  BY LeavePassTyped DEF TypeOK, PassTyped, EndOfPass
<1>5. OutputsTyped'
  BY TransitionTyped, <1>1 DEF TypeOK, OutputsTyped, EndOfPass, MemoryTyped
<1>6. GroupTyped'
  BY DEF TypeOK, GroupTyped, EndOfPass
<1> QED
  BY <1>1, <1>2, <1>3, <1>4, <1>5, <1>6 DEF TypeOK

LEMMA GiveUpSignalTyped ==
  ASSUME TypeOK, NEW w \in Worker, GiveUpSignal(w)
  PROVE TypeOK'
<1>1. job[w].fact \in Source
  BY JobSource
<1>2. MemoryTyped'
  BY <1>1 DEF TypeOK, MemoryTyped, GiveUpSignal, GiveUp
<1>3. ControlTyped'
  BY ReturnTyped, <1>1 DEF TypeOK, ControlTyped, GiveUpSignal, GiveUp, PC
<1>4. OutputsTyped'
  BY <1>1 DEF TypeOK, OutputsTyped, GiveUpSignal, GiveUp, Reason
<1>5. StoresTyped' /\ GroupTyped' /\ PassTyped'
  BY DEF TypeOK, StoresTyped, GroupTyped, PassTyped, GiveUpSignal, GiveUp
<1> QED
  BY <1>2, <1>3, <1>4, <1>5 DEF TypeOK

LEMMA RetrySaveTyped ==
  ASSUME TypeOK, NEW w \in Worker, RetrySave(w)
  PROVE TypeOK'
<1>1. (CHOOSE v \in Worker : v # w) \in Worker
  BY DEF Worker
<1>2. ControlTyped'
  BY <1>1 DEF TypeOK, ControlTyped, RetrySave
<1>3. MemoryTyped' /\ StoresTyped' /\ GroupTyped' /\ PassTyped' /\ OutputsTyped'
  BY DEF TypeOK, MemoryTyped, StoresTyped, GroupTyped, PassTyped, OutputsTyped, RetrySave,
     GiveUp
<1> QED
  BY <1>2, <1>3 DEF TypeOK

LEMMA SaveDeferredIdsTyped ==
  ASSUME TypeOK, NEW w \in Worker, SaveDeferredIds(w)
  PROVE TypeOK'
<1>1. job[w].kind # "local" \/ job[w].retry
  BY DEF SaveDeferredIds, AfterSave
<1>2. pc[w] = "save" /\ AfterSave(w, TRUE)
  BY DEF SaveDeferredIds
<1>3. /\ MemoryTyped' /\ PassTyped' /\ GroupTyped'
      /\ pc' \in [Worker -> PC] /\ job' \in [Worker -> Job]
      /\ serialQueue' \in Seq(Signal) /\ liveBuffer' \in Seq(IngestSignal)
      /\ projection' \in Seq(Event) /\ rejected' \in SUBSET (Source \X Reason)
      /\ evicted' \in SUBSET Fact /\ interrupted' \in SUBSET Fact
      /\ orphaned' \in SUBSET Fact /\ inFetch' \in BOOLEAN /\ restarts' \in Nat
  BY <1>1, <1>2, AfterSaveTyped
<1>4. StoresTyped'
  BY DEF TypeOK, StoresTyped, ControlTyped, SaveDeferredIds, AfterSave
<1>5. failures' \in Nat
  BY DEF TypeOK, OutputsTyped, SaveDeferredIds, GiveUp
<1>6. ids' \in [Worker -> SUBSET Fact] /\ firstSave' \in Worker
  BY DEF TypeOK, ControlTyped, SaveDeferredIds, SaveReturns
<1> QED
  BY <1>3, <1>4, <1>5, <1>6 DEF TypeOK, ControlTyped, OutputsTyped

LEMMA GiveUpSaveTyped ==
  ASSUME TypeOK, NEW w \in Worker, GiveUpSave(w)
  PROVE TypeOK'
<1>1. job[w].kind # "local" \/ job[w].retry
  BY DEF GiveUpSave, AfterSave
<1>2. pc[w] = "save" /\ AfterSave(w, FALSE)
  BY DEF GiveUpSave
<1>3. /\ MemoryTyped' /\ PassTyped' /\ GroupTyped'
      /\ pc' \in [Worker -> PC] /\ job' \in [Worker -> Job]
      /\ serialQueue' \in Seq(Signal) /\ liveBuffer' \in Seq(IngestSignal)
      /\ projection' \in Seq(Event) /\ rejected' \in SUBSET (Source \X Reason)
      /\ evicted' \in SUBSET Fact /\ interrupted' \in SUBSET Fact
      /\ orphaned' \in SUBSET Fact /\ inFetch' \in BOOLEAN /\ restarts' \in Nat
  BY <1>1, <1>2, AfterSaveTyped
<1>4. StoresTyped'
  BY DEF TypeOK, StoresTyped, ControlTyped, GiveUpSave, AfterSave
<1>5. failures' \in Nat
  BY DEF TypeOK, OutputsTyped, GiveUpSave, GiveUp
<1>6. ids' \in [Worker -> SUBSET Fact] /\ firstSave' \in Worker
  BY DEF TypeOK, ControlTyped, GiveUpSave, SaveReturns
<1> QED
  BY <1>3, <1>4, <1>5, <1>6 DEF TypeOK, ControlTyped, OutputsTyped

LEMMA SaveRemovalTyped ==
  ASSUME TypeOK, NEW w \in Worker, SaveRemoval(w)
  PROVE TypeOK'
<1>1. StoresTyped' /\ MemoryTyped' /\ GroupTyped'
  BY DEF TypeOK, StoresTyped, MemoryTyped, GroupTyped, ControlTyped, SaveRemoval, ReportRemoved
<1>2. ControlTyped'
  BY AwaitTyped DEF TypeOK, ControlTyped, SaveRemoval, ReportRemoved, SaveReturns, PC
<1>3. PassTyped'
  BY DEF TypeOK, PassTyped, SaveRemoval, ReportRemoved
<1>4. OutputsTyped'
  <2>1. batch[w] \in SUBSET Source
    BY DEF TypeOK, PassTyped, Source
  <2>2. rejected' \in SUBSET (Source \X Reason)
    BY <2>1 DEF TypeOK, OutputsTyped, SaveRemoval, ReportRemoved, Reason
  <2> QED
    BY <2>2 DEF TypeOK, OutputsTyped, SaveRemoval, ReportRemoved, GiveUp
<1> QED
  BY <1>1, <1>2, <1>3, <1>4 DEF TypeOK

LEMMA GiveUpRemovalTyped ==
  ASSUME TypeOK, NEW w \in Worker, GiveUpRemoval(w)
  PROVE TypeOK'
<1>1. StoresTyped' /\ MemoryTyped' /\ GroupTyped'
  BY DEF TypeOK, StoresTyped, MemoryTyped, GroupTyped, ControlTyped, GiveUpRemoval, ReportRemoved
<1>2. ControlTyped'
  BY AwaitTyped DEF TypeOK, ControlTyped, GiveUpRemoval, ReportRemoved, SaveReturns, PC
<1>3. PassTyped'
  BY DEF TypeOK, PassTyped, GiveUpRemoval, ReportRemoved
<1>4. OutputsTyped'
  <2>1. batch[w] \in SUBSET Source
    BY DEF TypeOK, PassTyped, Source
  <2>2. rejected' \in SUBSET (Source \X Reason)
    BY <2>1 DEF TypeOK, OutputsTyped, GiveUpRemoval, ReportRemoved, Reason
  <2> QED
    BY <2>2 DEF TypeOK, OutputsTyped, GiveUpRemoval, ReportRemoved, GiveUp
<1> QED
  BY <1>1, <1>2, <1>3, <1>4 DEF TypeOK

LEMMA CrashTyped == ASSUME TypeOK, Crash PROVE TypeOK'
<1>1. MemoryTyped' /\ ControlTyped' /\ PassTyped' /\ OutputsTyped' /\ UNCHANGED group
  BY LoseMemoryTyped DEF Crash
<1>2. StoresTyped'
  BY DEF TypeOK, StoresTyped, MemoryTyped, Crash, LoseMemory
<1> QED
  BY <1>1, <1>2 DEF TypeOK, GroupTyped

LEMMA StopTyped == ASSUME TypeOK, Stop PROVE TypeOK'
<1>1. MemoryTyped' /\ ControlTyped' /\ PassTyped' /\ OutputsTyped' /\ UNCHANGED group
  BY LoseMemoryTyped DEF Stop
<1>2. StoresTyped'
  BY DEF TypeOK, StoresTyped, MemoryTyped, Stop, LoseMemory, Snapshot, Checkpoint
<1> QED
  BY <1>1, <1>2 DEF TypeOK, GroupTyped

LEMMA LoadThrowsTyped == ASSUME TypeOK, LoadThrows PROVE TypeOK'
<1>1. ControlTyped'
  BY Workers, AwaitTyped DEF TypeOK, ControlTyped, LoadThrows, PC
<1>2. failures' \in Nat
  BY DEF TypeOK, OutputsTyped, LoadThrows, GiveUp
<1> QED
  BY <1>1, <1>2 DEF TypeOK, StoresTyped, GroupTyped, MemoryTyped, PassTyped, OutputsTyped,
                    LoadThrows

LEMMA IngestThrowsTyped ==
  ASSUME TypeOK, NEW w \in Worker, IngestThrows(w)
  PROVE TypeOK'
<1>1. GroupTyped'
  <2>1. PICK f \in NextOfBatch(w) : Ingest(f) \/ UNCHANGED <<epoch, consumed>>
    BY DEF IngestThrows
  <2>2. f \in Fact
    BY <2>1 DEF TypeOK, PassTyped, NextOfBatch
  <2>3. consumed' \in SUBSET Fact /\ epoch' \in Nat
    BY <2>1, <2>2, IngestTyped DEF TypeOK, GroupTyped
  <2> QED
    BY <2>3 DEF TypeOK, GroupTyped, IngestThrows
<1>2. PassTyped'
  <2>1. <<>> \in Seq(IngestSignal) /\ <<>> \in Seq(Frame)
    OBVIOUS
  <2> QED
    BY <2>1 DEF TypeOK, PassTyped, IngestThrows
<1>3. ControlTyped'
  BY AwaitTyped DEF TypeOK, ControlTyped, IngestThrows, PC
<1>4. OutputsTyped'
  <2>1. interrupted' \in SUBSET Fact
    BY DEF TypeOK, OutputsTyped, IngestThrows, Untaken, Task
  <2> QED
    BY <2>1 DEF TypeOK, OutputsTyped, IngestThrows, GiveUp
<1> QED
  BY <1>1, <1>2, <1>3, <1>4 DEF TypeOK, StoresTyped, MemoryTyped, IngestThrows

LEMMA RejoinTyped == ASSUME TypeOK, Rejoin PROVE TypeOK'
<1>1. MemoryTyped'
  BY TransitionTyped DEF TypeOK, MemoryTyped, Rejoin, Lifecycle
<1>2. StoresTyped'
  BY TransitionTyped, <1>1 DEF TypeOK, StoresTyped, Rejoin, MemoryTyped
<1>3. ControlTyped'
  BY Workers, AwaitTyped DEF TypeOK, ControlTyped, Rejoin, PC
<1>4. OutputsTyped'
  BY TransitionTyped, <1>1 DEF TypeOK, OutputsTyped, Rejoin, MemoryTyped
<1> QED
  BY <1>1, <1>2, <1>3, <1>4 DEF TypeOK, GroupTyped, PassTyped, Rejoin

LEMMA ReopenTyped == ASSUME TypeOK, Reopen PROVE TypeOK'
<1>1. ControlTyped'
  <2>1. <<>> \in Seq(IngestSignal)
    OBVIOUS
  <2> QED
    BY <2>1, Workers, AwaitTyped DEF TypeOK, ControlTyped, Reopen, PC
<1>2. OutputsTyped'
  BY DEF TypeOK, OutputsTyped, Reopen, Task
<1> QED
  BY <1>1, <1>2 DEF TypeOK, StoresTyped, GroupTyped, MemoryTyped, PassTyped, Reopen

LEMMA DeliverLiveThrowsTyped ==
  ASSUME TypeOK, NEW f \in Fact, DeliverLiveThrows(f)
  PROVE TypeOK'
<1>1. consumed' \in SUBSET Fact /\ epoch' \in Nat
  BY IngestTyped DEF TypeOK, GroupTyped, DeliverLiveThrows
<1>2. copies' \in [Source -> Nat]
  BY DEF TypeOK, GroupTyped, DeliverLiveThrows, Source
<1>3. OutputsTyped'
  BY DEF TypeOK, OutputsTyped, DeliverLiveThrows, GiveUp, Task
<1> QED
  BY <1>1, <1>2, <1>3 DEF TypeOK, StoresTyped, GroupTyped, MemoryTyped, ControlTyped, PassTyped,
                          DeliverLiveThrows

----------------------------------------------------------------------------
(* Type correctness. *)

\* Initially every variable has its type.
LEMMA InitTyped == Init => TypeOK
<1> SUFFICES ASSUME Init PROVE TypeOK
  OBVIOUS
<1>1. StoresTyped /\ GroupTyped /\ MemoryTyped
  <2>1. accepted \in Seq([ev : Event, fact : Source])
    BY DEF Init
  <2> QED
    BY <2>1 DEF Init, StoresTyped, GroupTyped, MemoryTyped, Lifecycle
<1>2. ControlTyped
  <2>1. serialQueue \in Seq(Signal) /\ liveBuffer \in Seq(IngestSignal)
    BY DEF Init
  <2> QED
    BY <2>1, IdleJobType DEF Init, ControlTyped, PC, Worker
<1>3. PassTyped
  <2>1. <<>> \in Seq(IngestSignal) /\ <<>> \in Seq(Frame)
    OBVIOUS
  <2> QED
    BY <2>1 DEF Init, PassTyped
<1>4. OutputsTyped
  <2>1. projection \in Seq(Event)
    BY DEF Init
  <2> QED
    BY <2>1 DEF Init, OutputsTyped
<1> QED
  BY <1>1, <1>2, <1>3, <1>4 DEF TypeOK

\* Every step keeps every variable in its type.
LEMMA StepTyped == TypeOK /\ [Next]_vars => TypeOK'
<1> SUFFICES ASSUME TypeOK, [Next]_vars PROVE TypeOK'
  OBVIOUS
<1>1. CASE UNCHANGED vars
  BY <1>1 DEF vars, TypeOK, StoresTyped, GroupTyped, MemoryTyped, ControlTyped, PassTyped,
              OutputsTyped
<1>2. CASE StartJob
  BY <1>2, StartJobTyped
<1>3. CASE Cutover
  BY <1>3, StartTyped, RebuildTyped, DrainNextTyped, EnterCatchingUpTyped, CatchUpTyped,
     EnterBufferingLiveTyped, DrainBufferedTyped, EnterLiveTyped, ConsumeLatchTyped,
     RejoinTyped, ReopenTyped DEF Cutover
<1>4. CASE Failure
  BY <1>4, GiveUpSignalTyped, GiveUpSaveTyped, GiveUpRemovalTyped, RetrySaveTyped,
     LoadThrowsTyped, IngestThrowsTyped DEF Failure
<1>5. CASE Environment
  BY <1>5, SaveCheckpointTyped, LateBootstrapTyped, CrashTyped, StopTyped, DeliverLiveTyped,
     DeliverLiveThrowsTyped, AcceptLocalTyped DEF Environment
<1>6. ASSUME NEW w \in Worker, Resume(w) PROVE TypeOK'
  BY <1>6, HandleMessageTyped, AcceptEventTyped, AcceptDeferredAppendTyped,
     AcceptDeferredRemoveTyped, HandleDeferredTyped, HandleSkippedTyped, HandleMalformedTyped,
     SaveDeferredIdsTyped, PruneExpiredTyped, EnterRetryingTyped, ChargeBatchTyped,
     IngestBatchTyped, NextRetriedTyped, RemoveExhaustedTyped, SaveRemovalTyped,
     EndOfPassTyped DEF Resume
<1> QED
  BY <1>1, <1>2, <1>3, <1>4, <1>5, <1>6 DEF Next

\* Every variable of the engine, its stores and its continuations keeps its type, for
\* any envelopes, bounds, crashes and failed writes.
THEOREM TypeCorrect == Spec => []TypeOK
BY InitTyped, StepTyped, PTL DEF Spec

----------------------------------------------------------------------------
(* Emission after durability. *)

\* A continuation that is past its accepted-log write carries an event that is in
\* the accepted log: a message un-parked after it, or saved by handleMessage.
CarriesAccepted(w) ==
  /\ pc[w] = "unpark" => EventOf[job[w].fact] \in AcceptedEvents
  /\ pc[w] = "save" /\ job[w].kind = "message" /\ ~job[w].retry
       => EventOf[job[w].fact] \in AcceptedEvents

DurableInv ==
  /\ TypeOK
  /\ EmittedIsDurable
  /\ processed \subseteq AcceptedEvents
  /\ \A w \in Worker : CarriesAccepted(w)

\* appendAcceptedEvent appends or finds the id there; nothing leaves the log.
LEMMA AppendAcceptedAdds ==
  ASSUME TypeOK, NEW s \in Source, AppendAcceptedEvent(s)
  PROVE AcceptedEvents \subseteq AcceptedEvents' /\ EventOf[s] \in AcceptedEvents'
<1> DEFINE entry == [ev |-> EventOf[s], fact |-> s]
           Entries == [ev : Event, fact : Source]
<1>1. CASE EventOf[s] \in AcceptedEvents
  BY <1>1 DEF AppendAcceptedEvent, AcceptedEvents
<1>2. CASE EventOf[s] \notin AcceptedEvents
  <2>1. accepted' = Append(accepted, entry)
    BY <1>2 DEF AppendAcceptedEvent
  <2>2. entry.ev = EventOf[s]
    OBVIOUS
  <2>3. entry \in Entries /\ accepted \in Seq(Entries)
    BY SourceAssumption DEF TypeOK, StoresTyped
  <2> HIDE DEF entry, Entries
  <2>4. /\ DOMAIN accepted' = 1..(Len(accepted) + 1) /\ DOMAIN accepted = 1..Len(accepted)
        /\ \A i \in 1..Len(accepted) : accepted'[i] = accepted[i]
        /\ accepted'[Len(accepted) + 1] = entry /\ Len(accepted) \in Nat
    BY <2>1, <2>3, AppendProperties, LenProperties
  <2> QED
    BY <2>2, <2>4 DEF AcceptedEvents
<1> QED
  BY <1>1, <1>2

\* Appending an event to the projection adds that event to those emitted.
LEMMA EmitAdds ==
  ASSUME TypeOK, NEW s \in Source, EmitAccepted(s), EmittedIsDurable,
         processed \subseteq AcceptedEvents,
         AcceptedEvents \subseteq AcceptedEvents', EventOf[s] \in AcceptedEvents'
  PROVE EmittedIsDurable' /\ processed' \subseteq AcceptedEvents'
<1>1. projection' = Append(projection, EventOf[s]) /\ projection \in Seq(Event)
  BY DEF EmitAccepted, TypeOK, OutputsTyped
<1>2. /\ DOMAIN projection' = 1..(Len(projection) + 1) /\ DOMAIN projection = 1..Len(projection)
      /\ \A i \in 1..Len(projection) : projection'[i] = projection[i]
      /\ projection'[Len(projection) + 1] = EventOf[s] /\ Len(projection) \in Nat
  BY <1>1, SourceAssumption, AppendProperties, LenProperties
<1>3. EmittedIsDurable'
  BY <1>2 DEF EmittedIsDurable
<1> QED
  BY <1>3 DEF EmitAccepted

\* A step that neither accepts nor emits keeps the invariant, unless it moves a
\* continuation to an await of which CarriesAccepted says something.
LEMMA DurableKept ==
  ASSUME DurableInv, TypeOK', UNCHANGED <<accepted, processed, projection>>,
         NEW w \in Worker,
         \A v \in Worker \ {w} : pc'[v] = pc[v] /\ job'[v] = job[v],
         \/ pc'[w] = pc[w] /\ job'[w] = job[w]
         \/ pc'[w] \notin {"unpark", "save"}
         \/ pc'[w] = "save" /\ job'[w] = job[w] /\ (job[w].kind # "message" \/ job[w].retry)
  PROVE DurableInv'
<1>1. AcceptedEvents' = AcceptedEvents
  BY DEF AcceptedEvents
<1>2. \A v \in Worker : CarriesAccepted(v)'
  BY <1>1 DEF DurableInv, CarriesAccepted
<1> QED
  BY <1>1, <1>2 DEF DurableInv, EmittedIsDurable

LEMMA DurableInit == Init => DurableInv
BY InitTyped DEF Init, DurableInv, EmittedIsDurable, CarriesAccepted, Worker

\* The start of a continuation's session: the projection is seeded from the log.
LEMMA DurableStart == ASSUME DurableInv, TypeOK', Start PROVE DurableInv'
<1>1. AcceptedEvents' = AcceptedEvents /\ processed' = processed
  BY DEF Start, AcceptedEvents
<1>2. EmittedIsDurable'
  BY <1>1 DEF Start, EmittedIsDurable, AcceptedEvents
<1>3. \A v \in Worker : CarriesAccepted(v)'
  <2>1. pc \in [Worker -> PC]
    BY DEF DurableInv, TypeOK, ControlTyped
  <2> QED
    BY <1>1, <2>1 DEF Start, Await, DurableInv, CarriesAccepted
<1> QED
  BY <1>1, <1>2, <1>3 DEF DurableInv

LEMMA DurableRebuild == ASSUME DurableInv, TypeOK', Rebuild PROVE DurableInv'
<1>1. AcceptedEvents' = AcceptedEvents /\ processed' = processed \union AcceptedEvents
  BY DEF Rebuild, AcceptedEvents
<1>2. EmittedIsDurable'
  BY <1>1 DEF Rebuild, EmittedIsDurable, DurableInv
<1>3. \A v \in Worker : CarriesAccepted(v)'
  BY <1>1 DEF Rebuild, Await, DurableInv, CarriesAccepted, TypeOK, ControlTyped
<1> QED
  BY <1>1, <1>2, <1>3 DEF DurableInv

LEMMA DurableLoseMemory == ASSUME DurableInv, TypeOK', LoseMemory PROVE DurableInv'
<1>1. AcceptedEvents' = AcceptedEvents
  BY DEF LoseMemory, AcceptedEvents
<1> QED
  BY <1>1 DEF LoseMemory, DurableInv, EmittedIsDurable, CarriesAccepted

LEMMA DurableAcceptEvent ==
  ASSUME DurableInv, TypeOK', NEW w \in Worker, AcceptEvent(w)
  PROVE DurableInv'
<1>1. job[w].fact \in Source /\ AppendAcceptedEvent(job[w].fact) /\ EmitAccepted(job[w].fact)
  BY JobSource DEF AcceptEvent, DurableInv
<1>2. AcceptedEvents \subseteq AcceptedEvents' /\ EventOf[job[w].fact] \in AcceptedEvents'
  BY <1>1, AppendAcceptedAdds DEF DurableInv
<1>3. EmittedIsDurable' /\ processed' \subseteq AcceptedEvents'
  BY <1>1, <1>2, EmitAdds DEF DurableInv
<1>4. \A v \in Worker : CarriesAccepted(v)'
  BY <1>2 DEF AcceptEvent, Return, Await, DurableInv, CarriesAccepted, TypeOK, ControlTyped
<1> QED
  BY <1>3, <1>4 DEF DurableInv

LEMMA DurableAcceptDeferredAppend ==
  ASSUME DurableInv, TypeOK', NEW w \in Worker, AcceptDeferredAppend(w)
  PROVE DurableInv'
<1>1. job[w].fact \in Source
  BY JobSource DEF DurableInv
<1>2. AcceptedEvents \subseteq AcceptedEvents' /\ EventOf[job[w].fact] \in AcceptedEvents'
  BY <1>1, AppendAcceptedAdds DEF AcceptDeferredAppend, DurableInv
<1>3. EmittedIsDurable' /\ processed' \subseteq AcceptedEvents'
  BY <1>2 DEF AcceptDeferredAppend, DurableInv, EmittedIsDurable
<1>4. \A v \in Worker : CarriesAccepted(v)'
  BY <1>2 DEF AcceptDeferredAppend, Await, DurableInv, CarriesAccepted, TypeOK, ControlTyped
<1> QED
  BY <1>3, <1>4 DEF DurableInv

LEMMA DurableAcceptDeferredRemove ==
  ASSUME DurableInv, TypeOK', NEW w \in Worker, AcceptDeferredRemove(w)
  PROVE DurableInv'
<1>1. job[w].fact \in Source /\ EventOf[job[w].fact] \in AcceptedEvents
  BY JobSource DEF DurableInv, CarriesAccepted, AcceptDeferredRemove
<1>2. AcceptedEvents' = AcceptedEvents
  BY DEF AcceptDeferredRemove, AcceptedEvents
<1>3. EmittedIsDurable' /\ processed' \subseteq AcceptedEvents'
  <2>1. CASE EmitAccepted(job[w].fact)
    BY <1>1, <1>2, <2>1, EmitAdds DEF DurableInv
  <2>2. CASE NothingAccepted
    BY <1>2, <2>2 DEF NothingAccepted, DurableInv, EmittedIsDurable
  <2> QED
    BY <2>1, <2>2 DEF AcceptDeferredRemove
<1>4. \A v \in Worker : CarriesAccepted(v)'
  BY <1>1, <1>2 DEF AcceptDeferredRemove, IssueSave, Await, DurableInv, CarriesAccepted, TypeOK,
     ControlTyped
<1> QED
  BY <1>3, <1>4 DEF DurableInv

LEMMA DurableAfterSave ==
  ASSUME DurableInv, TypeOK', NEW w \in Worker, pc[w] = "save",
         NEW landed \in BOOLEAN, AfterSave(w, landed)
  PROVE DurableInv'
<1>1. AcceptedEvents' = AcceptedEvents /\ job[w].fact \in Source
  BY JobSource DEF AfterSave, AcceptedEvents, DurableInv
<1>2. EmittedIsDurable' /\ processed' \subseteq AcceptedEvents'
  <2>1. CASE job[w].kind = "message" /\ ~job[w].retry /\ EmitAccepted(job[w].fact)
    BY <1>1, <2>1, EmitAdds DEF DurableInv, CarriesAccepted
  <2>2. CASE NothingAccepted
    BY <1>1, <2>2 DEF NothingAccepted, DurableInv, EmittedIsDurable
  <2> QED
    BY <2>1, <2>2 DEF AfterSave
<1>3. \A v \in Worker : CarriesAccepted(v)'
  BY <1>1 DEF AfterSave, Return, Await, DurableInv, CarriesAccepted, TypeOK, ControlTyped
<1> QED
  BY <1>2, <1>3 DEF DurableInv

\* The other steps of a continuation neither accept nor emit.
LEMMA DurableResume ==
  ASSUME DurableInv, TypeOK', NEW w \in Worker,
         \/ HandleMessage(w) \/ HandleDeferred(w) \/ HandleSkipped(w) \/ HandleMalformed(w)
         \/ PruneExpired(w) \/ EnterRetrying(w) \/ ChargeBatch(w) \/ IngestBatch(w)
         \/ NextRetried(w) \/ RemoveExhausted(w) \/ (ReportRemoved(w) /\ UNCHANGED accepted)
         \/ EndOfPass(w) \/ GiveUpSignal(w) \/ RetrySave(w) \/ IngestThrows(w)
  PROVE DurableInv'
<1> USE DEF DurableInv, TypeOK, ControlTyped, Await
<1>1. CASE HandleMessage(w)
  BY <1>1, DurableKept DEF HandleMessage, Return, IssueSave
<1>2. CASE HandleDeferred(w)
  BY <1>2, DurableKept DEF HandleDeferred, Handling, Return, IssueSave
<1>3. CASE HandleSkipped(w)
  BY <1>3, DurableKept DEF HandleSkipped, Handling, Return, IssueSave
<1>4. CASE HandleMalformed(w)
  BY <1>4, DurableKept DEF HandleMalformed, Handling, Return, IssueSave
<1>5. CASE PruneExpired(w)
  BY <1>5, DurableKept DEF PruneExpired, IssueSave
<1>6. CASE EnterRetrying(w)
  BY <1>6, DurableKept DEF EnterRetrying
<1>7. CASE ChargeBatch(w)
  BY <1>7, DurableKept DEF ChargeBatch
<1>8. CASE IngestBatch(w)
  BY <1>8, DurableKept DEF IngestBatch
<1>9. CASE NextRetried(w)
  BY <1>9, DurableKept DEF NextRetried, HandleEpochAdvanced, EnterPass
<1>10. CASE RemoveExhausted(w)
  BY <1>10, DurableKept DEF RemoveExhausted, IssueSave
<1>11. CASE ReportRemoved(w) /\ UNCHANGED accepted
  BY <1>11, DurableKept DEF ReportRemoved
<1>12. CASE EndOfPass(w)
  BY <1>12, DurableKept DEF EndOfPass, LeavePass
<1>13. CASE GiveUpSignal(w)
  BY <1>13, DurableKept DEF GiveUpSignal, Return
<1>14. CASE RetrySave(w)
  BY <1>14, DurableKept DEF RetrySave
<1>15. CASE IngestThrows(w)
  BY <1>15, DurableKept DEF IngestThrows
<1> QED
  BY <1>1, <1>2, <1>3, <1>4, <1>5, <1>6, <1>7, <1>8, <1>9, <1>10, <1>11, <1>12, <1>13, <1>14,
     <1>15

\* Nor do those of the FIFO, of the cutover and of the environment.
LEMMA DurableOther ==
  ASSUME DurableInv, TypeOK',
         \/ StartJob \/ DrainNext \/ EnterCatchingUp \/ CatchUp \/ EnterBufferingLive
         \/ DrainBuffered \/ EnterLive \/ ConsumeLatch \/ SaveCheckpoint \/ LateBootstrap
         \/ LoadThrows \/ Rejoin \/ Reopen
         \/ \E f \in Fact : DeliverLive(f) \/ DeliverLiveThrows(f)
         \/ \E s \in Local : AcceptLocal(s)
  PROVE DurableInv'
<1> USE Workers DEF DurableInv, TypeOK, ControlTyped, Await
<1>1. CASE StartJob
  BY <1>1, DurableKept DEF StartJob, HandleEpochAdvanced, EnterPass
<1>2. CASE DrainNext
  BY <1>2, DurableKept DEF DrainNext
<1>3. CASE EnterCatchingUp
  BY <1>3, DurableKept DEF EnterCatchingUp
<1>4. CASE CatchUp
  BY <1>4, DurableKept DEF CatchUp
<1>5. CASE EnterBufferingLive
  BY <1>5, DurableKept DEF EnterBufferingLive
<1>6. CASE DrainBuffered
  BY <1>6, DurableKept DEF DrainBuffered
<1>7. CASE EnterLive
  BY <1>7, DurableKept DEF EnterLive
<1>8. CASE ConsumeLatch
  BY <1>8, DurableKept DEF ConsumeLatch, EnterPass
<1>9. CASE SaveCheckpoint
  BY <1>9, DurableKept DEF SaveCheckpoint
<1>10. CASE LateBootstrap
  BY <1>10, DurableKept DEF LateBootstrap
<1>11. CASE \E f \in Fact : DeliverLive(f) \/ DeliverLiveThrows(f)
  BY <1>11, DurableKept DEF DeliverLive, DeliverLiveThrows
<1>12. CASE \E s \in Local : AcceptLocal(s)
  BY <1>12, DurableKept DEF AcceptLocal
<1>13. CASE LoadThrows \/ Rejoin \/ Reopen
  BY <1>13, DurableKept DEF LoadThrows, Rejoin, Reopen
<1> QED
  BY <1>1, <1>2, <1>3, <1>4, <1>5, <1>6, <1>7, <1>8, <1>9, <1>10, <1>11, <1>12, <1>13

LEMMA DurableStep == DurableInv /\ [Next]_vars => DurableInv'
<1> SUFFICES ASSUME DurableInv, [Next]_vars PROVE DurableInv'
  OBVIOUS
<1>1. TypeOK'
  BY StepTyped DEF DurableInv
<1>2. CASE UNCHANGED vars
  BY <1>1, <1>2, Workers, DurableKept DEF vars
<1>3. CASE StartJob \/ Cutover
  BY <1>1, <1>3, DurableOther, DurableStart, DurableRebuild DEF Cutover
<1>4. CASE Environment
  BY <1>1, <1>4, DurableOther, DurableLoseMemory DEF Environment, Crash, Stop
<1>5. CASE Failure
  <2>1. ASSUME NEW w \in Worker, GiveUpSave(w) PROVE DurableInv'
    BY <1>1, <2>1, DurableAfterSave DEF GiveUpSave
  <2>2. ASSUME NEW w \in Worker,
               GiveUpSignal(w) \/ GiveUpRemoval(w) \/ RetrySave(w) \/ IngestThrows(w)
        PROVE DurableInv'
    BY <1>1, <2>2, DurableResume DEF GiveUpRemoval, ReportRemoved
  <2>3. CASE LoadThrows
    BY <1>1, <2>3, DurableOther
  <2> QED
    BY <1>5, <2>1, <2>2, <2>3 DEF Failure
<1>6. ASSUME NEW w \in Worker, Resume(w) PROVE DurableInv'
  <2>1. CASE AcceptEvent(w) \/ AcceptDeferredAppend(w) \/ AcceptDeferredRemove(w)
    BY <1>1, <2>1, DurableAcceptEvent, DurableAcceptDeferredAppend, DurableAcceptDeferredRemove
  <2>2. CASE SaveDeferredIds(w)
    BY <1>1, <2>2, DurableAfterSave DEF SaveDeferredIds
  <2>3. CASE SaveRemoval(w)
    BY <1>1, <2>3, DurableResume DEF SaveRemoval, ReportRemoved
  <2>4. CASE \/ HandleMessage(w) \/ HandleDeferred(w) \/ HandleSkipped(w) \/ HandleMalformed(w)
             \/ PruneExpired(w) \/ EnterRetrying(w) \/ ChargeBatch(w) \/ IngestBatch(w)
             \/ NextRetried(w) \/ RemoveExhausted(w) \/ EndOfPass(w)
    BY <1>1, <2>4, DurableResume
  <2> QED
    BY <1>6, <2>1, <2>2, <2>3, <2>4 DEF Resume
<1> QED
  BY <1>2, <1>3, <1>4, <1>5, <1>6 DEF Next

\* An event reaches the consumer (the projection, and through it the UI) only once
\* it is in the accepted log, so no restart takes back what was shown: for any
\* envelopes, crashes, failed writes and interleavings of the two continuations.
THEOREM EmitsOnlyDurable == Spec => []EmittedIsDurable
<1>1. DurableInv => EmittedIsDurable
  BY DEF DurableInv
<1> QED
  BY <1>1, DurableInit, DurableStep, PTL DEF Spec

----------------------------------------------------------------------------
(* The engine keeps the ledger. *)

\* Between two sessions nothing is queued and no continuation is suspended.
DownIsIdle == lifecycle = "down" => serialQueue = <<>> /\ \A w \in Worker : pc[w] = "idle"

LedgerInv == DurableInv /\ DownIsIdle

LogOf == [i \in DOMAIN accepted |-> accepted[i].ev]

\* The steps of a session that is under way: all but its start, crash and stop.
SessionStep ==
  \/ StartJob \/ Rebuild \/ DrainNext \/ EnterCatchingUp \/ CatchUp \/ EnterBufferingLive
  \/ DrainBuffered \/ EnterLive \/ ConsumeLatch \/ SaveCheckpoint \/ LateBootstrap \/ Failure
  \/ Rejoin \/ Reopen
  \/ \E f \in Fact : DeliverLive(f) \/ DeliverLiveThrows(f)
  \/ \E s \in Local : AcceptLocal(s)
  \/ \E w \in Worker : Resume(w)

\* None is enabled between sessions, and none ends the session.
LEMMA SessionStepRuns ==
  ASSUME TypeOK, DownIsIdle, SessionStep
  PROVE lifecycle # "down" /\ lifecycle' # "down"
<1> USE Workers DEF DownIsIdle, TransitionTo
<1>1. CASE StartJob \/ Rebuild \/ DrainNext \/ EnterCatchingUp \/ CatchUp \/ EnterBufferingLive
  BY <1>1 DEF StartJob, Rebuild, DrainNext, EnterCatchingUp, CatchUp, EnterBufferingLive
<1>2. CASE DrainBuffered \/ EnterLive \/ ConsumeLatch \/ SaveCheckpoint \/ LateBootstrap
  BY <1>2 DEF DrainBuffered, EnterLive, ConsumeLatch, SaveCheckpoint, LateBootstrap
<1>3. ASSUME NEW f \in Fact, DeliverLive(f) \/ DeliverLiveThrows(f)
      PROVE lifecycle # "down" /\ lifecycle' # "down"
  BY <1>3 DEF DeliverLive, DeliverLiveThrows
<1>4. ASSUME NEW s \in Local, AcceptLocal(s) PROVE lifecycle # "down" /\ lifecycle' # "down"
  BY <1>4 DEF AcceptLocal
<1>5. CASE Failure
  <2>1. ASSUME NEW w \in Worker, GiveUpSignal(w) \/ GiveUpSave(w) \/ GiveUpRemoval(w)
        PROVE lifecycle # "down" /\ lifecycle' # "down"
    BY <2>1 DEF GiveUpSignal, GiveUpSave, GiveUpRemoval, ReportRemoved, AfterSave
  <2>2. ASSUME NEW w \in Worker, RetrySave(w)
        PROVE lifecycle # "down" /\ lifecycle' # "down"
    BY <2>2 DEF RetrySave, Saving
  <2>3. ASSUME NEW w \in Worker, IngestThrows(w)
        PROVE lifecycle # "down" /\ lifecycle' # "down"
    BY <2>3 DEF IngestThrows
  <2>4. CASE LoadThrows
    BY <2>4 DEF LoadThrows
  <2> QED
    BY <1>5, <2>1, <2>2, <2>3, <2>4 DEF Failure
<1>6. ASSUME NEW w \in Worker, Resume(w) PROVE lifecycle # "down" /\ lifecycle' # "down"
  <2>1. CASE \/ HandleMessage(w) \/ AcceptEvent(w) \/ AcceptDeferredAppend(w)
             \/ AcceptDeferredRemove(w)
    BY <2>1 DEF HandleMessage, AcceptEvent, AcceptDeferredAppend, AcceptDeferredRemove, Handling
  <2>2. CASE HandleDeferred(w) \/ HandleSkipped(w) \/ HandleMalformed(w) \/ SaveDeferredIds(w)
    BY <2>2 DEF HandleDeferred, HandleSkipped, HandleMalformed, SaveDeferredIds, AfterSave,
                Handling
  <2>3. CASE PruneExpired(w) \/ EnterRetrying(w) \/ ChargeBatch(w) \/ IngestBatch(w)
    BY <2>3 DEF PruneExpired, EnterRetrying, ChargeBatch, IngestBatch
  <2>4. CASE NextRetried(w) \/ RemoveExhausted(w) \/ SaveRemoval(w) \/ EndOfPass(w)
    BY <2>4 DEF NextRetried, RemoveExhausted, SaveRemoval, ReportRemoved, EndOfPass
  <2> QED
    BY <1>6, <2>1, <2>2, <2>3, <2>4 DEF Resume
<1>7. CASE Rejoin \/ Reopen
  BY <1>7 DEF Rejoin, Reopen
<1> QED
  BY <1>1, <1>2, <1>3, <1>4, <1>5, <1>6, <1>7 DEF SessionStep

\* A step belongs to a session, or begins or ends one, or changes nothing.
LEMMA StepKinds ==
  ASSUME [Next]_vars
  PROVE SessionStep \/ Start \/ LoseMemory \/ UNCHANGED vars
BY DEF Next, SessionStep, Cutover, Environment, Crash, Stop

LEMMA LedgerInvInit == Init => LedgerInv
BY DurableInit DEF Init, LedgerInv, DownIsIdle, Worker

LEMMA LedgerInvStep == LedgerInv /\ [Next]_vars => LedgerInv'
<1> SUFFICES ASSUME LedgerInv, [Next]_vars PROVE DownIsIdle'
  BY DurableStep DEF LedgerInv
<1>1. CASE SessionStep
  BY <1>1, SessionStepRuns DEF LedgerInv, DurableInv, DownIsIdle
<1>2. CASE Start
  BY <1>2 DEF Start, TransitionTo, DownIsIdle
<1>3. CASE LoseMemory
  BY <1>3 DEF LoseMemory, DownIsIdle
<1>4. CASE UNCHANGED vars
  BY <1>4 DEF LedgerInv, DownIsIdle, vars
<1> QED
  BY <1>1, <1>2, <1>3, <1>4, StepKinds

LEMMA SameFunction ==
  ASSUME NEW D, NEW F, NEW G, F = [i \in D |-> F[i]], G = [i \in D |-> G[i]],
         \A i \in D : F[i] = G[i]
  PROVE F = G
<1>1. [i \in D |-> F[i]] = [i \in D |-> G[i]]
  OBVIOUS
<1> QED
  BY <1>1

LEMMA LogOfEntries ==
  ASSUME TypeOK
  PROVE /\ LogOf \in Seq(Event) /\ Len(LogOf) = Len(accepted)
        /\ Ledger!Entries(LogOf) = AcceptedEvents
<1>1. accepted \in Seq([ev : Event, fact : Source])
  BY DEF TypeOK, StoresTyped
<1>2. DOMAIN accepted = 1..Len(accepted) /\ Len(accepted) \in Nat
  BY <1>1, LenProperties
<1>3. ASSUME NEW i \in 1..Len(accepted) PROVE accepted[i].ev \in Event
  <2>1. accepted[i] \in [ev : Event, fact : Source]
    BY <1>1, ElementOfSeq
  <2> QED
    BY <2>1
<1> QED
  BY <1>2, <1>3 DEF LogOf, AcceptedEvents, Ledger!Entries

\* appendAcceptedEvent enters a new event at the end, and leaves the log alone else.
LEMMA LedgerEntered ==
  ASSUME TypeOK, NEW s \in Source, AppendAcceptedEvent(s)
  PROVE \/ EventOf[s] \notin AcceptedEvents /\ LogOf' = Append(LogOf, EventOf[s])
        \/ EventOf[s] \in AcceptedEvents /\ LogOf' = LogOf
<1> DEFINE entry == [ev |-> EventOf[s], fact |-> s]
           Recorded == [ev : Event, fact : Source]
<1>1. CASE EventOf[s] \in AcceptedEvents
  BY <1>1 DEF AppendAcceptedEvent, LogOf
<1>2. CASE EventOf[s] \notin AcceptedEvents
  <2>1. accepted' = Append(accepted, entry)
    BY <1>2 DEF AppendAcceptedEvent
  <2>2. entry.ev = EventOf[s]
    OBVIOUS
  <2>3. entry \in Recorded /\ accepted \in Seq(Recorded)
    BY SourceAssumption DEF TypeOK, StoresTyped
  <2> HIDE DEF entry, Recorded
  <2>4. /\ DOMAIN accepted' = 1..(Len(accepted) + 1) /\ DOMAIN accepted = 1..Len(accepted)
        /\ \A i \in 1..Len(accepted) : accepted'[i] = accepted[i]
        /\ accepted'[Len(accepted) + 1] = entry /\ Len(accepted) \in Nat
    BY <2>1, <2>3, AppendProperties, LenProperties
  <2>5. /\ LogOf \in Seq(Event) /\ Len(LogOf) = Len(accepted) /\ EventOf[s] \in Event
        /\ \A i \in 1..Len(accepted) : LogOf[i] = accepted[i].ev
    BY <2>4, LogOfEntries, SourceAssumption DEF LogOf
  <2>6. /\ Append(LogOf, EventOf[s]) \in Seq(Event)
        /\ Len(Append(LogOf, EventOf[s])) = Len(accepted) + 1
        /\ \A i \in 1..Len(accepted) : Append(LogOf, EventOf[s])[i] = accepted[i].ev
        /\ Append(LogOf, EventOf[s])[Len(accepted) + 1] = EventOf[s]
    BY <2>5, AppendProperties
  <2>7. /\ LogOf' = [i \in 1..(Len(accepted) + 1) |-> LogOf'[i]]
        /\ \A i \in 1..Len(accepted) : LogOf'[i] = accepted[i].ev
        /\ LogOf'[Len(accepted) + 1] = EventOf[s]
    BY <2>2, <2>4 DEF LogOf
  <2>8. Append(LogOf, EventOf[s])
          = [i \in 1..(Len(accepted) + 1) |-> Append(LogOf, EventOf[s])[i]]
    BY <2>6
  <2>9. \A i \in 1..(Len(accepted) + 1) : LogOf'[i] = Append(LogOf, EventOf[s])[i]
    BY <2>4, <2>6, <2>7
  <2>10. LogOf' = Append(LogOf, EventOf[s])
    BY <2>7, <2>8, <2>9, SameFunction
  <2> QED
    BY <1>2, <2>10
<1> QED
  BY <1>1, <1>2

LEMMA LedgerInit == Init => Ledger!Init
BY DEF Init, Ledger!Init

\* What a step that writes or emits does to the ledger.
LEMMA LedgerAcceptEvent ==
  ASSUME LedgerInv, NEW w \in Worker, AcceptEvent(w), lifecycle # "down", lifecycle' # "down"
  PROVE Ledger!Next
<1> DEFINE s == job[w].fact
<1>0. PICK e \in Event : e = EventOf[s] /\ s \in Source /\ TypeOK
  BY JobSource, SourceAssumption DEF LedgerInv, DurableInv
<1>1. /\ s \in Source /\ EventOf[s] = e /\ TypeOK
      /\ AppendAcceptedEvent(s) /\ projection' = Append(projection, e)
  BY <1>0 DEF AcceptEvent, EmitAccepted
<1>2. CASE EventOf[s] \notin AcceptedEvents /\ LogOf' = Append(LogOf, EventOf[s])
  <2>1. Ledger!Enter(e)
    BY <1>1, <1>2, LogOfEntries DEF Ledger!Enter, LogOf
  <2> QED
    BY <2>1 DEF Ledger!Next
<1>3. CASE EventOf[s] \in AcceptedEvents /\ LogOf' = LogOf
  <2>1. Ledger!Show(e)
    BY <1>1, <1>3, LogOfEntries DEF Ledger!Show, LogOf
  <2> QED
    BY <2>1 DEF Ledger!Next
<1> QED
  BY <1>1, <1>2, <1>3, LedgerEntered

LEMMA LedgerAcceptDeferredAppend ==
  ASSUME LedgerInv, NEW w \in Worker, AcceptDeferredAppend(w),
         lifecycle # "down", lifecycle' # "down"
  PROVE [Ledger!Next]_(Ledger!ledger)
<1> DEFINE s == job[w].fact
<1>0. PICK e \in Event : e = EventOf[s] /\ s \in Source /\ TypeOK
  BY JobSource, SourceAssumption DEF LedgerInv, DurableInv
<1>1. /\ s \in Source /\ EventOf[s] = e /\ TypeOK
      /\ AppendAcceptedEvent(s) /\ projection' = projection
  BY <1>0 DEF AcceptDeferredAppend
<1>2. CASE EventOf[s] \notin AcceptedEvents /\ LogOf' = Append(LogOf, EventOf[s])
  <2>1. Ledger!Enter(e)
    BY <1>1, <1>2, LogOfEntries DEF Ledger!Enter, LogOf
  <2> QED
    BY <2>1 DEF Ledger!Next
<1>3. CASE LogOf' = LogOf
  BY <1>1, <1>3 DEF Ledger!ledger, LogOf
<1> QED
  BY <1>1, <1>2, <1>3, LedgerEntered

\* An emission behind the write shows what has been entered.
LEMMA LedgerEmission ==
  ASSUME TypeOK, NEW s \in Source, UNCHANGED accepted,
         lifecycle # "down", lifecycle' # "down",
         \/ EventOf[s] \in AcceptedEvents /\ EmitAccepted(s)
         \/ NothingAccepted
  PROVE [Ledger!Next]_(Ledger!ledger)
<1>1. CASE EventOf[s] \in AcceptedEvents /\ EmitAccepted(s)
  <2>1. PICK e \in Event : e = EventOf[s]
    BY SourceAssumption
  <2>2. Ledger!Show(e)
    BY <1>1, <2>1, LogOfEntries DEF Ledger!Show, EmitAccepted, LogOf
  <2> QED
    BY <2>2 DEF Ledger!Next
<1>2. CASE NothingAccepted
  BY <1>2 DEF NothingAccepted, Ledger!ledger
<1> QED
  BY <1>1, <1>2

LEMMA LedgerAfterSave ==
  ASSUME LedgerInv, NEW w \in Worker, pc[w] = "save", NEW landed \in BOOLEAN,
         AfterSave(w, landed), lifecycle # "down", lifecycle' # "down"
  PROVE [Ledger!Next]_(Ledger!ledger)
<1>1. job[w].fact \in Source /\ TypeOK /\ UNCHANGED accepted
  BY JobSource DEF AfterSave, LedgerInv, DurableInv
<1>2. \/ EventOf[job[w].fact] \in AcceptedEvents /\ EmitAccepted(job[w].fact)
      \/ NothingAccepted
  BY DEF AfterSave, LedgerInv, DurableInv, CarriesAccepted
<1> QED
  BY <1>1, <1>2, LedgerEmission

LEMMA LedgerAcceptDeferredRemove ==
  ASSUME LedgerInv, NEW w \in Worker, AcceptDeferredRemove(w),
         lifecycle # "down", lifecycle' # "down"
  PROVE [Ledger!Next]_(Ledger!ledger)
<1>1. job[w].fact \in Source /\ TypeOK /\ UNCHANGED accepted
  BY JobSource DEF AcceptDeferredRemove, LedgerInv, DurableInv
<1>2. \/ EventOf[job[w].fact] \in AcceptedEvents /\ EmitAccepted(job[w].fact)
      \/ NothingAccepted
  BY DEF AcceptDeferredRemove, LedgerInv, DurableInv, CarriesAccepted
<1> QED
  BY <1>1, <1>2, LedgerEmission

\* Every other step of a session leaves the log and what was shown alone.
QuietStep ==
  \/ StartJob \/ Rebuild \/ DrainNext \/ EnterCatchingUp \/ CatchUp \/ EnterBufferingLive
  \/ DrainBuffered \/ EnterLive \/ ConsumeLatch \/ SaveCheckpoint \/ LateBootstrap
  \/ LoadThrows \/ Rejoin \/ Reopen
  \/ \E f \in Fact : DeliverLive(f) \/ DeliverLiveThrows(f)
  \/ \E s \in Local : AcceptLocal(s)
  \/ \E w \in Worker :
       \/ HandleMessage(w) \/ HandleDeferred(w) \/ HandleSkipped(w) \/ HandleMalformed(w)
       \/ PruneExpired(w) \/ EnterRetrying(w) \/ ChargeBatch(w) \/ IngestBatch(w)
       \/ NextRetried(w) \/ RemoveExhausted(w) \/ SaveRemoval(w) \/ EndOfPass(w)
       \/ GiveUpSignal(w) \/ GiveUpRemoval(w) \/ RetrySave(w) \/ IngestThrows(w)

LEMMA QuietStepIsQuiet == ASSUME QuietStep PROVE UNCHANGED <<accepted, projection>>
<1>1. CASE StartJob \/ Rebuild \/ DrainNext \/ EnterCatchingUp \/ CatchUp \/ EnterBufferingLive
  BY <1>1 DEF StartJob, Rebuild, DrainNext, EnterCatchingUp, CatchUp, EnterBufferingLive
<1>2. CASE DrainBuffered \/ EnterLive \/ ConsumeLatch \/ SaveCheckpoint \/ LateBootstrap
  BY <1>2 DEF DrainBuffered, EnterLive, ConsumeLatch, SaveCheckpoint, LateBootstrap
<1>3. CASE \/ \E f \in Fact : DeliverLive(f) \/ DeliverLiveThrows(f)
           \/ \E s \in Local : AcceptLocal(s)
  BY <1>3 DEF DeliverLive, DeliverLiveThrows, AcceptLocal
<1>4. ASSUME NEW w \in Worker,
             \/ HandleMessage(w) \/ HandleDeferred(w) \/ HandleSkipped(w) \/ HandleMalformed(w)
      PROVE UNCHANGED <<accepted, projection>>
  BY <1>4 DEF HandleMessage, HandleDeferred, HandleSkipped, HandleMalformed
<1>5. ASSUME NEW w \in Worker,
             \/ PruneExpired(w) \/ EnterRetrying(w) \/ ChargeBatch(w) \/ IngestBatch(w)
             \/ NextRetried(w) \/ RemoveExhausted(w) \/ SaveRemoval(w) \/ EndOfPass(w)
      PROVE UNCHANGED <<accepted, projection>>
  BY <1>5 DEF PruneExpired, EnterRetrying, ChargeBatch, IngestBatch, NextRetried,
              RemoveExhausted, SaveRemoval, ReportRemoved, EndOfPass
<1>6. ASSUME NEW w \in Worker,
             GiveUpSignal(w) \/ GiveUpRemoval(w) \/ RetrySave(w) \/ IngestThrows(w)
      PROVE UNCHANGED <<accepted, projection>>
  BY <1>6 DEF GiveUpSignal, GiveUpRemoval, ReportRemoved, RetrySave, IngestThrows
<1>7. CASE LoadThrows \/ Rejoin \/ Reopen
  BY <1>7 DEF LoadThrows, Rejoin, Reopen
<1> QED
  BY <1>1, <1>2, <1>3, <1>4, <1>5, <1>6, <1>7 DEF QuietStep

\* Every step of a session is a step of the ledger or a stutter.
LEMMA LedgerSessionStep ==
  ASSUME LedgerInv, SessionStep
  PROVE [Ledger!Next]_(Ledger!ledger)
<1>1. lifecycle # "down" /\ lifecycle' # "down"
  BY SessionStepRuns DEF LedgerInv, DurableInv
<1>2. CASE QuietStep
  BY <1>1, <1>2, QuietStepIsQuiet DEF Ledger!ledger
<1>3. ASSUME NEW w \in Worker,
             \/ AcceptEvent(w) \/ AcceptDeferredAppend(w) \/ AcceptDeferredRemove(w)
             \/ SaveDeferredIds(w) \/ GiveUpSave(w)
      PROVE [Ledger!Next]_(Ledger!ledger)
  <2>1. CASE AcceptEvent(w)
    BY <1>1, <2>1, LedgerAcceptEvent
  <2>2. CASE AcceptDeferredAppend(w)
    BY <1>1, <2>2, LedgerAcceptDeferredAppend
  <2>3. CASE AcceptDeferredRemove(w)
    BY <1>1, <2>3, LedgerAcceptDeferredRemove
  <2>4. CASE SaveDeferredIds(w)
    BY <1>1, <2>4, LedgerAfterSave DEF SaveDeferredIds
  <2>5. CASE GiveUpSave(w)
    BY <1>1, <2>5, LedgerAfterSave DEF GiveUpSave
  <2> QED
    BY <1>3, <2>1, <2>2, <2>3, <2>4, <2>5
<1>4. QuietStep \/ \E w \in Worker :
             \/ AcceptEvent(w) \/ AcceptDeferredAppend(w) \/ AcceptDeferredRemove(w)
             \/ SaveDeferredIds(w) \/ GiveUpSave(w)
  BY DEF SessionStep, QuietStep, Failure, Resume
<1> QED
  BY <1>2, <1>3, <1>4

LEMMA LedgerStep == LedgerInv /\ [Next]_vars => [Ledger!Next]_(Ledger!ledger)
<1> SUFFICES ASSUME LedgerInv, [Next]_vars PROVE [Ledger!Next]_(Ledger!ledger)
  OBVIOUS
<1>1. CASE SessionStep
  BY <1>1, LedgerSessionStep
<1>2. CASE Start
  BY <1>2 DEF Start, TransitionTo, Ledger!Next, Ledger!Open
<1>3. CASE LoseMemory
  BY <1>3 DEF LoseMemory, Ledger!Next, Ledger!Close
<1>4. CASE UNCHANGED vars
  BY <1>4 DEF vars, Ledger!ledger
<1> QED
  BY <1>1, <1>2, <1>3, <1>4, StepKinds

\* The engine implements the ledger: each event is entered once and for good, only
\* what was entered is shown, in a session that is under way, and a restart shows the
\* log again from its beginning, for any envelopes, crashes, failed writes and
\* interleavings of the two continuations.
THEOREM ImplementsLedger == Spec => KeepsTheLedger
<1>1. Spec => []LedgerInv
  BY LedgerInvInit, LedgerInvStep, PTL DEF Spec
<1> QED
  BY <1>1, LedgerInit, LedgerStep, PTL DEF Spec, KeepsTheLedger, Ledger!Spec

=============================================================================
