---------------------------- MODULE ReceiveEngine ----------------------------
(***************************************************************************)
(* The data plane of the per-group receive engine                          *)
(* (src/src/engine/receive-engine.ts, with its ingest policy, the stores   *)
(* of src/src/persistence and the ingest side of the marmot adapter).      *)
(*                                                                         *)
(* JavaScript runs to completion between two awaits, so an action here is  *)
(* the code from one await to the next, and pc[w] names the await a        *)
(* continuation is suspended at.  Two continuations handle signals:        *)
(* "chain" is the job at the head of the serial FIFO; "cutover" is the     *)
(* continuation of start(), which rebuilds after a restart (R1..R4),       *)
(* drains history and the live buffer into the FIFO and, on reaching live  *)
(* with a latched epoch advance, runs a retry pass outside the FIFO.       *)
(*                                                                         *)
(* A fact is one kind-445 envelope: an application message carrying a task *)
(* event (Task), one that does not decode (Malformed), or a commit         *)
(* (Commit).  NeedEpoch is the MLS epoch from which it decrypts.           *)
(***************************************************************************)
EXTENDS Naturals, Sequences, FiniteSets

CONSTANTS
  Fact,         \* the envelopes the relay holds for the group
  Local,        \* the optimistic local edits the user dispatches
  Event,        \* ids of accepted domain events
  EventOf,      \* the event id derived from an envelope or local edit
  Commit,       \* the envelopes that are MLS commits
  Malformed,    \* the envelopes whose payload does not decode
  NeedEpoch,    \* the epoch from which an envelope decrypts
  Expirable,    \* parked facts that may outlive maxDeferredAgeSec
  MaxDeferred,  \* IngestPolicyOptions.maxDeferredSize
  MaxAttempts,  \* IngestPolicyOptions.maxRetryAttempts
  MaxCopies,    \* bound: deliveries of each envelope, dispatches of each local edit
  MaxRestarts,  \* bound: crashes and stops
  MaxFailures,  \* bound: writes that fail (a blocking one for good, a
                \* checkpoint save at its first attempt), reads at a start and
                \* calls of group.ingest() that reject
  NoCheckpoint  \* no readable checkpoint

Source == Fact \union Local

ASSUME SourceAssumption ==
  /\ IsFiniteSet(Fact) /\ Source # {} /\ Fact \intersect Local = {}
  /\ EventOf \in [Source -> Event]
  /\ Commit \subseteq Fact /\ Malformed \subseteq Fact /\ Expirable \subseteq Fact
  /\ Commit \intersect Malformed = {}
  /\ NeedEpoch \in [Fact -> Nat]

ASSUME BoundAssumption ==
  /\ MaxDeferred \in Nat \ {0} /\ MaxAttempts \in Nat \ {0}
  /\ MaxCopies \in [Source -> Nat] /\ MaxRestarts \in Nat /\ MaxFailures \in Nat

Task == Fact \ (Commit \union Malformed)

Checkpoint == [lastIngestedSeq : Nat, bootstrapCompleted : BOOLEAN]

ASSUME CheckpointAssumption == NoCheckpoint \notin Checkpoint

Worker == {"chain", "cutover"}

IngestKind == {"message", "deferred", "skipped", "malformed", "epoch_advanced"}

\* Of an epoch_advanced, fact is the commit.
IngestSignal == [kind : IngestKind, fact : Fact]

\* What the FIFO queues: an ingest signal or an acceptLocal.
Signal == IngestSignal \union [kind : {"local"}, fact : Local]

\* The signal a continuation is handling; retry: inside a deferred-retry pass.
Job == [kind : IngestKind, fact : Fact, retry : BOOLEAN]
       \union [kind : {"local"}, fact : Source, retry : {FALSE}]

Reason == {"parse_error", "retry-exhausted", "deferred-ttl-expired", "persistence-exhausted"}

\* "down" stands for no running engine: uninitialized or stopped.
Lifecycle == {"down", "joining", "recovering", "catching_up", "buffering_live", "live",
              "retrying_deferred"}

\* The awaits a continuation may be suspended at.
PC == {"idle", "append", "accept", "acceptDeferred", "unpark", "save", "prune", "pruneSave",
       "batch", "charge", "ingest", "pass", "exhausted", "exhaustedSave", "loop",
       "rebuild", "bootstrap", "catchUp", "drain", "buffer", "latch", "rejoin", "reopen"}

\* A retry pass suspended by one nested in it.
Frame == [stream : Seq(IngestSignal), entered : BOOLEAN]

VARIABLES
  seqOf,        \* raw log: the seq of each appended fact, 0 for the others
  accepted,     \* accepted log, in append order
  deferredIds,  \* deferred-store
  checkpoint    \* checkpoint-store

VARIABLES
  epoch,        \* MLS group epoch (durable, owned by the MLS library)
  consumed,     \* facts whose ratchet key or commit is used up (durable)
  copies        \* deliveries of each envelope, dispatches of each local edit

VARIABLES
  lifecycle, processed, deferred, attempts, lastIngestedSeq,
  bootstrapCompleted, pendingDeferredRetry

VARIABLES
  serialQueue,  \* signals enqueued on the serial FIFO
  liveBuffer,   \* live signals held back until the cutover
  pc, job,      \* per continuation: the await it is at, the signal it handles
  ids,          \* the id list passed to the saveDeferredIds call in flight
  firstSave,    \* of two such calls in flight, whose was issued first
  batch,        \* facts still to ingest, or removed from the queue and to report
  stream,       \* signals the adapter's iterator has yet to yield
  entered,      \* everEnteredRetrying of the innermost retry pass
  frames        \* the retry passes suspended around it

VARIABLES
  projection,   \* events folded by the consumer: the log at boot, then emissions
  rejected,     \* domain_event_rejected emissions
  evicted,      \* facts dropped by the queue's size cap
  interrupted   \* facts whose acceptance or rejection a crash, a stop or a
                \* group.ingest() that rejected cut off

VARIABLES
  orphaned,     \* logged facts over which a session joined instead of recovering
  inFetch,      \* the cutover runs inside runBootstrapFetch's try block
  restarts, failures

stores  == <<seqOf, accepted, deferredIds, checkpoint>>
group   == <<epoch, consumed, copies>>
memory  == <<lifecycle, processed, deferred, attempts, lastIngestedSeq,
             bootstrapCompleted, pendingDeferredRetry>>
saving  == <<ids, firstSave>>
pass    == <<batch, stream, entered, frames>>
control == <<serialQueue, liveBuffer, pc, job, saving, pass>>
outputs == <<projection, rejected, evicted, interrupted>>
session == <<orphaned, inFetch, restarts>>
budget  == <<session, failures>>
vars    == <<stores, group, memory, control, outputs, budget>>

----------------------------------------------------------------------------
(* The stores and the ingest policy. *)

AcceptedEvents == {accepted[i].ev : i \in DOMAIN accepted}
AcceptedFacts  == {accepted[i].fact : i \in DOMAIN accepted}

NextSeq == Cardinality({f \in Fact : seqOf[f] # 0}) + 1

\* The seq appendFact returns: a duplicate keeps the one it has.
SeqAfterAppend(f) == IF seqOf[f] = 0 THEN NextSeq ELSE seqOf[f]

AppendFact(f) == seqOf' = [seqOf EXCEPT ![f] = SeqAfterAppend(f)]

AppendAcceptedEvent(s) ==
  accepted' = IF EventOf[s] \in AcceptedEvents THEN accepted
              ELSE Append(accepted, [ev |-> EventOf[s], fact |-> s])

AdvanceWatermark(seq) ==
  lastIngestedSeq' = IF seq > lastIngestedSeq THEN seq ELSE lastIngestedSeq

\* enqueueDeferred of a fact that is not queued; the eldest entries over the
\* cap go (which one is eldest is abstracted to any earlier entry).
EnqueueDeferred(f) ==
  /\ attempts' = [attempts EXCEPT ![f] = 0]
  /\ \E out \in SUBSET deferred :
       /\ Cardinality(out) = IF Cardinality(deferred) >= MaxDeferred
                             THEN Cardinality(deferred) + 1 - MaxDeferred ELSE 0
       /\ deferred' = (deferred \ out) \union {f}
       /\ evicted' = evicted \union out

RetryBatch == {f \in deferred : attempts[f] < MaxAttempts}
ExhaustedEntries == {f \in deferred : attempts[f] >= MaxAttempts}

Snapshot == [lastIngestedSeq |-> lastIngestedSeq, bootstrapCompleted |-> bootstrapCompleted]

\* A write fails for good after its bounded retries (withPersistenceRetry).
GiveUp == failures < MaxFailures /\ failures' = failures + 1

\* transitionTo: the checkpoint save is attempted once before moving on.
TransitionTo(new) ==
  /\ lifecycle' = new
  /\ \/ checkpoint' = Snapshot' /\ UNCHANGED failures
     \/ UNCHANGED checkpoint /\ GiveUp

----------------------------------------------------------------------------
(* group.ingest(): what the adapter yields for one envelope. *)

\* The ratchet key is used up, or the commit belongs to a past epoch.
Stale(f) == f \in consumed \/ (f \in Commit /\ epoch > NeedEpoch[f])

Content(f) == IF f \in Commit THEN "epoch_advanced"
              ELSE IF f \in Malformed THEN "malformed" ELSE "message"

\* Mutant: the library's own verdict is passed on untranslated.
ClassifyUntranslated(f) == IF Stale(f) THEN "skipped"
                           ELSE IF epoch < NeedEpoch[f] THEN "unreadable" ELSE Content(f)

Classify(f) == IF Stale(f) THEN "skipped"
               ELSE IF epoch < NeedEpoch[f] THEN "deferred" ELSE Content(f)

Ingest(f) ==
  /\ consumed' = IF Classify(f) = "deferred" THEN consumed ELSE consumed \union {f}
  /\ epoch' = IF Classify(f) = "epoch_advanced" THEN epoch + 1 ELSE epoch

Ingested(f) == [kind |-> Classify(f), fact |-> f]

\* The message of f is one of the signals in s.
Carries(s, f) == \E i \in DOMAIN s : s[i] = [kind |-> "message", fact |-> f]

\* Mutant: a pass takes the mutex before it asks for it.
IngestMutexFreeNested == \A w \in Worker : pc[w] \notin {"charge", "ingest"}

\* The adapter's ingestChain mutex: one batch at a time.
IngestMutexFree == \A w \in Worker : pc[w] # "ingest"

\* MIP-03: within a batch, commits after everything else.
NextOfBatch(w) == {f \in batch[w] : f \in Commit => batch[w] \subseteq Commit}

----------------------------------------------------------------------------
(* Continuations. *)

IdleJob == [kind |-> "local", fact |-> CHOOSE s \in Source : TRUE, retry |-> FALSE]

Await(w, at) == pc' = [pc EXCEPT ![w] = at]

\* A handler returns: to the pass that called it, or the FIFO job is over.
Return(w) == /\ Await(w, IF job[w].retry THEN "pass" ELSE "idle")
             /\ job' = [job EXCEPT ![w] = IdleJob]

Saving(w) == pc[w] \in {"save", "pruneSave", "exhaustedSave"}

\* Mutant: the id list is computed before the queue is updated.
IssueSaveStale(w, at) ==
  /\ ids' = [ids EXCEPT ![w] = deferred]
  /\ firstSave' = IF \E v \in Worker \ {w} : Saving(v)
                  THEN CHOOSE v \in Worker : v # w ELSE w
  /\ Await(w, at)

\* saveDeferredIds is called with the queue as it then is, and awaited at `at`.
IssueSave(w, at) ==
  /\ ids' = [ids EXCEPT ![w] = deferred']
  /\ firstSave' = IF \E v \in Worker \ {w} : Saving(v)
                  THEN CHOOSE v \in Worker : v # w ELSE w
  /\ Await(w, at)

\* The object store runs its writes in the order they were issued.
SaveTurn(w) == (\E v \in Worker \ {w} : Saving(v)) => firstSave = w

SaveReturns(w) == /\ SaveTurn(w)
                  /\ ids' = [ids EXCEPT ![w] = {}]
                  /\ UNCHANGED firstSave

\* Mutant: nothing is emitted outside live.
EmitAcceptedWhenLive(s) ==
  /\ processed' = processed \union {EventOf[s]}
  /\ projection' = IF lifecycle = "live" THEN Append(projection, EventOf[s]) ELSE projection
  /\ IF s \in Fact THEN AdvanceWatermark(seqOf[s]) ELSE UNCHANGED lastIngestedSeq

\* markProcessed, advanceWatermark and the domain_event_accepted emission.
EmitAccepted(s) ==
  /\ processed' = processed \union {EventOf[s]}
  /\ projection' = Append(projection, EventOf[s])
  /\ IF s \in Fact THEN AdvanceWatermark(seqOf[s]) ELSE UNCHANGED lastIngestedSeq

NothingAccepted == UNCHANGED <<processed, projection>>

Handling(w, at, kind) == pc[w] = at /\ job[w].kind = kind

\* A retry pass begins; outer is the pass it suspends, if any.
EnterPass(w, outer) ==
  /\ Await(w, "prune")
  /\ entered' = [entered EXCEPT ![w] = FALSE]
  /\ frames' = [frames EXCEPT ![w] = outer \o @]

\* Mutant: an advance seen while not live is not latched.
HandleEpochAdvancedNoLatch(w, outer) ==
  /\ UNCHANGED pendingDeferredRetry
  /\ IF lifecycle = "live" /\ deferred # {}
     THEN EnterPass(w, outer) ELSE UNCHANGED <<pc, entered, frames>>

\* Live with a parked queue: retry at once.  Not live: latch.  Else nothing.
HandleEpochAdvanced(w, outer) ==
  /\ pendingDeferredRetry' = (pendingDeferredRetry \/ lifecycle # "live")
  /\ IF lifecycle = "live" /\ deferred # {}
     THEN EnterPass(w, outer) ELSE UNCHANGED <<pc, entered, frames>>

----------------------------------------------------------------------------
(* One signal at a time: processSignal and handleDeferredRetrySignal. *)

\* The head of the FIFO starts.  A local edit that is already accepted and an
\* epoch advance with nothing to retry are over without an await.
StartJob ==
  /\ pc["chain"] = "idle" /\ serialQueue # <<>>
  /\ serialQueue' = Tail(serialQueue)
  /\ LET s == Head(serialQueue)
         Handle(at) == /\ Await("chain", at)
                       /\ job' = [job EXCEPT !["chain"] =
                            [kind |-> s.kind, fact |-> s.fact, retry |-> FALSE]]
                       /\ UNCHANGED <<pendingDeferredRetry, entered, frames>>
     IN
     \/ s.kind \notin {"epoch_advanced", "local"} /\ Handle("append")
     \/ s.kind = "local" /\ EventOf[s.fact] \notin processed /\ Handle("accept")
     \/ /\ s.kind = "local" /\ EventOf[s.fact] \in processed
        /\ UNCHANGED <<pc, job, pendingDeferredRetry, entered, frames>>
     \/ /\ s.kind = "epoch_advanced" /\ HandleEpochAdvanced("chain", <<>>)
        /\ UNCHANGED job
  /\ UNCHANGED <<stores, group, lifecycle, processed, deferred, attempts, lastIngestedSeq,
                 bootstrapCompleted, liveBuffer, saving, batch, stream, outputs, budget>>

\* handleMessage and the "message" case of a retry, up to the write of the
\* accepted event; an event accepted before needs none.
HandleMessage(w) ==
  /\ Handling(w, "append", "message")
  /\ LET f == job[w].fact IN
     /\ AppendFact(f)
     /\ \/ /\ EventOf[f] \in processed /\ ~job[w].retry
           /\ AdvanceWatermark(SeqAfterAppend(f))
           /\ Return(w)
           /\ UNCHANGED <<deferred, saving>>
        \/ /\ EventOf[f] \in processed /\ job[w].retry
           /\ AdvanceWatermark(SeqAfterAppend(f))
           /\ deferred' = deferred \ {f}
           /\ IssueSave(w, "save")
           /\ UNCHANGED job
        \/ /\ EventOf[f] \notin processed
           /\ Await(w, IF job[w].retry \/ f \in deferred THEN "acceptDeferred" ELSE "accept")
           /\ UNCHANGED <<lastIngestedSeq, deferred, saving, job>>
  /\ UNCHANGED <<accepted, deferredIds, checkpoint, group, lifecycle, processed, attempts,
                 bootstrapCompleted, pendingDeferredRetry, serialQueue, liveBuffer, pass,
                 outputs, budget>>

\* appendAcceptedEvent lands: a fresh message, or a local edit.
AcceptEvent(w) ==
  /\ pc[w] = "accept"
  /\ AppendAcceptedEvent(job[w].fact)
  /\ EmitAccepted(job[w].fact)
  /\ Return(w)
  /\ UNCHANGED <<seqOf, deferredIds, checkpoint, group, lifecycle, deferred, attempts,
                 bootstrapCompleted, pendingDeferredRetry, serialQueue, liveBuffer, saving,
                 pass, rejected, evicted, interrupted, budget>>

\* Mutant: step 2 does not wait for the accepted-log write, and it is lost.
AcceptDeferredAppendNotAwaited(w) ==
  /\ pc[w] = "acceptDeferred"
  /\ Await(w, "unpark")
  /\ UNCHANGED <<stores, group, memory, serialQueue, liveBuffer, job, saving, pass, outputs,
                 budget>>

\* acceptDeferredFact, step 1: the accepted log first.
AcceptDeferredAppend(w) ==
  /\ pc[w] = "acceptDeferred"
  /\ AppendAcceptedEvent(job[w].fact)
  /\ Await(w, "unpark")
  /\ UNCHANGED <<seqOf, deferredIds, checkpoint, group, memory, serialQueue, liveBuffer, job,
                 saving, pass, outputs, budget>>

\* acceptDeferredFact, step 2, and what its caller does next: a retry emits
\* before its saveDeferredIds, handleMessage after it.
AcceptDeferredRemove(w) ==
  /\ pc[w] = "unpark"
  /\ LET f == job[w].fact IN
     /\ deferredIds' = deferredIds \ {f}
     /\ deferred' = deferred \ {f}
     /\ IF job[w].retry THEN EmitAccepted(f)
        ELSE NothingAccepted /\ UNCHANGED lastIngestedSeq
  /\ IssueSave(w, "save")
  /\ UNCHANGED <<seqOf, accepted, checkpoint, group, lifecycle, attempts, bootstrapCompleted,
                 pendingDeferredRetry, serialQueue, liveBuffer, job, pass, rejected, evicted,
                 interrupted, budget>>

\* handleDeferred parks the fact; one that is parked already stays so.
HandleDeferred(w) ==
  /\ Handling(w, "append", "deferred")
  /\ LET f == job[w].fact IN
     /\ AppendFact(f)
     /\ \/ /\ job[w].retry \/ f \in deferred
           /\ AdvanceWatermark(SeqAfterAppend(f))
           /\ Return(w)
           /\ UNCHANGED <<deferred, attempts, evicted, saving>>
        \/ /\ ~job[w].retry /\ f \notin deferred
           /\ EnqueueDeferred(f)
           /\ IssueSave(w, "save")
           /\ UNCHANGED <<lastIngestedSeq, job>>
  /\ UNCHANGED <<accepted, deferredIds, checkpoint, group, lifecycle, processed,
                 bootstrapCompleted, pendingDeferredRetry, serialQueue, liveBuffer, pass,
                 projection, rejected, interrupted, budget>>

\* handleSkipped; a retried fact leaves the queue.
HandleSkipped(w) ==
  /\ Handling(w, "append", "skipped")
  /\ LET f == job[w].fact IN
     /\ AppendFact(f)
     /\ AdvanceWatermark(SeqAfterAppend(f))
     /\ \/ ~job[w].retry /\ Return(w) /\ UNCHANGED <<deferred, saving>>
        \/ /\ job[w].retry
           /\ deferred' = deferred \ {f}
           /\ IssueSave(w, "save")
           /\ UNCHANGED job
  /\ UNCHANGED <<accepted, deferredIds, checkpoint, group, lifecycle, processed, attempts,
                 bootstrapCompleted, pendingDeferredRetry, serialQueue, liveBuffer, pass,
                 outputs, budget>>

\* handleMalformed; a retry reports before it un-parks, handleMalformed after.
HandleMalformed(w) ==
  /\ Handling(w, "append", "malformed")
  /\ LET f == job[w].fact IN
     /\ AppendFact(f)
     /\ AdvanceWatermark(SeqAfterAppend(f))
     /\ \/ /\ ~job[w].retry /\ f \notin deferred
           /\ Return(w)
           /\ rejected' = rejected \union {<<f, "parse_error">>}
           /\ UNCHANGED <<deferred, saving>>
        \/ /\ job[w].retry \/ f \in deferred
           /\ deferred' = deferred \ {f}
           /\ IssueSave(w, "save")
           /\ rejected' = rejected \union (IF job[w].retry THEN {<<f, "parse_error">>} ELSE {})
           /\ UNCHANGED job
  /\ UNCHANGED <<accepted, deferredIds, checkpoint, group, lifecycle, processed, attempts,
                 bootstrapCompleted, pendingDeferredRetry, serialQueue, liveBuffer, pass,
                 projection, evicted, interrupted, budget>>

\* What follows a handler's saveDeferredIds, whether or not it landed: only the
\* watermark of a newly parked fact depends on it.
AfterSave(w, landed) ==
  LET f == job[w].fact IN
  /\ Return(w)
  /\ \/ /\ job[w].kind = "message" /\ ~job[w].retry
        /\ EmitAccepted(f)
        /\ UNCHANGED rejected
     \/ /\ job[w].kind = "deferred"
        /\ IF landed THEN AdvanceWatermark(seqOf[f]) ELSE UNCHANGED lastIngestedSeq
        /\ NothingAccepted /\ UNCHANGED rejected
     \/ /\ job[w].kind = "malformed" /\ ~job[w].retry
        /\ rejected' = rejected \union {<<f, "parse_error">>}
        /\ NothingAccepted /\ UNCHANGED lastIngestedSeq
     \/ /\ job[w].retry
        /\ NothingAccepted /\ UNCHANGED <<lastIngestedSeq, rejected>>
  /\ UNCHANGED <<seqOf, accepted, checkpoint, group, lifecycle, deferred, attempts,
                 bootstrapCompleted, pendingDeferredRetry, serialQueue, liveBuffer, pass,
                 evicted, interrupted, session>>

SaveDeferredIds(w) ==
  /\ pc[w] = "save" /\ SaveReturns(w)
  /\ deferredIds' = ids[w] /\ UNCHANGED failures
  /\ AfterSave(w, TRUE)

----------------------------------------------------------------------------
(* The deferred-retry pass, L8 -> L9 (enterRetryingDeferred). *)

\* pruneAndReportTtlExpired: the aged-out entries leave the queue.
PruneExpired(w) ==
  /\ pc[w] = "prune"
  /\ \E old \in SUBSET (deferred \intersect Expirable) :
       /\ deferred' = deferred \ old
       /\ batch' = [batch EXCEPT ![w] = old]
       /\ IF old = {} THEN Await(w, "batch") /\ UNCHANGED saving
          ELSE IssueSave(w, "pruneSave")
  /\ UNCHANGED <<stores, group, lifecycle, processed, attempts, lastIngestedSeq,
                 bootstrapCompleted, pendingDeferredRetry, serialQueue, liveBuffer, job, stream,
                 entered, frames, outputs, budget>>

\* The batch is computed; the first that is not empty enters retrying_deferred.
EnterRetrying(w) ==
  /\ pc[w] = "batch"
  /\ batch' = [batch EXCEPT ![w] = RetryBatch]
  /\ UNCHANGED <<lastIngestedSeq, bootstrapCompleted>>
  /\ \/ /\ RetryBatch = {}
        /\ Await(w, "exhausted")
        /\ UNCHANGED <<lifecycle, checkpoint, failures, entered>>
     \/ /\ RetryBatch # {} /\ entered[w]
        /\ Await(w, "charge")
        /\ UNCHANGED <<lifecycle, checkpoint, failures, entered>>
     \/ /\ RetryBatch # {} /\ ~entered[w]
        /\ Await(w, "charge")
        /\ entered' = [entered EXCEPT ![w] = TRUE]
        /\ TransitionTo("retrying_deferred")
  /\ UNCHANGED <<seqOf, accepted, deferredIds, group, processed, deferred, attempts,
                 pendingDeferredRetry, serialQueue, liveBuffer, job, saving, stream, frames,
                 outputs, session>>

\* runDeferredRetryPass charges every entry and hands the batch to the adapter,
\* which ingests all of it before the first signal comes back.
ChargeBatch(w) ==
  /\ pc[w] = "charge" /\ IngestMutexFree
  /\ attempts' = [f \in Fact |-> IF f \in batch[w] \intersect deferred
                                 THEN attempts[f] + 1 ELSE attempts[f]]
  /\ Await(w, "ingest")
  /\ UNCHANGED <<stores, group, lifecycle, processed, deferred, lastIngestedSeq,
                 bootstrapCompleted, pendingDeferredRetry, serialQueue, liveBuffer, job, saving,
                 pass, outputs, budget>>

Draining(w) == w = "cutover" /\ lifecycle \in {"recovering", "catching_up"}

\* runIngestBatch, for a retry pass, R3 or catchUp: all signals are translated
\* before the first is yielded.
IngestBatch(w) ==
  /\ pc[w] = "ingest"
  /\ \/ /\ batch[w] = {}
        /\ Await(w, IF Draining(w) THEN "drain" ELSE "pass")
        /\ UNCHANGED <<batch, stream, epoch, consumed>>
     \/ \E f \in NextOfBatch(w) :
        /\ Ingest(f)
        /\ stream' = [stream EXCEPT ![w] = Append(@, Ingested(f))]
        /\ batch' = [batch EXCEPT ![w] = @ \ {f}]
        /\ UNCHANGED pc
  /\ UNCHANGED <<stores, copies, memory, serialQueue, liveBuffer, job, saving, entered, frames,
                 outputs, budget>>

\* The pass takes the next yielded signal, or ends.  A nested epoch_advanced is
\* latched, unless a concurrent pass has meanwhile gone back to live.
NextRetried(w) ==
  /\ pc[w] = "pass"
  /\ \/ /\ stream[w] = <<>>
        /\ Await(w, "exhausted")
        /\ UNCHANGED <<job, stream, entered, frames, pendingDeferredRetry>>
     \/ /\ stream[w] # <<>> /\ Head(stream[w]).kind # "epoch_advanced"
        /\ stream' = [stream EXCEPT ![w] = Tail(@)]
        /\ job' = [job EXCEPT ![w] = [kind |-> Head(stream[w]).kind,
                                      fact |-> Head(stream[w]).fact, retry |-> TRUE]]
        /\ Await(w, "append")
        /\ UNCHANGED <<entered, frames, pendingDeferredRetry>>
     \/ /\ stream[w] # <<>> /\ Head(stream[w]).kind = "epoch_advanced"
        /\ HandleEpochAdvanced(w, <<[stream |-> Tail(stream[w]), entered |-> entered[w]]>>)
        /\ stream' = [stream EXCEPT ![w] = IF frames' = frames THEN Tail(@) ELSE <<>>]
        /\ UNCHANGED job
  /\ UNCHANGED <<stores, group, lifecycle, processed, deferred, attempts, lastIngestedSeq,
                 bootstrapCompleted, serialQueue, liveBuffer, saving, batch, outputs, budget>>

\* reportAndRemoveExhausted: entries whose retry budget is spent leave.
RemoveExhausted(w) ==
  /\ pc[w] = "exhausted"
  /\ deferred' = deferred \ ExhaustedEntries
  /\ batch' = [batch EXCEPT ![w] = ExhaustedEntries]
  /\ IF ExhaustedEntries = {} THEN Await(w, "loop") /\ UNCHANGED saving
     ELSE IssueSave(w, "exhaustedSave")
  /\ UNCHANGED <<stores, group, lifecycle, processed, attempts, lastIngestedSeq,
                 bootstrapCompleted, pendingDeferredRetry, serialQueue, liveBuffer, job, stream,
                 entered, frames, outputs, budget>>

\* The save after a prune or a removal returns and each entry is reported.
ReportRemoved(w) ==
  /\ \/ /\ pc[w] = "pruneSave" /\ Await(w, "batch")
        /\ rejected' = rejected \union (batch[w] \X {"deferred-ttl-expired"})
     \/ /\ pc[w] = "exhaustedSave" /\ Await(w, "loop")
        /\ rejected' = rejected \union (batch[w] \X {"retry-exhausted"})
  /\ batch' = [batch EXCEPT ![w] = {}]
  /\ SaveReturns(w)
  /\ UNCHANGED <<seqOf, accepted, checkpoint, group, memory, serialQueue, liveBuffer, job,
                 stream, entered, frames, projection, evicted, interrupted, session>>

SaveRemoval(w) == ReportRemoved(w) /\ deferredIds' = ids[w] /\ UNCHANGED failures

\* The pass returns to the pass it suspended, to the FIFO or to start().
LeavePass(w) ==
  IF frames[w] = <<>>
  THEN /\ Await(w, "idle")
       /\ entered' = [entered EXCEPT ![w] = FALSE]
       /\ UNCHANGED <<stream, frames>>
  ELSE /\ Await(w, "pass")
       /\ stream' = [stream EXCEPT ![w] = Head(frames[w]).stream]
       /\ entered' = [entered EXCEPT ![w] = Head(frames[w]).entered]
       /\ frames' = [frames EXCEPT ![w] = Tail(@)]

\* L9: another pass if an advance was latched meanwhile, else back to live.
EndOfPass(w) ==
  /\ pc[w] = "loop"
  /\ pendingDeferredRetry' = FALSE
  /\ UNCHANGED <<lastIngestedSeq, bootstrapCompleted>>
  /\ \/ /\ pendingDeferredRetry /\ deferred # {}
        /\ Await(w, "prune")
        /\ UNCHANGED <<lifecycle, checkpoint, failures, entered, stream, frames>>
     \/ /\ ~(pendingDeferredRetry /\ deferred # {}) /\ entered[w]
        /\ TransitionTo("live") /\ LeavePass(w)
     \/ /\ ~(pendingDeferredRetry /\ deferred # {}) /\ ~entered[w]
        /\ LeavePass(w)
        /\ UNCHANGED <<lifecycle, checkpoint, failures>>
  /\ UNCHANGED <<seqOf, accepted, deferredIds, group, processed, deferred, attempts,
                 serialQueue, liveBuffer, job, saving, batch, outputs, session>>

----------------------------------------------------------------------------
(* start() and the cutover: L1..L7 and R1..R4. *)

\* Mutant: the watermark restarts from the end of the raw log.
RestoredWatermarkLogTail == NextSeq - 1

RestoredWatermark ==
  IF checkpoint = NoCheckpoint THEN 0 ELSE checkpoint.lastIngestedSeq

\* L1's guard: a usable checkpoint of a completed bootstrap, or no checkpoint
\* over logs that are not empty (preserve and replay).
RoutesToRecovering ==
  IF checkpoint = NoCheckpoint
  THEN accepted # <<>> \/ \E f \in Fact : seqOf[f] # 0
  ELSE checkpoint.bootstrapCompleted

\* start({origin: "restored"}) of a fresh engine.  The consumer has just seeded
\* its projection from the accepted log.  A session that joins again (the checkpoint
\* says that no bootstrap completed) reads none of the logs: whatever is in them is
\* orphaned.
Start ==
  /\ lifecycle = "down"
  /\ projection' = [i \in DOMAIN accepted |-> accepted[i].ev]
  /\ \/ /\ RoutesToRecovering
        /\ lastIngestedSeq' = RestoredWatermark
        /\ bootstrapCompleted' = TRUE
        /\ TransitionTo("recovering")
        /\ Await("cutover", "rebuild")
        /\ UNCHANGED orphaned
     \/ /\ ~RoutesToRecovering
        /\ lastIngestedSeq' = 0
        /\ bootstrapCompleted' = FALSE
        /\ TransitionTo("joining")
        /\ Await("cutover", "bootstrap")
        /\ orphaned' = orphaned \union {f \in Fact : seqOf[f] # 0}
  /\ UNCHANGED <<seqOf, accepted, deferredIds, group, processed, deferred, attempts,
                 pendingDeferredRetry, serialQueue, liveBuffer, job, saving, pass, rejected,
                 evicted, interrupted, inFetch, restarts>>

\* R1, R2a, R2 and the gap of R3.
Rebuild ==
  /\ pc["cutover"] = "rebuild"
  /\ processed' = processed \union AcceptedEvents
  /\ \/ deferredIds' = deferredIds \ AcceptedFacts /\ UNCHANGED failures
     \/ deferredIds \intersect AcceptedFacts # {} /\ UNCHANGED deferredIds /\ GiveUp
  /\ deferred' = {f \in deferredIds \ AcceptedFacts : seqOf[f] # 0}
  /\ batch' = [batch EXCEPT !["cutover"] = {f \in Fact : seqOf[f] > lastIngestedSeq}]
  /\ Await("cutover", "ingest")
  /\ UNCHANGED <<seqOf, accepted, checkpoint, group, lifecycle, attempts, lastIngestedSeq,
                 bootstrapCompleted, pendingDeferredRetry, serialQueue, liveBuffer, job, saving,
                 stream, entered, frames, outputs, session>>

\* Mutant: the cutover also waits for itself.
DrainedAll == serialQueue = <<>> /\ \A w \in Worker : pc[w] = "idle"

\* No enqueued job is left: the one the cutover awaits is over.
Drained == serialQueue = <<>> /\ pc["chain"] = "idle"

\* The for-await of R3 and of catchUp: each signal is enqueued and awaited.
DrainNext ==
  /\ pc["cutover"] = "drain" /\ Drained /\ stream["cutover"] # <<>>
  /\ serialQueue' = <<Head(stream["cutover"])>>
  /\ stream' = [stream EXCEPT !["cutover"] = Tail(@)]
  /\ UNCHANGED <<stores, group, memory, liveBuffer, pc, job, saving, batch, entered, frames,
                 outputs, budget>>

\* R4, L3, L4 (the bootstrap resolved) and L5 (T_join fired first, or the fetch threw).
EnterCatchingUp ==
  /\ \/ /\ pc["cutover"] = "drain" /\ lifecycle = "recovering"
        /\ Drained /\ stream["cutover"] = <<>>
        /\ UNCHANGED <<bootstrapCompleted, inFetch>>
     \/ /\ pc["cutover"] = "bootstrap"
        /\ bootstrapCompleted' \in BOOLEAN
        /\ inFetch' = bootstrapCompleted'
  /\ UNCHANGED lastIngestedSeq
  /\ TransitionTo("catching_up")
  /\ Await("cutover", "catchUp")
  /\ UNCHANGED <<seqOf, accepted, deferredIds, group, processed, deferred, attempts,
                 pendingDeferredRetry, serialQueue, liveBuffer, job, saving, pass, outputs,
                 orphaned, restarts>>

\* catchUp: the relay answers with envelopes it holds.
CatchUp ==
  /\ pc["cutover"] = "catchUp" /\ IngestMutexFree
  /\ \E answer \in SUBSET {f \in Fact : copies[f] < MaxCopies[f]} :
       /\ batch' = [batch EXCEPT !["cutover"] = answer]
       /\ copies' = [s \in Source |-> IF s \in answer THEN copies[s] + 1 ELSE copies[s]]
  /\ Await("cutover", "ingest")
  /\ UNCHANGED <<stores, epoch, consumed, memory, serialQueue, liveBuffer, job, saving, stream,
                 entered, frames, outputs, budget>>

\* L6.
EnterBufferingLive ==
  /\ pc["cutover"] = "drain" /\ lifecycle = "catching_up"
  /\ Drained /\ stream["cutover"] = <<>>
  /\ UNCHANGED <<lastIngestedSeq, bootstrapCompleted>>
  /\ TransitionTo("buffering_live")
  /\ Await("cutover", "buffer")
  /\ UNCHANGED <<seqOf, accepted, deferredIds, group, processed, deferred, attempts,
                 pendingDeferredRetry, serialQueue, liveBuffer, job, saving, pass, outputs,
                 session>>

\* Mutant: the buffer is cleared with its first signal.
DrainBufferedFirst ==
  /\ pc["cutover"] = "buffer" /\ Drained /\ liveBuffer # <<>>
  /\ serialQueue' = <<Head(liveBuffer)>>
  /\ liveBuffer' = <<>>
  /\ UNCHANGED <<stores, group, memory, pc, job, saving, pass, outputs, budget>>

DrainBuffered ==
  /\ pc["cutover"] = "buffer" /\ Drained /\ liveBuffer # <<>>
  /\ serialQueue' = <<Head(liveBuffer)>>
  /\ liveBuffer' = Tail(liveBuffer)
  /\ UNCHANGED <<stores, group, memory, pc, job, saving, pass, outputs, budget>>

\* L7: live at once, the latch only after the awaited checkpoint save.
EnterLive ==
  /\ pc["cutover"] = "buffer" /\ Drained /\ liveBuffer = <<>>
  /\ UNCHANGED <<lastIngestedSeq, bootstrapCompleted>>
  /\ TransitionTo("live")
  /\ Await("cutover", "latch")
  /\ UNCHANGED <<seqOf, accepted, deferredIds, group, processed, deferred, attempts,
                 pendingDeferredRetry, serialQueue, liveBuffer, job, saving, pass, outputs,
                 session>>

\* The latched retry runs here, in start()'s own continuation.
ConsumeLatch ==
  /\ pc["cutover"] = "latch"
  /\ pendingDeferredRetry' = FALSE
  /\ IF pendingDeferredRetry /\ deferred # {} THEN EnterPass("cutover", <<>>)
     ELSE Await("cutover", "idle") /\ UNCHANGED <<entered, frames>>
  /\ UNCHANGED <<stores, group, lifecycle, processed, deferred, attempts, lastIngestedSeq,
                 bootstrapCompleted, serialQueue, liveBuffer, job, saving, batch, stream,
                 outputs, budget>>

----------------------------------------------------------------------------
(* Writes that fail. *)

\* The signal is abandoned and reported; only a failed acceptDeferredFact of a
\* retry refunds the attempt.  A fact or event already written stays.
GiveUpSignal(w) ==
  /\ pc[w] \in {"append", "accept", "acceptDeferred", "unpark"}
  /\ GiveUp
  /\ rejected' = rejected \union {<<job[w].fact, "persistence-exhausted">>}
  /\ attempts' = IF pc[w] \in {"acceptDeferred", "unpark"} /\ job[w].retry
                    /\ job[w].fact \in deferred /\ attempts[job[w].fact] > 0
                 THEN [attempts EXCEPT ![job[w].fact] = @ - 1] ELSE attempts
  /\ Return(w)
  /\ UNCHANGED <<stores, group, lifecycle, processed, deferred, lastIngestedSeq,
                 bootstrapCompleted, pendingDeferredRetry, serialQueue, liveBuffer, saving,
                 pass, projection, evicted, interrupted, session>>

\* saveDeferredIds never unwinds its caller.
GiveUpSave(w) ==
  /\ pc[w] = "save" /\ SaveReturns(w)
  /\ UNCHANGED deferredIds /\ GiveUp
  /\ AfterSave(w, FALSE)

GiveUpRemoval(w) == ReportRemoved(w) /\ UNCHANGED deferredIds /\ GiveUp

\* A save that is retried lands after one that was issued behind it.
RetrySave(w) ==
  /\ firstSave = w /\ \A v \in Worker : Saving(v)
  /\ firstSave' = CHOOSE v \in Worker : v # w
  /\ GiveUp
  /\ UNCHANGED <<stores, group, memory, serialQueue, liveBuffer, pc, job, ids, pass, outputs,
                 session>>

\* The periodic tick of live, or the detached retry of a failed save: the
\* checkpoint written is built from the state at that moment.
SaveCheckpoint ==
  /\ lifecycle = "live" \/ (failures > 0 /\ lifecycle # "down")
  /\ checkpoint # Snapshot
  /\ checkpoint' = Snapshot
  /\ UNCHANGED <<seqOf, accepted, deferredIds, group, memory, control, outputs, budget>>

----------------------------------------------------------------------------
(* Reads and ingests that reject. *)

\* Of a batch in the adapter and of the passes suspended around it: the task
\* messages that are translated and not yet yielded.
Untaken(w) ==
  {f \in Task : Carries(stream[w], f)
                 \/ \E i \in DOMAIN frames[w] : Carries(frames[w][i].stream, f)}

\* A load of the stores rejects, and start() with it.
LoadThrows ==
  /\ pc["cutover"] = "rebuild" /\ GiveUp
  /\ Await("cutover", "idle")
  /\ UNCHANGED <<stores, group, memory, serialQueue, liveBuffer, job, saving, pass, outputs,
                 session>>

\* group.ingest() rejects at an envelope, whose key it may have used up: the batch
\* yields nothing, and the rejection unwinds every pass around it.  A drain ends
\* there (the catch of enterCatchingUp; start() rejects out of R3), the FIFO goes
\* on with its next job, and a pass of the cutover unwinds to start(), or to the
\* catch of runBootstrapFetch.
IngestThrows(w) ==
  /\ pc[w] = "ingest" /\ batch[w] # {} /\ GiveUp
  /\ \E f \in NextOfBatch(w) : Ingest(f) \/ UNCHANGED <<epoch, consumed>>
  /\ interrupted' = interrupted \union Untaken(w) \union ((consumed' \ consumed) \intersect Task)
  /\ batch' = [batch EXCEPT ![w] = {}]
  /\ stream' = [stream EXCEPT ![w] = <<>>]
  /\ entered' = [entered EXCEPT ![w] = FALSE]
  /\ frames' = [frames EXCEPT ![w] = <<>>]
  /\ Await(w, IF w = "cutover" /\ inFetch /\ ~Draining(w) THEN "rejoin" ELSE "idle")
  /\ UNCHANGED <<stores, copies, memory, serialQueue, liveBuffer, job, saving, projection,
                 rejected, evicted, session>>

\* The catch of runBootstrapFetch enters catching_up a second time,
Rejoin ==
  /\ pc["cutover"] = "rejoin"
  /\ UNCHANGED <<lastIngestedSeq, bootstrapCompleted>>
  /\ TransitionTo("catching_up")
  /\ Await("cutover", "reopen")
  /\ UNCHANGED <<seqOf, accepted, deferredIds, group, processed, deferred, attempts,
                 pendingDeferredRetry, serialQueue, liveBuffer, job, saving, pass, outputs,
                 session>>

\* which empties the live buffer, subscribes beside the first subscription and throws:
\* there may be one catchUp() only.
Reopen ==
  /\ pc["cutover"] = "reopen"
  /\ liveBuffer' = <<>>
  /\ interrupted' = interrupted \union {f \in Task : Carries(liveBuffer, f)}
  /\ Await("cutover", "idle")
  /\ UNCHANGED <<stores, group, memory, serialQueue, job, saving, pass, projection, rejected,
                 evicted, budget>>

----------------------------------------------------------------------------
(* The relay, the user and restarts. *)

\* openLive: a pushed envelope is ingested at once; its signal is buffered until
\* the cutover has caught up.
DeliverLive(f) ==
  /\ lifecycle \in {"catching_up", "buffering_live", "live", "retrying_deferred"}
  /\ IngestMutexFree /\ copies[f] < MaxCopies[f]
  /\ copies' = [copies EXCEPT ![f] = @ + 1]
  /\ Ingest(f)
  /\ IF lifecycle \in {"catching_up", "buffering_live"}
     THEN liveBuffer' = Append(liveBuffer, Ingested(f)) /\ UNCHANGED serialQueue
     ELSE serialQueue' = Append(serialQueue, Ingested(f)) /\ UNCHANGED liveBuffer
  /\ UNCHANGED <<stores, memory, pc, job, saving, pass, outputs, budget>>

\* openLive again: the ingest of the pushed envelope rejects, and it is only warned of.
DeliverLiveThrows(f) ==
  /\ lifecycle \in {"catching_up", "buffering_live", "live", "retrying_deferred"}
  /\ IngestMutexFree /\ copies[f] < MaxCopies[f] /\ GiveUp
  /\ copies' = [copies EXCEPT ![f] = @ + 1]
  /\ Ingest(f) \/ UNCHANGED <<epoch, consumed>>
  /\ interrupted' = interrupted \union ((consumed' \ consumed) \intersect Task)
  /\ UNCHANGED <<stores, memory, control, projection, rejected, evicted, session>>

\* acceptLocal: the dispatch of a local edit, or its repetition.
AcceptLocal(s) ==
  /\ lifecycle # "down" /\ copies[s] < MaxCopies[s]
  /\ copies' = [copies EXCEPT ![s] = @ + 1]
  /\ serialQueue' = Append(serialQueue, [kind |-> "local", fact |-> s])
  /\ UNCHANGED <<stores, epoch, consumed, memory, liveBuffer, pc, job, saving, pass, outputs,
                 budget>>

\* H2: the bootstrap resolves after T_join, and the checkpoint is saved.
LateBootstrap ==
  /\ lifecycle \in {"catching_up", "buffering_live", "live", "retrying_deferred"}
  /\ ~bootstrapCompleted
  /\ bootstrapCompleted' = TRUE
  /\ UNCHANGED lastIngestedSeq
  /\ TransitionTo(lifecycle)
  /\ UNCHANGED <<seqOf, accepted, deferredIds, group, processed, deferred, attempts,
                 pendingDeferredRetry, control, outputs, session>>

\* Decrypted task messages, parked facts that the watermark has passed and queue
\* removals whose outcome is still to be written or reported.
Unresolved ==
  {f \in consumed \intersect Task : EventOf[f] \notin AcceptedEvents}
  \union {f \in deferred \ deferredIds : seqOf[f] <= lastIngestedSeq}
  \union UNION {batch[w] : w \in {v \in Worker : Saving(v)}}

\* Everything that is not in a store is gone.
LoseMemory ==
  /\ lifecycle # "down" /\ lifecycle' = "down"
  /\ restarts < MaxRestarts /\ restarts' = restarts + 1
  /\ processed' = {} /\ deferred' = {} /\ attempts' = [f \in Fact |-> 0]
  /\ lastIngestedSeq' = 0 /\ bootstrapCompleted' = FALSE /\ pendingDeferredRetry' = FALSE
  /\ serialQueue' = <<>> /\ liveBuffer' = <<>>
  /\ pc' = [w \in Worker |-> "idle"] /\ job' = [w \in Worker |-> IdleJob]
  /\ ids' = [w \in Worker |-> {}] /\ firstSave' = "chain"
  /\ batch' = [w \in Worker |-> {}] /\ stream' = [w \in Worker |-> <<>>]
  /\ entered' = [w \in Worker |-> FALSE] /\ frames' = [w \in Worker |-> <<>>]
  /\ interrupted' = interrupted \union Unresolved
  /\ inFetch' = FALSE
  /\ UNCHANGED <<seqOf, accepted, deferredIds, group, projection, rejected, evicted, orphaned,
                 failures>>

\* The checkpoint read at the next start may turn out to be unusable.
Crash == LoseMemory /\ checkpoint' \in {checkpoint, NoCheckpoint}

\* L10: the final checkpoint is saved (or fails to be), and every continuation
\* of the session abandons at its next generation check.
Stop == LoseMemory /\ checkpoint' \in {checkpoint, Snapshot}

----------------------------------------------------------------------------

Init ==
  /\ seqOf = [f \in Fact |-> 0] /\ accepted = <<>> /\ deferredIds = {}
  /\ checkpoint = NoCheckpoint
  /\ epoch = 0 /\ consumed = {} /\ copies = [s \in Source |-> 0]
  /\ lifecycle = "down" /\ processed = {} /\ deferred = {}
  /\ attempts = [f \in Fact |-> 0] /\ lastIngestedSeq = 0
  /\ bootstrapCompleted = FALSE /\ pendingDeferredRetry = FALSE
  /\ serialQueue = <<>> /\ liveBuffer = <<>>
  /\ pc = [w \in Worker |-> "idle"] /\ job = [w \in Worker |-> IdleJob]
  /\ ids = [w \in Worker |-> {}] /\ firstSave = "chain"
  /\ batch = [w \in Worker |-> {}] /\ stream = [w \in Worker |-> <<>>]
  /\ entered = [w \in Worker |-> FALSE] /\ frames = [w \in Worker |-> <<>>]
  /\ projection = <<>> /\ rejected = {} /\ evicted = {} /\ interrupted = {}
  /\ orphaned = {} /\ inFetch = FALSE /\ restarts = 0 /\ failures = 0

\* What a continuation does when the await it is suspended at resolves.
Resume(w) ==
  \/ HandleMessage(w) \/ AcceptEvent(w) \/ AcceptDeferredAppend(w) \/ AcceptDeferredRemove(w)
  \/ HandleDeferred(w) \/ HandleSkipped(w) \/ HandleMalformed(w) \/ SaveDeferredIds(w)
  \/ PruneExpired(w) \/ EnterRetrying(w) \/ ChargeBatch(w) \/ IngestBatch(w)
  \/ NextRetried(w) \/ RemoveExhausted(w) \/ SaveRemoval(w) \/ EndOfPass(w)

Cutover ==
  \/ Start \/ Rebuild \/ DrainNext \/ EnterCatchingUp \/ CatchUp \/ EnterBufferingLive
  \/ DrainBuffered \/ EnterLive \/ ConsumeLatch \/ Rejoin \/ Reopen

Failure ==
  \/ LoadThrows
  \/ \E w \in Worker :
       \/ GiveUpSignal(w) \/ GiveUpSave(w) \/ GiveUpRemoval(w) \/ RetrySave(w)
       \/ IngestThrows(w)

Environment ==
  \/ SaveCheckpoint \/ LateBootstrap \/ Crash \/ Stop
  \/ \E f \in Fact : DeliverLive(f) \/ DeliverLiveThrows(f)
  \/ \E s \in Local : AcceptLocal(s)

Next ==
  \/ StartJob \/ Cutover \/ Failure \/ Environment
  \/ \E w \in Worker : Resume(w)

Spec == Init /\ [][Next]_vars

\* The event loop resumes every continuation whose await has resolved; nothing
\* is assumed of the relay, the user, the disk's failures or crashes.
FairSpec ==
  /\ Spec
  /\ WF_vars(StartJob) /\ WF_vars(Cutover)
  /\ \A w \in Worker : WF_vars(Resume(w))

----------------------------------------------------------------------------
(* Properties. *)

StoresTyped ==
  /\ seqOf \in [Fact -> Nat]
  /\ accepted \in Seq([ev : Event, fact : Source])
  /\ deferredIds \in SUBSET Fact
  /\ checkpoint \in Checkpoint \union {NoCheckpoint}

GroupTyped == epoch \in Nat /\ consumed \in SUBSET Fact /\ copies \in [Source -> Nat]

MemoryTyped ==
  /\ lifecycle \in Lifecycle
  /\ processed \in SUBSET Event /\ deferred \in SUBSET Fact /\ attempts \in [Fact -> Nat]
  /\ lastIngestedSeq \in Nat
  /\ bootstrapCompleted \in BOOLEAN /\ pendingDeferredRetry \in BOOLEAN

ControlTyped ==
  /\ serialQueue \in Seq(Signal) /\ liveBuffer \in Seq(IngestSignal)
  /\ pc \in [Worker -> PC] /\ job \in [Worker -> Job]
  /\ ids \in [Worker -> SUBSET Fact] /\ firstSave \in Worker

PassTyped ==
  /\ batch \in [Worker -> SUBSET Fact] /\ stream \in [Worker -> Seq(IngestSignal)]
  /\ entered \in [Worker -> BOOLEAN] /\ frames \in [Worker -> Seq(Frame)]

OutputsTyped ==
  /\ projection \in Seq(Event) /\ rejected \in SUBSET (Source \X Reason)
  /\ evicted \in SUBSET Fact /\ interrupted \in SUBSET Fact
  /\ orphaned \in SUBSET Fact /\ inFetch \in BOOLEAN
  /\ restarts \in Nat /\ failures \in Nat

\* Every variable has its type (EngineState, EngineCheckpoint, the stores).
TypeOK ==
  StoresTyped /\ GroupTyped /\ MemoryTyped /\ ControlTyped /\ PassTyped /\ OutputsTyped

InFlight(f) ==
  \/ Carries(serialQueue, f) \/ Carries(liveBuffer, f)
  \/ \E w \in Worker :
       \/ Carries(stream[w], f)
       \/ \E i \in DOMAIN frames[w] : Carries(frames[w][i].stream, f)
       \/ /\ job[w].kind = "message" /\ job[w].fact = f
          /\ pc[w] \in {"append", "accept", "acceptDeferred"}

Reported(f) == \E r \in Reason : <<f, r>> \in rejected

\* The MLS ratchet decrypts an envelope once.  From then on its task event is
\* in the accepted log, or a handler still carries it, or its failed write was
\* reported; only a crash or stop in the middle, or an ingest that rejects before
\* its signals are taken, may lose it.
NoSilentLoss ==
  \A f \in consumed \intersect Task :
    \/ EventOf[f] \in AcceptedEvents \/ InFlight(f)
    \/ <<f, "persistence-exhausted">> \in rejected
    \/ f \in interrupted

Covered(f) ==
  /\ checkpoint # NoCheckpoint
  /\ seqOf[f] # 0 /\ seqOf[f] <= checkpoint.lastIngestedSeq

HasOutcome(f) ==
  \/ EventOf[f] \in AcceptedEvents \/ f \in deferredIds \/ Reported(f) \/ f \in evicted

\* A handler still carries the message of f, f is in the queue, or its removal from
\* the queue is being saved and is reported after that.
Pending(f) ==
  \/ InFlight(f) \/ f \in deferred
  \/ \E w \in Worker : pc[w] \in {"pruneSave", "exhaustedSave"} /\ f \in batch[w]

\* R3 never looks below the saved watermark again: a task fact there is
\* accepted, durably parked, reported or evicted, or it is still in hand (its
\* message, overtaken by a duplicate; or its first save, overtaken by a retry), or
\* a crash or stop found it in hand, or a session joined over it: that session
\* neither loads the queue nor ingests the log, and its own saves replace the list.
CoveredHasOutcome ==
  failures = 0 =>
    \A f \in Task :
      Covered(f) => HasOutcome(f) \/ Pending(f) \/ f \in interrupted \union orphaned

\* The same without the excuses, as engine-types.ts:199-200 states it: facts at or
\* below the watermark have their outcome in the accepted log or deferred-store.
WatermarkCoversOutcomes == \A f \in Task : Covered(f) => HasOutcome(f)

\* No signal is waiting or being handled and the engine has gone live.
Quiet == /\ lifecycle = "live" /\ Drained /\ IngestMutexFree
         /\ liveBuffer = <<>> /\ pc["cutover"] = "idle"

\* At rest the durable list of parked facts is the queue, through crashes, evictions
\* and racing saves; beyond the queue it may list facts a session joined over, until
\* a save replaces it.
ParkedStoreAgrees ==
  Quiet /\ failures = 0 => deferred \subseteq deferredIds /\ deferredIds \subseteq deferred \union orphaned

\* R-INV-3 (architecture.md 336), at rest: no fact is both parked and accepted.
ParkedXorAccepted == Quiet => deferredIds \intersect AcceptedFacts = {}

\* At rest the consumer has folded every accepted event, and each one once.
ProjectionComplete ==
  Quiet => /\ {projection[i] : i \in DOMAIN projection} = AcceptedEvents
           /\ Len(projection) = Len(accepted)

\* An event is emitted to the consumer only once it is in the accepted log.
EmittedIsDurable == \A i \in DOMAIN projection : projection[i] \in AcceptedEvents

\* The ledger that the accepted log, the consumer's projection and the sessions
\* of the engine make.
Ledger == INSTANCE EventLedger WITH
  log   <- [i \in DOMAIN accepted |-> accepted[i].ev],
  shown <- projection,
  open  <- lifecycle # "down"

\* Through parking, retries, duplicates and crashes the engine keeps the ledger:
\* each event is written once and for good, what is emitted has been written, in a
\* session that is under way, and a restart shows the log again from its beginning.
KeepsTheLedger == Ledger!Spec

\* A parked fact that becomes readable is accepted, or its leaving is reported,
\* unless a write or an ingest fails.
ReadableIsResolved ==
  \A f \in Task :
    (lifecycle # "down" /\ f \in deferred /\ epoch >= NeedEpoch[f])
      ~> (\/ EventOf[f] \in AcceptedEvents \/ Reported(f) \/ f \in evicted
          \/ lifecycle = "down" \/ failures > 0)

\* w is in a retry pass, or in one of the handlers a pass calls.
InPass(w) ==
  \/ job[w].retry
  \/ pc[w] \in {"prune", "pruneSave", "batch", "charge", "pass", "exhausted", "exhaustedSave",
                "loop"}
  \/ pc[w] = "ingest" /\ ~Draining(w)

\* The retry loop of L9 ends however many advances are latched inside it: the engine
\* is live again, or an ingest that rejected cut its passes off, and left the engine
\* retrying_deferred with nothing under way.
RetryPassEnds ==
  (lifecycle = "retrying_deferred")
    ~> (lifecycle \in {"live", "down"} \/ (failures > 0 /\ \A w \in Worker : ~InPass(w)))

\* A started engine reaches live, or its recovery or its drain rejected and start() is
\* over: nothing leads on from there, and only a stop or a crash ends that session.
StartReachesLive ==
  (lifecycle \in {"joining", "recovering"})
    ~> \/ lifecycle \in {"live", "down"}
       \/ /\ failures > 0 /\ pc["cutover"] = "idle"
          /\ lifecycle \in {"recovering", "catching_up"}

=============================================================================
