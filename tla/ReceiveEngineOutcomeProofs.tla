---------------------- MODULE ReceiveEngineOutcomeProofs ----------------------
(* What TLAPS proves of ReceiveEngine about the outcome of an envelope, for every *)
(* value of the constants: no task event the ratchet has decrypted is lost        *)
(* silently, the parked facts on disk are the ones in the queue, none that is     *)
(* below the saved watermark is left without an outcome, and at rest the consumer *)
(* has been shown each accepted event, once.                                      *)
EXTENDS ReceiveEngineProofs

USE DEF stores, group, memory, saving, pass, control, outputs, session, budget

----------------------------------------------------------------------------
(* The message of an envelope, and the sequences that carry it. *)

Message(f) == [kind |-> "message", fact |-> f]

\* A signal appended to a sequence is carried by it, and nothing before it is lost.
LEMMA CarriesAppended ==
  ASSUME NEW S, NEW s \in Seq(S), NEW x \in S, NEW f
  PROVE /\ Carries(s, f) => Carries(Append(s, x), f)
        /\ x = Message(f) => Carries(Append(s, x), f)
<1>1. /\ Len(s) \in Nat /\ DOMAIN s = 1..Len(s)
      /\ DOMAIN Append(s, x) = 1..(Len(s) + 1)
      /\ \A i \in 1..Len(s) : Append(s, x)[i] = s[i]
      /\ Append(s, x)[Len(s) + 1] = x
  BY AppendProperties, LenProperties
<1> QED
  BY <1>1 DEF Carries, Message

\* Taking the head of a sequence leaves what else it carries.
LEMMA CarriesRest ==
  ASSUME NEW S, NEW s \in Seq(S), s # <<>>, NEW f, Carries(s, f)
  PROVE Head(s) = Message(f) \/ Carries(Tail(s), f)
<1>1. /\ Len(s) \in Nat /\ Len(s) # 0 /\ DOMAIN s = 1..Len(s) /\ Head(s) = s[1]
      /\ Len(Tail(s)) = Len(s) - 1 /\ DOMAIN Tail(s) = 1..Len(Tail(s))
      /\ \A i \in 1..Len(Tail(s)) : Tail(s)[i] = s[i + 1]
  BY HeadTailProperties, LenProperties, EmptySeq
<1>2. PICK i \in 1..Len(s) : s[i] = Message(f)
  BY <1>1 DEF Carries, Message
<1>3. CASE i = 1
  BY <1>1, <1>2, <1>3
<1>4. CASE i # 1
  <2>1. i - 1 \in 1..Len(Tail(s)) /\ Tail(s)[i - 1] = Message(f)
    BY <1>1, <1>2, <1>4
  <2> QED
    BY <1>1, <2>1 DEF Carries, Message
<1> QED
  BY <1>3, <1>4

\* The empty sequence carries nothing; a sequence of one signal carries that.
LEMMA CarriesFew ==
  ASSUME NEW f, NEW x
  PROVE ~Carries(<<>>, f) /\ (x = Message(f) => Carries(<<x>>, f))
BY DEF Carries, Message

\* Some suspended pass carries the message.
FramesCarry(fs, f) == \E i \in DOMAIN fs : Carries(fs[i].stream, f)

\* Suspending a pass keeps its stream and those suspended before.
LEMMA FramesPushed ==
  ASSUME NEW S, NEW fs \in Seq(S), NEW fr \in S, NEW f
  PROVE /\ FramesCarry(fs, f) => FramesCarry(<<fr>> \o fs, f)
        /\ Carries(fr.stream, f) => FramesCarry(<<fr>> \o fs, f)
        /\ <<fr>> \o fs # fs /\ <<>> \o fs = fs
<1>1. /\ Len(fs) \in Nat /\ DOMAIN fs = 1..Len(fs)
      /\ <<fr>> \in Seq(S) /\ Len(<<fr>>) = 1 /\ <<fr>>[1] = fr
  BY LenProperties
<1>2. /\ Len(<<fr>> \o fs) = 1 + Len(fs) /\ DOMAIN (<<fr>> \o fs) = 1..(1 + Len(fs))
      /\ (<<fr>> \o fs)[1] = fr
      /\ \A i \in 1..Len(fs) : (<<fr>> \o fs)[i + 1] = fs[i]
  BY <1>1, ConcatProperties, LenProperties
<1>3. <<fr>> \o fs # fs /\ <<>> \o fs = fs
  <2> DEFINE longer == <<fr>> \o fs
  <2>1. longer # fs
    <3>1. Len(longer) = 1 + Len(fs)
      BY <1>2
    <3> HIDE DEF longer
    <3> QED
      BY <1>1, <3>1
  <2>2. <<>> \o fs = fs
    BY ConcatEmptySeq
  <2> QED
    BY <2>1, <2>2
<1>4. ASSUME FramesCarry(fs, f) PROVE FramesCarry(<<fr>> \o fs, f)
  <2>1. PICK i \in 1..Len(fs) : Carries(fs[i].stream, f)
    BY <1>1, <1>4 DEF FramesCarry
  <2>2. i + 1 \in DOMAIN (<<fr>> \o fs) /\ (<<fr>> \o fs)[i + 1] = fs[i]
    BY <1>1, <1>2
  <2> QED
    BY <2>1, <2>2 DEF FramesCarry
<1>5. Carries(fr.stream, f) => FramesCarry(<<fr>> \o fs, f)
  BY <1>1, <1>2 DEF FramesCarry
<1> QED
  BY <1>3, <1>4, <1>5

\* Resuming a pass takes its stream from those suspended.
LEMMA FramesPopped ==
  ASSUME NEW S, NEW fs \in Seq(S), fs # <<>>, NEW f, FramesCarry(fs, f)
  PROVE Carries(Head(fs).stream, f) \/ FramesCarry(Tail(fs), f)
<1>1. /\ Len(fs) \in Nat /\ Len(fs) # 0 /\ DOMAIN fs = 1..Len(fs) /\ Head(fs) = fs[1]
      /\ Len(Tail(fs)) = Len(fs) - 1 /\ DOMAIN Tail(fs) = 1..Len(Tail(fs))
      /\ \A i \in 1..Len(Tail(fs)) : Tail(fs)[i] = fs[i + 1]
  BY HeadTailProperties, LenProperties, EmptySeq
<1>2. PICK i \in 1..Len(fs) : Carries(fs[i].stream, f)
  BY <1>1 DEF FramesCarry
<1>3. CASE i = 1
  BY <1>1, <1>2, <1>3
<1>4. CASE i # 1
  <2>1. i - 1 \in 1..Len(Tail(fs)) /\ Tail(fs)[i - 1] = fs[i]
    BY <1>1, <1>2, <1>4
  <2> QED
    BY <1>1, <1>2, <2>1 DEF FramesCarry
<1> QED
  BY <1>3, <1>4

----------------------------------------------------------------------------
(* The inductive invariant. *)

\* The awaits of a continuation that handles a signal, and those before the write
\* of the accepted event.
Handler == {"append", "accept", "acceptDeferred", "unpark", "save"}
BeforeAccept == {"append", "accept", "acceptDeferred"}

\* Only a continuation that goes on to take its signals has any left to yield.
StreamsHeld ==
  \A w \in Worker : stream[w] # <<>> =>
    pc[w] \in {"ingest", "pass", "drain"} \/ (pc[w] \in Handler /\ job[w].retry)

LossInv == LedgerInv /\ NoSilentLoss /\ StreamsHeld

\* The outcomes of a decrypted message; none of them is ever taken back.
Settled(f) ==
  \/ EventOf[f] \in AcceptedEvents
  \/ <<f, "persistence-exhausted">> \in rejected
  \/ f \in interrupted

OutcomesGrow ==
  /\ AcceptedEvents \subseteq AcceptedEvents'
  /\ rejected \subseteq rejected' /\ interrupted \subseteq interrupted'

\* Where a message in flight may be.
HandledBy(w, f) ==
  job[w].kind = "message" /\ job[w].fact = f /\ pc[w] \in BeforeAccept

HeldBy(w, f) == Carries(stream[w], f) \/ FramesCarry(frames[w], f) \/ HandledBy(w, f)

LEMMA InFlightIs ==
  ASSUME NEW f
  PROVE InFlight(f) <=> \/ Carries(serialQueue, f) \/ Carries(liveBuffer, f)
                        \/ \E w \in Worker : HeldBy(w, f)
BY DEF InFlight, HeldBy, FramesCarry, HandledBy, BeforeAccept

LEMMA InFlightIsNext ==
  ASSUME NEW f
  PROVE InFlight(f)' <=> \/ Carries(serialQueue', f) \/ Carries(liveBuffer', f)
                         \/ \E w \in Worker : HeldBy(w, f)'
BY DEF InFlight, HeldBy, FramesCarry, HandledBy, BeforeAccept

LEMMA SettledStays ==
  ASSUME OutcomesGrow, NEW f, Settled(f)
  PROVE Settled(f)'
BY DEF OutcomesGrow, Settled

LEMMA LossIs ==
  /\ NoSilentLoss <=> \A f \in consumed \intersect Task : Settled(f) \/ InFlight(f)
  /\ NoSilentLoss' <=> \A f \in consumed' \intersect Task : Settled(f)' \/ InFlight(f)'
BY DEF NoSilentLoss, Settled

\* A step loses nothing if every message it decrypts, and every one that was in
\* flight, is in flight or has its outcome afterwards.
LEMMA LosesNone ==
  ASSUME NoSilentLoss, OutcomesGrow,
         \A f \in Task : InFlight(f) => InFlight(f)' \/ Settled(f)',
         \A f \in Task : f \in consumed' /\ f \notin consumed => InFlight(f)' \/ Settled(f)'
  PROVE NoSilentLoss'
<1> SUFFICES ASSUME NEW f \in consumed' \intersect Task PROVE Settled(f)' \/ InFlight(f)'
  BY LossIs
<1>1. CASE f \in consumed
  BY <1>1, LossIs, SettledStays
<1> QED
  BY <1>1

\* A step of continuation w that leaves the queues and streams alone only has to
\* account for the message w is handling.
LEMMA HandlesOne ==
  ASSUME NoSilentLoss, OutcomesGrow, NEW w \in Worker,
         UNCHANGED <<consumed, serialQueue, liveBuffer, stream, frames>>,
         \A v \in Worker \ {w} : pc'[v] = pc[v] /\ job'[v] = job[v],
         \A f \in Task : HandledBy(w, f) => HandledBy(w, f)' \/ Settled(f)'
  PROVE NoSilentLoss'
<1> SUFFICES ASSUME NEW f \in Task, InFlight(f) PROVE InFlight(f)' \/ Settled(f)'
  BY LosesNone
<1>1. CASE Carries(serialQueue, f) \/ Carries(liveBuffer, f)
  BY <1>1, InFlightIsNext
<1>2. ASSUME NEW v \in Worker, HeldBy(v, f) PROVE HeldBy(v, f)' \/ Settled(f)'
  <2>1. CASE Carries(stream[v], f) \/ FramesCarry(frames[v], f)
    BY <2>1 DEF HeldBy
  <2>2. CASE HandledBy(v, f)
    BY <2>2 DEF HeldBy, HandledBy
  <2> QED
    BY <1>2, <2>1, <2>2 DEF HeldBy
<1> QED
  BY <1>1, <1>2, InFlightIs, InFlightIsNext

\* A continuation that takes over no stream, or is to take it, keeps StreamsHeld.
LEMMA StreamsKept ==
  ASSUME StreamsHeld, NEW w \in Worker,
         \A v \in Worker \ {w} : pc'[v] = pc[v] /\ job'[v] = job[v] /\ stream'[v] = stream[v],
         \/ stream'[w] = <<>>
         \/ pc'[w] \in {"ingest", "pass", "drain"}
         \/ pc'[w] \in Handler /\ job'[w].retry
         \/ pc'[w] = pc[w] /\ job'[w] = job[w] /\ stream'[w] = stream[w]
  PROVE StreamsHeld'
<1> SUFFICES ASSUME NEW v \in Worker, stream'[v] # <<>>
             PROVE pc'[v] \in {"ingest", "pass", "drain"} \/ (pc'[v] \in Handler /\ job'[v].retry)
  BY DEF StreamsHeld
<1> QED
  BY DEF StreamsHeld

\* Outcomes grow when the accepted log stays.
LEMMA OutcomesKept ==
  ASSUME UNCHANGED <<accepted, interrupted>>, rejected \subseteq rejected'
  PROVE OutcomesGrow
BY DEF OutcomesGrow, AcceptedEvents

\* A step of continuation w that touches neither the queues and streams nor the
\* accepted log, and leaves w with no message or with the one it had.
LEMMA HandlesNone ==
  ASSUME LossInv, NEW w \in Worker,
         UNCHANGED <<accepted, interrupted, consumed, serialQueue, liveBuffer, stream, frames>>,
         rejected \subseteq rejected',
         \A v \in Worker \ {w} : pc'[v] = pc[v] /\ job'[v] = job[v],
         \/ pc'[w] = pc[w] /\ job'[w] = job[w]
         \/ pc[w] \notin BeforeAccept
         \/ pc'[w] \in BeforeAccept /\ job'[w] = job[w]
         \/ job[w].kind # "message"
  PROVE NoSilentLoss'
<1>1. OutcomesGrow
  BY OutcomesKept
<1>2. \A f \in Task : HandledBy(w, f) => HandledBy(w, f)'
  BY DEF HandledBy
<1> QED
  BY <1>1, <1>2, HandlesOne DEF LossInv

----------------------------------------------------------------------------
(* Each action keeps it. *)

\* What the invariant says of the control state.
LEMMA ControlIs ==
  ASSUME LossInv
  PROVE /\ TypeOK /\ DownIsIdle /\ NoSilentLoss /\ StreamsHeld
        /\ pc \in [Worker -> PC] /\ job \in [Worker -> Job]
        /\ serialQueue \in Seq(Signal) /\ liveBuffer \in Seq(IngestSignal)
        /\ batch \in [Worker -> SUBSET Fact] /\ stream \in [Worker -> Seq(IngestSignal)]
        /\ frames \in [Worker -> Seq(Frame)]
BY DEF LossInv, LedgerInv, DurableInv, TypeOK, ControlTyped, PassTyped

\* A continuation that handles no message and has no stream resumes elsewhere.
LEMMA MovesIdle ==
  ASSUME LossInv, NEW w \in Worker,
         UNCHANGED <<accepted, rejected, interrupted, consumed, serialQueue, liveBuffer, job,
                     stream, frames>>,
         \A v \in Worker \ {w} : pc'[v] = pc[v],
         pc'[w] = pc[w] \/ (pc[w] \notin BeforeAccept /\ stream[w] = <<>>)
  PROVE NoSilentLoss' /\ StreamsHeld'
<1>1. NoSilentLoss'
  BY HandlesNone
<1>2. StreamsHeld'
  BY ControlIs, StreamsKept
<1> QED
  BY <1>1, <1>2

\* The cutover and the environment, but for the steps that move signals.
LEMMA LossOther ==
  ASSUME LossInv,
         \/ Start \/ Rebuild \/ EnterCatchingUp \/ CatchUp \/ EnterBufferingLive
         \/ EnterLive \/ SaveCheckpoint \/ LateBootstrap \/ LoadThrows \/ Rejoin
  PROVE NoSilentLoss' /\ StreamsHeld'
<1>1. /\ pc \in [Worker -> PC] /\ StreamsHeld /\ DownIsIdle
      /\ "chain" \in Worker /\ "cutover" \in Worker
  BY ControlIs, Workers
<1>2. ASSUME pc["cutover"] \in {"idle", "rebuild", "bootstrap", "catchUp", "buffer", "rejoin"}
      PROVE pc["cutover"] \notin BeforeAccept /\ stream["cutover"] = <<>>
  BY <1>1, <1>2 DEF StreamsHeld, Handler, BeforeAccept
<1>3. CASE Start
  BY <1>1, <1>2, <1>3, MovesIdle DEF Start, Await, DownIsIdle
<1>4. CASE Rebuild
  BY <1>1, <1>2, <1>4, MovesIdle DEF Rebuild, Await
<1>5. CASE EnterCatchingUp
  <2>1. pc["cutover"] \notin BeforeAccept /\ stream["cutover"] = <<>>
    BY <1>2, <1>5 DEF EnterCatchingUp, BeforeAccept
  <2> QED
    BY <1>1, <1>5, <2>1, MovesIdle DEF EnterCatchingUp, Await
<1>6. CASE CatchUp
  BY <1>1, <1>2, <1>6, MovesIdle DEF CatchUp, Await
<1>7. CASE EnterBufferingLive
  <2>1. pc["cutover"] \notin BeforeAccept /\ stream["cutover"] = <<>>
    BY <1>7 DEF EnterBufferingLive, BeforeAccept
  <2> QED
    BY <1>1, <1>7, <2>1, MovesIdle DEF EnterBufferingLive, Await
<1>8. CASE EnterLive
  BY <1>1, <1>2, <1>8, MovesIdle DEF EnterLive, Await
<1>9. CASE SaveCheckpoint
  BY <1>1, <1>9, MovesIdle DEF SaveCheckpoint
<1>10. CASE LateBootstrap
  BY <1>1, <1>10, MovesIdle DEF LateBootstrap
<1>11. CASE LoadThrows
  BY <1>1, <1>2, <1>11, MovesIdle DEF LoadThrows, Await
<1>12. CASE Rejoin
  BY <1>1, <1>2, <1>12, MovesIdle DEF Rejoin, Await
<1> QED
  BY <1>3, <1>4, <1>5, <1>6, <1>7, <1>8, <1>9, <1>10, <1>11, <1>12

\* The live buffer is emptied, and what it carried is cut off.
LEMMA LossReopen == ASSUME LossInv, Reopen PROVE NoSilentLoss' /\ StreamsHeld'
<1>1. /\ pc \in [Worker -> PC] /\ StreamsHeld /\ NoSilentLoss /\ "cutover" \in Worker
      /\ pc["cutover"] = "reopen"
  BY ControlIs, Workers DEF Reopen
<1>2. stream["cutover"] = <<>>
  BY <1>1 DEF StreamsHeld, Handler
<1>3. /\ UNCHANGED <<consumed, serialQueue, job, stream, frames>>
      /\ \A v \in Worker \ {"cutover"} : pc'[v] = pc[v]
  BY <1>1 DEF Reopen, Await
<1>4. OutcomesGrow
  BY DEF Reopen, OutcomesGrow, AcceptedEvents
<1>5. StreamsHeld'
  BY <1>1, <1>2, <1>3, StreamsKept
<1>6. ASSUME NEW f \in Task, InFlight(f) PROVE InFlight(f)' \/ Settled(f)'
  <2>1. CASE Carries(serialQueue, f)
    BY <1>3, <2>1, InFlightIsNext
  <2>2. CASE Carries(liveBuffer, f)
    <3>1. f \in interrupted'
      BY <2>2 DEF Reopen
    <3> QED
      BY <3>1 DEF Settled
  <2>3. ASSUME NEW w \in Worker, HeldBy(w, f) PROVE HeldBy(w, f)'
    <3>1. HandledBy(w, f) => w # "cutover"
      BY <1>1 DEF HandledBy, BeforeAccept
    <3> QED
      BY <1>3, <2>3, <3>1 DEF HeldBy, HandledBy
  <2> QED
    BY <1>6, <2>1, <2>2, <2>3, InFlightIs, InFlightIsNext
<1> QED
  BY <1>1, <1>3, <1>4, <1>5, <1>6, LosesNone

\* A rejected ingest drops the signals of its batch and of the passes around it, and
\* may use up the key of one more; each message among them is cut off.
LEMMA LossIngestThrows ==
  ASSUME LossInv, NEW w \in Worker, IngestThrows(w)
  PROVE NoSilentLoss' /\ StreamsHeld'
<1>1. /\ pc \in [Worker -> PC] /\ StreamsHeld /\ NoSilentLoss
      /\ stream \in [Worker -> Seq(IngestSignal)] /\ frames \in [Worker -> Seq(Frame)]
      /\ pc[w] = "ingest"
  BY ControlIs DEF IngestThrows
<1>2. /\ UNCHANGED <<serialQueue, liveBuffer, job>> /\ stream'[w] = <<>>
      /\ \A v \in Worker \ {w} : /\ pc'[v] = pc[v] /\ job'[v] = job[v]
                                  /\ stream'[v] = stream[v] /\ frames'[v] = frames[v]
  BY <1>1 DEF IngestThrows, Await
<1>3. interrupted' = interrupted \union Untaken(w) \union ((consumed' \ consumed) \intersect Task)
  BY DEF IngestThrows
<1>4. OutcomesGrow
  BY <1>3 DEF IngestThrows, OutcomesGrow, AcceptedEvents
<1>5. StreamsHeld'
  BY <1>1, <1>2, StreamsKept
<1>6. ASSUME NEW f \in Task, InFlight(f) PROVE InFlight(f)' \/ Settled(f)'
  <2>1. CASE Carries(serialQueue, f) \/ Carries(liveBuffer, f)
    BY <1>2, <2>1, InFlightIsNext
  <2>2. CASE HeldBy(w, f)
    <3>1. Carries(stream[w], f) \/ FramesCarry(frames[w], f)
      BY <1>1, <2>2 DEF HeldBy, HandledBy, BeforeAccept
    <3>2. f \in Untaken(w)
      BY <3>1 DEF Untaken, FramesCarry
    <3> QED
      BY <1>3, <3>2 DEF Settled
  <2>3. ASSUME NEW v \in Worker \ {w}, HeldBy(v, f) PROVE HeldBy(v, f)'
    BY <1>2, <2>3 DEF HeldBy, HandledBy
  <2> QED
    BY <1>6, <2>1, <2>2, <2>3, InFlightIs, InFlightIsNext
<1>7. ASSUME NEW f \in Task, f \in consumed', f \notin consumed PROVE Settled(f)'
  BY <1>3, <1>7 DEF Settled
<1> QED
  BY <1>1, <1>4, <1>5, <1>6, <1>7, LosesNone

\* The FIFO takes its head; a message among its signals is handled.
LEMMA LossStartJob == ASSUME LossInv, StartJob PROVE NoSilentLoss' /\ StreamsHeld'
<1>0. /\ pc \in [Worker -> PC] /\ job \in [Worker -> Job] /\ frames \in [Worker -> Seq(Frame)]
      /\ serialQueue \in Seq(Signal) /\ StreamsHeld /\ NoSilentLoss /\ "chain" \in Worker
  BY ControlIs, Workers
<1>1. pc["chain"] = "idle" /\ stream["chain"] = <<>>
  BY <1>0 DEF StartJob, StreamsHeld, Handler
<1>2. OutcomesGrow
  BY OutcomesKept DEF StartJob
<1>3. StreamsHeld'
  BY <1>0, <1>1, StreamsKept DEF StartJob, HandleEpochAdvanced, EnterPass, Await
<1>4. frames' = frames
  <2>1. CASE EnterPass("chain", <<>>)
    <3>1. <<>> \o frames["chain"] = frames["chain"]
      BY <1>0, ConcatEmptySeq
    <3> QED
      BY <1>0, <2>1, <3>1 DEF EnterPass
  <2> QED
    BY <2>1 DEF StartJob, HandleEpochAdvanced
<1>5. ASSUME NEW f \in Task, InFlight(f) PROVE InFlight(f)'
  <2>1. CASE Carries(serialQueue, f)
    <3>1. Head(serialQueue) = Message(f) \/ Carries(serialQueue', f)
      BY <1>0, <2>1, CarriesRest DEF StartJob
    <3>2. CASE Head(serialQueue) = Message(f)
      <4>1. pc'["chain"] = "append" /\ job'["chain"].kind = "message" /\ job'["chain"].fact = f
        BY <1>0, <3>2 DEF StartJob, Message, Await
      <4> QED
        BY <1>0, <4>1, InFlightIsNext DEF HeldBy, HandledBy, BeforeAccept
    <3> QED
      BY <3>1, <3>2, InFlightIsNext
  <2>2. CASE Carries(liveBuffer, f)
    BY <2>2, InFlightIsNext DEF StartJob
  <2>3. ASSUME NEW w \in Worker, HeldBy(w, f) PROVE HeldBy(w, f)'
    <3>1. stream' = stream /\ (HandledBy(w, f) => w # "chain")
      BY <1>1 DEF StartJob, HandledBy, BeforeAccept
    <3>2. w # "chain" => pc'[w] = pc[w] /\ job'[w] = job[w]
      BY <1>0 DEF StartJob, HandleEpochAdvanced, EnterPass, Await
    <3> QED
      BY <1>4, <2>3, <3>1, <3>2 DEF HeldBy, HandledBy
  <2> QED
    BY <1>5, <2>1, <2>2, <2>3, InFlightIs, InFlightIsNext
<1>6. consumed' = consumed
  BY DEF StartJob
<1> QED
  BY <1>0, <1>2, <1>3, <1>5, <1>6, LosesNone

\* A message the MLS ratchet decrypts for the first time is yielded as a signal.
LEMMA IngestYields ==
  ASSUME NEW g \in Fact, Ingest(g), NEW f \in Task, f \in consumed', f \notin consumed
  PROVE Ingested(g) = Message(f)
<1>1. f = g /\ Classify(g) # "deferred"
  BY DEF Ingest
<1>2. ~Stale(f) /\ f \notin Commit /\ f \notin Malformed
  BY DEF Stale, Task
<1>3. Classify(g) = "message"
  BY <1>1, <1>2 DEF Classify, Content
<1> QED
  BY <1>1, <1>3 DEF Ingested, Message

\* A step that only adds to the queues loses nothing.
LEMMA QueuesGrow ==
  ASSUME NEW f, UNCHANGED <<pc, job, stream, frames>>, InFlight(f),
         Carries(serialQueue, f) => Carries(serialQueue', f) \/ Carries(liveBuffer', f),
         Carries(liveBuffer, f) => Carries(serialQueue', f) \/ Carries(liveBuffer', f)
  PROVE InFlight(f)'
<1>1. \A w \in Worker : HeldBy(w, f) => HeldBy(w, f)'
  BY DEF HeldBy, HandledBy
<1> QED
  BY <1>1, InFlightIs, InFlightIsNext

LEMMA LossDrainBuffered == ASSUME LossInv, DrainBuffered PROVE NoSilentLoss' /\ StreamsHeld'
<1>1. OutcomesGrow /\ consumed' = consumed /\ NoSilentLoss /\ StreamsHeld
  BY ControlIs, OutcomesKept DEF DrainBuffered
<1>2. StreamsHeld'
  BY <1>1 DEF DrainBuffered, StreamsHeld
<1>3. ASSUME NEW f \in Task, InFlight(f) PROVE InFlight(f)'
  <2>1. ~Carries(serialQueue, f)
    BY CarriesFew DEF DrainBuffered, Drained
  <2>2. Carries(liveBuffer, f) => Carries(serialQueue', f) \/ Carries(liveBuffer', f)
    <3>1. /\ serialQueue' = <<Head(liveBuffer)>> /\ liveBuffer' = Tail(liveBuffer)
          /\ liveBuffer # <<>> /\ liveBuffer \in Seq(IngestSignal)
      BY ControlIs DEF DrainBuffered
    <3> QED
      BY <3>1, CarriesRest, CarriesFew
  <2> QED
    BY <1>3, <2>1, <2>2, QueuesGrow DEF DrainBuffered
<1> QED
  BY <1>1, <1>2, <1>3, LosesNone

LEMMA LossDrainNext == ASSUME LossInv, DrainNext PROVE NoSilentLoss' /\ StreamsHeld'
<1>1. /\ OutcomesGrow /\ consumed' = consumed /\ NoSilentLoss /\ StreamsHeld
      /\ stream \in [Worker -> Seq(IngestSignal)] /\ "cutover" \in Worker
  BY ControlIs, OutcomesKept, Workers DEF DrainNext
<1>2. StreamsHeld'
  BY <1>1, StreamsKept DEF DrainNext
<1>3. ASSUME NEW f \in Task, InFlight(f) PROVE InFlight(f)'
  <2>1. ~Carries(serialQueue, f)
    BY CarriesFew DEF DrainNext, Drained
  <2>2. CASE Carries(liveBuffer, f)
    BY <2>2, InFlightIsNext DEF DrainNext
  <2>3. CASE Carries(stream["cutover"], f)
    <3>1. /\ serialQueue' = <<Head(stream["cutover"])>>
          /\ stream'["cutover"] = Tail(stream["cutover"])
          /\ stream["cutover"] # <<>> /\ stream["cutover"] \in Seq(IngestSignal)
      BY <1>1 DEF DrainNext
    <3>2. Carries(serialQueue', f) \/ Carries(stream'["cutover"], f)
      BY <2>3, <3>1, CarriesRest, CarriesFew
    <3> QED
      BY <1>1, <3>2, InFlightIsNext DEF HeldBy
  <2>4. ASSUME NEW w \in Worker, HeldBy(w, f), ~Carries(stream["cutover"], f)
        PROVE HeldBy(w, f)'
    <3>1. w # "cutover" => stream'[w] = stream[w]
      BY <1>1 DEF DrainNext
    <3> QED
      BY <2>4, <3>1 DEF DrainNext, HeldBy, HandledBy
  <2> QED
    BY <1>3, <2>1, <2>2, <2>3, <2>4, InFlightIs, InFlightIsNext
<1> QED
  BY <1>1, <1>2, <1>3, LosesNone

\* A pass begun by the latch suspends nothing.
LEMMA LossConsumeLatch == ASSUME LossInv, ConsumeLatch PROVE NoSilentLoss' /\ StreamsHeld'
<1>1. /\ pc \in [Worker -> PC] /\ frames \in [Worker -> Seq(Frame)] /\ StreamsHeld
      /\ "cutover" \in Worker
  BY ControlIs, Workers
<1>2. pc["cutover"] \notin BeforeAccept /\ stream["cutover"] = <<>>
  BY <1>1 DEF ConsumeLatch, StreamsHeld, Handler, BeforeAccept
<1>3. frames' = frames
  <2>1. CASE EnterPass("cutover", <<>>)
    <3>1. <<>> \o frames["cutover"] = frames["cutover"]
      BY <1>1, ConcatEmptySeq
    <3> QED
      BY <1>1, <2>1, <3>1 DEF EnterPass
  <2> QED
    BY <2>1 DEF ConsumeLatch
<1>4. \A v \in Worker \ {"cutover"} : pc'[v] = pc[v]
  BY <1>1 DEF ConsumeLatch, EnterPass, Await
<1> QED
  BY <1>1, <1>2, <1>3, <1>4, MovesIdle DEF ConsumeLatch

LEMMA LossAcceptLocal ==
  ASSUME LossInv, NEW s \in Local, AcceptLocal(s)
  PROVE NoSilentLoss' /\ StreamsHeld'
<1>1. OutcomesGrow /\ consumed' = consumed /\ NoSilentLoss /\ StreamsHeld
  BY ControlIs, OutcomesKept DEF AcceptLocal
<1>2. StreamsHeld'
  BY <1>1 DEF AcceptLocal, StreamsHeld
<1>3. ASSUME NEW f \in Task, InFlight(f) PROVE InFlight(f)'
  <2>1. [kind |-> "local", fact |-> s] \in Signal /\ serialQueue \in Seq(Signal)
    BY ControlIs DEF Signal
  <2>2. Carries(serialQueue, f) => Carries(serialQueue', f)
    BY <2>1, CarriesAppended DEF AcceptLocal
  <2> QED
    BY <1>3, <2>2, QueuesGrow DEF AcceptLocal
<1> QED
  BY <1>1, <1>2, <1>3, LosesNone

\* A live envelope is ingested and its signal is queued or buffered.
LEMMA LossDeliverLive ==
  ASSUME LossInv, NEW g \in Fact, DeliverLive(g)
  PROVE NoSilentLoss' /\ StreamsHeld'
<1>1. OutcomesGrow /\ NoSilentLoss /\ StreamsHeld
  BY ControlIs, OutcomesKept DEF DeliverLive
<1>2. StreamsHeld'
  BY <1>1 DEF DeliverLive, StreamsHeld
<1>3. /\ Ingested(g) \in IngestSignal /\ Ingested(g) \in Signal /\ Ingest(g)
      /\ serialQueue \in Seq(Signal) /\ liveBuffer \in Seq(IngestSignal)
  BY ControlIs, IngestTyped DEF DeliverLive, Signal
<1>4. \/ serialQueue' = Append(serialQueue, Ingested(g)) /\ liveBuffer' = liveBuffer
      \/ liveBuffer' = Append(liveBuffer, Ingested(g)) /\ serialQueue' = serialQueue
  BY DEF DeliverLive
<1>5. ASSUME NEW f \in Task, InFlight(f) PROVE InFlight(f)'
  <2>1. /\ Carries(serialQueue, f) => Carries(serialQueue', f)
        /\ Carries(liveBuffer, f) => Carries(liveBuffer', f)
    BY <1>3, <1>4, CarriesAppended
  <2> QED
    BY <1>5, <2>1, QueuesGrow DEF DeliverLive
<1>6. ASSUME NEW f \in Task, f \in consumed', f \notin consumed PROVE InFlight(f)'
  <2>1. Ingested(g) = Message(f)
    BY <1>3, <1>6, IngestYields
  <2>2. Carries(serialQueue', f) \/ Carries(liveBuffer', f)
    BY <1>3, <1>4, <2>1, CarriesAppended
  <2> QED
    BY <2>2, InFlightIsNext
<1> QED
  BY <1>1, <1>2, <1>5, <1>6, LosesNone

\* A live envelope whose ingest rejects is cut off if its key is used up.
LEMMA LossDeliverLiveThrows ==
  ASSUME LossInv, NEW g \in Fact, DeliverLiveThrows(g)
  PROVE NoSilentLoss' /\ StreamsHeld'
<1>1. /\ NoSilentLoss /\ StreamsHeld
      /\ UNCHANGED <<serialQueue, liveBuffer, pc, job, stream, frames>>
      /\ interrupted' = interrupted \union ((consumed' \ consumed) \intersect Task)
  BY ControlIs DEF DeliverLiveThrows
<1>2. OutcomesGrow
  BY <1>1 DEF DeliverLiveThrows, OutcomesGrow, AcceptedEvents
<1>3. StreamsHeld'
  BY <1>1 DEF StreamsHeld
<1>4. ASSUME NEW f \in Task, InFlight(f) PROVE InFlight(f)'
  BY <1>1, <1>4, QueuesGrow
<1>5. ASSUME NEW f \in Task, f \in consumed', f \notin consumed PROVE Settled(f)'
  BY <1>1, <1>5 DEF Settled
<1> QED
  BY <1>1, <1>2, <1>3, <1>4, <1>5, LosesNone

\* A crash or stop drops every message in flight, and each one is accounted for.
LEMMA LossLoseMemory == ASSUME LossInv, LoseMemory PROVE NoSilentLoss' /\ StreamsHeld'
<1>1. AcceptedEvents' = AcceptedEvents /\ consumed' = consumed
  BY DEF LoseMemory, AcceptedEvents
<1>2. ASSUME NEW f \in consumed' \intersect Task PROVE Settled(f)'
  BY <1>1, <1>2 DEF LoseMemory, Unresolved, Settled
<1>3. StreamsHeld'
  BY DEF LoseMemory, StreamsHeld
<1> QED
  BY <1>2, <1>3, LossIs

\* A handler of a retry goes on handling it or returns to its pass.
LEMMA HandlerStreams ==
  ASSUME LossInv, NEW w \in Worker, pc[w] \in Handler, stream' = stream,
         \A v \in Worker \ {w} : pc'[v] = pc[v] /\ job'[v] = job[v],
         job[w].retry => \/ pc'[w] = "pass"
                         \/ pc'[w] \in Handler /\ job'[w] = job[w]
  PROVE StreamsHeld'
<1>1. CASE job[w].retry
  BY <1>1, ControlIs, StreamsKept
<1>2. CASE ~job[w].retry
  <2>1. stream[w] = <<>>
    BY <1>2, ControlIs DEF StreamsHeld, Handler
  <2> QED
    BY <2>1, ControlIs, StreamsKept
<1> QED
  BY <1>1, <1>2

\* A message is handed on to its accepted-log write unless its event is there.
LEMMA LossHandleMessage ==
  ASSUME LossInv, NEW w \in Worker, HandleMessage(w)
  PROVE NoSilentLoss' /\ StreamsHeld'
<1>1. /\ pc \in [Worker -> PC] /\ job \in [Worker -> Job] /\ NoSilentLoss
      /\ processed \subseteq AcceptedEvents
  BY ControlIs DEF LossInv, LedgerInv, DurableInv
<1>2. OutcomesGrow
  BY OutcomesKept DEF HandleMessage
<1>3. \A v \in Worker \ {w} : pc'[v] = pc[v] /\ job'[v] = job[v]
  BY <1>1 DEF HandleMessage, Return, IssueSave, Await
<1>4. ASSUME NEW f \in Task, HandledBy(w, f) PROVE HandledBy(w, f)' \/ Settled(f)'
  <2>1. CASE EventOf[f] \in processed
    BY <1>1, <1>2, <2>1 DEF OutcomesGrow, Settled
  <2>2. CASE EventOf[f] \notin processed
    <3>1. job' = job /\ pc'[w] \in BeforeAccept
      BY <1>1, <1>4, <2>2 DEF HandleMessage, HandledBy, Await, BeforeAccept
    <3> QED
      BY <1>4, <3>1 DEF HandledBy
  <2> QED
    BY <2>1, <2>2
<1>5. NoSilentLoss'
  BY <1>1, <1>2, <1>3, <1>4, HandlesOne DEF HandleMessage
<1>6. StreamsHeld'
  <2>1. pc[w] \in Handler /\ stream' = stream
    BY DEF HandleMessage, Handling, Handler
  <2>2. job[w].retry => pc'[w] \in Handler /\ job'[w] = job[w]
    BY <1>1 DEF HandleMessage, IssueSave, Await, Handler
  <2> QED
    BY <1>3, <2>1, <2>2, HandlerStreams
<1> QED
  BY <1>5, <1>6

\* The write of the accepted event settles the message.
LEMMA LossAccept ==
  ASSUME LossInv, NEW w \in Worker, AcceptEvent(w) \/ AcceptDeferredAppend(w)
  PROVE NoSilentLoss' /\ StreamsHeld'
<1>1. pc \in [Worker -> PC] /\ job \in [Worker -> Job] /\ NoSilentLoss /\ TypeOK
  BY ControlIs
<1>2. AcceptedEvents \subseteq AcceptedEvents' /\ EventOf[job[w].fact] \in AcceptedEvents'
  <2>1. job[w].fact \in Source /\ AppendAcceptedEvent(job[w].fact)
    BY <1>1, JobSource DEF AcceptEvent, AcceptDeferredAppend
  <2> QED
    BY <1>1, <2>1, AppendAcceptedAdds
<1>3. OutcomesGrow
  BY <1>2 DEF OutcomesGrow, AcceptEvent, AcceptDeferredAppend
<1>4. \A v \in Worker \ {w} : pc'[v] = pc[v] /\ job'[v] = job[v]
  BY <1>1 DEF AcceptEvent, AcceptDeferredAppend, Return, Await
<1>5. \A f \in Task : HandledBy(w, f) => Settled(f)'
  BY <1>2 DEF HandledBy, Settled
<1>6. /\ pc[w] \in Handler
      /\ UNCHANGED <<consumed, serialQueue, liveBuffer, stream, frames>>
  BY DEF AcceptEvent, AcceptDeferredAppend, Handler
<1>7. NoSilentLoss'
  BY <1>1, <1>3, <1>4, <1>5, <1>6, HandlesOne
<1>8. StreamsHeld'
  <2>1. job[w].retry => pc'[w] = "pass" \/ (pc'[w] \in Handler /\ job'[w] = job[w])
    BY <1>1 DEF AcceptEvent, AcceptDeferredAppend, Return, Await, Handler
  <2> QED
    BY <1>4, <1>6, <2>1, HandlerStreams
<1> QED
  BY <1>7, <1>8

\* The handlers of the other signals, and what follows a handler's accepted-log
\* write, have no message to account for.
LEMMA LossOtherHandlers ==
  ASSUME LossInv, NEW w \in Worker,
         \/ HandleDeferred(w) \/ HandleSkipped(w) \/ HandleMalformed(w)
         \/ AcceptDeferredRemove(w) \/ SaveDeferredIds(w) \/ GiveUpSave(w)
  PROVE NoSilentLoss' /\ StreamsHeld'
<1>1. pc \in [Worker -> PC] /\ job \in [Worker -> Job]
  BY ControlIs
<1> DEFINE Accounted ==
     /\ UNCHANGED <<accepted, interrupted, consumed, serialQueue, liveBuffer, stream, frames>>
     /\ rejected \subseteq rejected' /\ pc[w] \in Handler
     /\ pc[w] \notin BeforeAccept \/ job[w].kind # "message"
     /\ \A v \in Worker \ {w} : pc'[v] = pc[v] /\ job'[v] = job[v]
     /\ job[w].retry => pc'[w] = "pass" \/ (pc'[w] \in Handler /\ job'[w] = job[w])
<1>2. HandleDeferred(w) => Accounted
  BY <1>1 DEF HandleDeferred, EnqueueDeferred, Handler, BeforeAccept, Handling, Return, IssueSave, Await
<1>3. HandleSkipped(w) => Accounted
  BY <1>1 DEF HandleSkipped, Handler, BeforeAccept, Handling, Return, IssueSave, Await
<1>4. HandleMalformed(w) => Accounted
  BY <1>1 DEF HandleMalformed, Handler, BeforeAccept, Handling, Return, IssueSave, Await
<1>5. AcceptDeferredRemove(w) => Accounted
  BY <1>1 DEF AcceptDeferredRemove, Handler, BeforeAccept, Handling, Return, IssueSave, Await
<1>6. SaveDeferredIds(w) => Accounted
  BY <1>1 DEF SaveDeferredIds, AfterSave, Handler, BeforeAccept, Handling, Return, IssueSave, Await
<1>7. GiveUpSave(w) => Accounted
  BY <1>1 DEF GiveUpSave, AfterSave, Handler, BeforeAccept, Handling, Return, IssueSave, Await
<1>8. Accounted
  BY <1>2, <1>3, <1>4, <1>5, <1>6, <1>7
<1>9. NoSilentLoss'
  BY <1>8, HandlesNone
<1>10. StreamsHeld'
  BY <1>8, HandlerStreams
<1> QED
  BY <1>9, <1>10

\* An abandoned message is reported.
LEMMA LossGiveUpSignal ==
  ASSUME LossInv, NEW w \in Worker, GiveUpSignal(w)
  PROVE NoSilentLoss' /\ StreamsHeld'
<1>1. pc \in [Worker -> PC] /\ job \in [Worker -> Job] /\ NoSilentLoss
  BY ControlIs
<1>2. OutcomesGrow /\ <<job[w].fact, "persistence-exhausted">> \in rejected'
  BY OutcomesKept DEF GiveUpSignal
<1>3. \A v \in Worker \ {w} : pc'[v] = pc[v] /\ job'[v] = job[v]
  BY <1>1 DEF GiveUpSignal, Return, Await
<1>4. \A f \in Task : HandledBy(w, f) => Settled(f)'
  BY <1>2 DEF HandledBy, Settled
<1>5. NoSilentLoss'
  BY <1>1, <1>2, <1>3, <1>4, HandlesOne DEF GiveUpSignal
<1>6. /\ pc[w] \in Handler /\ stream' = stream
      /\ job[w].retry => pc'[w] = "pass"
  BY <1>1 DEF GiveUpSignal, Return, Await, Handler
<1>7. StreamsHeld'
  BY <1>3, <1>6, HandlerStreams
<1> QED
  BY <1>5, <1>7

\* The steps of a retry pass between two of its signals.
LEMMA LossPass ==
  ASSUME LossInv, NEW w \in Worker,
         \/ PruneExpired(w) \/ EnterRetrying(w) \/ ChargeBatch(w) \/ RemoveExhausted(w)
         \/ (ReportRemoved(w) /\ UNCHANGED accepted) \/ RetrySave(w)
  PROVE NoSilentLoss' /\ StreamsHeld'
<1>1. pc \in [Worker -> PC] /\ StreamsHeld
  BY ControlIs
<1>2. \/ RetrySave(w)
      \/ pc[w] \in {"prune", "pruneSave", "batch", "charge", "exhausted", "exhaustedSave"}
  BY DEF PruneExpired, EnterRetrying, ChargeBatch, RemoveExhausted, ReportRemoved
<1>3. RetrySave(w) \/ (pc[w] \notin BeforeAccept /\ stream[w] = <<>>)
  BY <1>1, <1>2 DEF StreamsHeld, Handler, BeforeAccept
<1> DEFINE Kept ==
     /\ UNCHANGED <<accepted, interrupted, consumed, serialQueue, liveBuffer, job, stream,
                    frames>>
     /\ rejected \subseteq rejected'
     /\ \A v \in Worker \ {w} : pc'[v] = pc[v]
     /\ pc'[w] = pc[w] \/ (pc[w] \notin BeforeAccept /\ stream[w] = <<>>)
<1>4. PruneExpired(w) => Kept
  BY <1>1, <1>3 DEF PruneExpired, RetrySave, IssueSave, Await
<1>5. EnterRetrying(w) => Kept
  BY <1>1, <1>3 DEF EnterRetrying, RetrySave, Await
<1>6. ChargeBatch(w) => Kept
  BY <1>1, <1>3 DEF ChargeBatch, RetrySave, Await
<1>7. RemoveExhausted(w) => Kept
  BY <1>1, <1>3 DEF RemoveExhausted, RetrySave, IssueSave, Await
<1>8. ReportRemoved(w) /\ UNCHANGED accepted => Kept
  BY <1>1, <1>3 DEF ReportRemoved, RetrySave, Await
<1>9. RetrySave(w) => Kept
  BY <1>1 DEF RetrySave
<1>10. Kept
  BY <1>4, <1>5, <1>6, <1>7, <1>8, <1>9
<1>11. NoSilentLoss'
  BY <1>10, HandlesNone
<1>12. StreamsHeld'
  BY <1>1, <1>10, StreamsKept
<1> QED
  BY <1>11, <1>12

\* Ingesting one envelope of a batch adds its signal to the stream.
LEMMA LossIngestBatch ==
  ASSUME LossInv, NEW w \in Worker, IngestBatch(w)
  PROVE NoSilentLoss' /\ StreamsHeld'
<1>1. /\ pc \in [Worker -> PC] /\ batch \in [Worker -> SUBSET Fact] /\ TypeOK
      /\ stream \in [Worker -> Seq(IngestSignal)] /\ NoSilentLoss /\ StreamsHeld
  BY ControlIs
<1>2. OutcomesGrow
  BY OutcomesKept DEF IngestBatch
<1>3. pc[w] = "ingest" /\ pc'[w] \in {"ingest", "pass", "drain"}
  BY <1>1 DEF IngestBatch, Await
<1>4. /\ \A v \in Worker \ {w} : pc'[v] = pc[v] /\ stream'[v] = stream[v]
      /\ UNCHANGED <<job, frames, serialQueue, liveBuffer>>
  BY <1>1 DEF IngestBatch, Await
<1>5. StreamsHeld'
  BY <1>1, <1>3, <1>4, StreamsKept
<1>6. \/ consumed' = consumed /\ stream'[w] = stream[w]
      \/ \E g \in Fact : Ingest(g) /\ stream'[w] = Append(stream[w], Ingested(g))
  BY <1>1 DEF IngestBatch, NextOfBatch
<1>7. ASSUME NEW f \in Task, Carries(stream[w], f) PROVE Carries(stream'[w], f)
  <2>1. ASSUME NEW g \in Fact, Ingest(g), stream'[w] = Append(stream[w], Ingested(g))
        PROVE Carries(stream'[w], f)
    BY <1>1, <1>7, <2>1, IngestTyped, CarriesAppended
  <2> QED
    BY <1>6, <1>7, <2>1
<1>8. ASSUME NEW f \in Task, f \in consumed', f \notin consumed PROVE InFlight(f)'
  <2>1. PICK g \in Fact : Ingest(g) /\ stream'[w] = Append(stream[w], Ingested(g))
    BY <1>6, <1>8
  <2>2. Ingested(g) = Message(f) /\ Ingested(g) \in IngestSignal
    BY <1>1, <1>8, <2>1, IngestYields, IngestTyped
  <2>3. Carries(stream'[w], f)
    BY <1>1, <2>1, <2>2, CarriesAppended
  <2> QED
    BY <2>3, InFlightIsNext DEF HeldBy
<1>9. ASSUME NEW f \in Task, InFlight(f) PROVE InFlight(f)'
  <2>1. CASE Carries(serialQueue, f) \/ Carries(liveBuffer, f)
    BY <1>4, <2>1, InFlightIsNext
  <2>2. ASSUME NEW v \in Worker, HeldBy(v, f) PROVE HeldBy(v, f)'
    <3>1. Carries(stream[v], f) => Carries(stream'[v], f)
      BY <1>4, <1>7
    <3>2. HandledBy(v, f) => HandledBy(v, f)'
      BY <1>3, <1>4 DEF HandledBy, BeforeAccept
    <3> QED
      BY <1>4, <2>2, <3>1, <3>2 DEF HeldBy
  <2> QED
    BY <1>9, <2>1, <2>2, InFlightIs, InFlightIsNext
<1>10. NoSilentLoss'
  BY <1>1, <1>2, <1>8, <1>9, LosesNone
<1> QED
  BY <1>5, <1>10

\* The pass that takes a message handles it; one it suspends keeps its stream.
LEMMA LossNextRetried ==
  ASSUME LossInv, NEW w \in Worker, NextRetried(w)
  PROVE NoSilentLoss' /\ StreamsHeld'
<1>1. /\ pc \in [Worker -> PC] /\ job \in [Worker -> Job] /\ frames \in [Worker -> Seq(Frame)]
      /\ stream \in [Worker -> Seq(IngestSignal)] /\ NoSilentLoss /\ StreamsHeld
  BY ControlIs
<1>2. OutcomesGrow /\ UNCHANGED <<consumed, serialQueue, liveBuffer>> /\ pc[w] = "pass"
  BY OutcomesKept DEF NextRetried
<1>3. \A v \in Worker \ {w} : /\ pc'[v] = pc[v] /\ job'[v] = job[v]
                              /\ stream'[v] = stream[v] /\ frames'[v] = frames[v]
  BY <1>1 DEF NextRetried, HandleEpochAdvanced, EnterPass, Await
<1> DEFINE fr == [stream |-> Tail(stream[w]), entered |-> entered[w]]
<1>4. \/ /\ stream[w] = <<>> /\ stream'[w] = <<>> /\ frames'[w] = frames[w]
      \/ /\ stream[w] # <<>> /\ stream'[w] = Tail(stream[w]) /\ frames'[w] = frames[w]
         /\ pc'[w] = "append" /\ job'[w].retry
         /\ job'[w].kind = Head(stream[w]).kind /\ job'[w].fact = Head(stream[w]).fact
      \/ /\ stream[w] # <<>> /\ Head(stream[w]).kind = "epoch_advanced" /\ pc'[w] = "pass"
         /\ stream'[w] = Tail(stream[w]) /\ frames'[w] = frames[w]
      \/ /\ stream[w] # <<>> /\ Head(stream[w]).kind = "epoch_advanced" /\ pc'[w] = "prune"
         /\ stream'[w] = <<>> /\ frames'[w] = <<fr>> \o frames[w]
  <2>1. CASE stream[w] = <<>>
    BY <1>1, <2>1 DEF NextRetried
  <2>2. CASE stream[w] # <<>> /\ Head(stream[w]).kind # "epoch_advanced"
    BY <1>1, <2>2 DEF NextRetried, Await
  <2>3. CASE stream[w] # <<>> /\ Head(stream[w]).kind = "epoch_advanced"
    <3>1. HandleEpochAdvanced(w, <<fr>>)
      BY <2>3 DEF NextRetried
    <3>2. stream' = [stream EXCEPT ![w] = IF frames' = frames THEN Tail(@) ELSE <<>>]
      BY <2>3 DEF NextRetried
    <3>3. fr \in Frame
      BY <1>1, <1>2, <2>3, ControlIs DEF Frame, TypeOK, PassTyped
    <3> HIDE DEF fr
    <3>4. <<fr>> \o frames[w] # frames[w]
      BY <1>1, <3>3, FramesPushed
    <3>5. CASE EnterPass(w, <<fr>>)
      <4>1. frames'[w] = <<fr>> \o frames[w] /\ pc'[w] = "prune"
        BY <1>1, <3>5 DEF EnterPass, Await
      <4>2. stream'[w] = <<>>
        BY <1>1, <3>2, <3>4, <4>1
      <4> QED
        BY <2>3, <4>1, <4>2
    <3>6. CASE UNCHANGED <<pc, entered, frames>>
      BY <1>1, <1>2, <2>3, <3>2, <3>6
    <3> QED
      BY <3>1, <3>5, <3>6 DEF HandleEpochAdvanced
  <2> QED
    BY <2>1, <2>2, <2>3
<1>5. fr \in Frame \/ stream[w] = <<>>
  BY <1>1, ControlIs DEF Frame, TypeOK, PassTyped
<1>6. fr.stream = Tail(stream[w])
  OBVIOUS
<1> HIDE DEF fr
<1>7. StreamsHeld'
  BY <1>1, <1>3, <1>4, StreamsKept DEF Handler
<1>8. ASSUME NEW f \in Task, HeldBy(w, f) PROVE HeldBy(w, f)'
  <2>1. ~HandledBy(w, f)
    BY <1>2 DEF HandledBy, BeforeAccept
  <2>2. CASE Carries(stream[w], f)
    <3>1. stream[w] # <<>>
      BY <2>2, CarriesFew
    <3>2. Head(stream[w]) = Message(f) \/ Carries(Tail(stream[w]), f)
      BY <1>1, <2>2, <3>1, CarriesRest
    <3>3. CASE Head(stream[w]) = Message(f)
      <4>1. Head(stream[w]).kind = "message" /\ Head(stream[w]).fact = f
        BY <3>3 DEF Message
      <4> QED
        BY <1>4, <3>1, <4>1 DEF HeldBy, HandledBy, BeforeAccept
    <3>4. CASE Carries(Tail(stream[w]), f)
      <4>1. CASE stream'[w] = Tail(stream[w])
        BY <3>4, <4>1 DEF HeldBy
      <4>2. CASE frames'[w] = <<fr>> \o frames[w]
        <5>1. FramesCarry(frames'[w], f)
          <6>1. fr \in Frame /\ frames[w] \in Seq(Frame) /\ Carries(fr.stream, f)
            BY <1>1, <1>5, <1>6, <3>1, <3>4
          <6> QED
            BY <4>2, <6>1, FramesPushed
        <5> QED
          BY <5>1 DEF HeldBy
      <4> QED
        BY <1>4, <3>1, <4>1, <4>2
    <3> QED
      BY <3>2, <3>3, <3>4
  <2>3. CASE FramesCarry(frames[w], f)
    <3>1. CASE frames'[w] = frames[w]
      BY <2>3, <3>1 DEF HeldBy
    <3>2. CASE stream[w] # <<>> /\ frames'[w] = <<fr>> \o frames[w]
      <4>1. FramesCarry(frames'[w], f)
        BY <1>1, <1>5, <2>3, <3>2, FramesPushed
      <4> QED
        BY <4>1 DEF HeldBy
    <3> QED
      BY <1>4, <3>1, <3>2
  <2> QED
    BY <1>8, <2>1, <2>2, <2>3 DEF HeldBy
<1>9. ASSUME NEW f \in Task, InFlight(f) PROVE InFlight(f)'
  <2>1. \A v \in Worker \ {w} : HeldBy(v, f) => HeldBy(v, f)'
    BY <1>3 DEF HeldBy, HandledBy
  <2> QED
    BY <1>2, <1>8, <1>9, <2>1, InFlightIs, InFlightIsNext
<1>10. NoSilentLoss'
  BY <1>1, <1>2, <1>9, LosesNone
<1> QED
  BY <1>7, <1>10

\* The pass resumed takes back its stream, in a continuation that has none.
LEMMA LossEndOfPass ==
  ASSUME LossInv, NEW w \in Worker, EndOfPass(w)
  PROVE NoSilentLoss' /\ StreamsHeld'
<1>1. /\ pc \in [Worker -> PC] /\ frames \in [Worker -> Seq(Frame)]
      /\ stream \in [Worker -> Seq(IngestSignal)] /\ NoSilentLoss /\ StreamsHeld
  BY ControlIs
<1>2. /\ OutcomesGrow /\ UNCHANGED <<consumed, serialQueue, liveBuffer, job>>
      /\ pc[w] = "loop"
  BY OutcomesKept DEF EndOfPass
<1>3. stream[w] = <<>>
  BY <1>1, <1>2 DEF StreamsHeld, Handler
<1>4. \A v \in Worker \ {w} : /\ pc'[v] = pc[v] /\ job'[v] = job[v]
                              /\ stream'[v] = stream[v] /\ frames'[v] = frames[v]
  BY <1>1, <1>2 DEF EndOfPass, LeavePass, Await
<1>5. \/ stream'[w] = <<>> /\ frames'[w] = frames[w]
      \/ /\ frames[w] # <<>> /\ pc'[w] = "pass"
         /\ stream'[w] = Head(frames[w]).stream /\ frames'[w] = Tail(frames[w])
  BY <1>1, <1>3 DEF EndOfPass, LeavePass, Await
<1>6. StreamsHeld'
  BY <1>1, <1>4, <1>5, StreamsKept
<1>7. ASSUME NEW f \in Task, HeldBy(w, f) PROVE HeldBy(w, f)'
  <2>1. FramesCarry(frames[w], f)
    BY <1>2, <1>3, <1>7, CarriesFew DEF HeldBy, HandledBy, BeforeAccept
  <2> QED
    BY <1>1, <1>5, <2>1, FramesPopped DEF HeldBy
<1>8. ASSUME NEW f \in Task, InFlight(f) PROVE InFlight(f)'
  <2>1. \A v \in Worker \ {w} : HeldBy(v, f) => HeldBy(v, f)'
    BY <1>4 DEF HeldBy, HandledBy
  <2> QED
    BY <1>2, <1>7, <1>8, <2>1, InFlightIs, InFlightIsNext
<1>9. NoSilentLoss'
  BY <1>1, <1>2, <1>8, LosesNone
<1> QED
  BY <1>6, <1>9

LEMMA LossInit == Init => LossInv
<1> SUFFICES ASSUME Init PROVE NoSilentLoss /\ StreamsHeld
  BY LedgerInvInit DEF LossInv
<1>1. NoSilentLoss
  BY DEF Init, NoSilentLoss
<1>2. StreamsHeld
  BY DEF Init, StreamsHeld
<1> QED
  BY <1>1, <1>2

LEMMA LossStep == LossInv /\ [Next]_vars => LossInv'
<1> SUFFICES ASSUME LossInv, [Next]_vars PROVE NoSilentLoss' /\ StreamsHeld'
  BY LedgerInvStep DEF LossInv
<1>1. CASE UNCHANGED vars
  BY <1>1, Workers, MovesIdle DEF vars
<1>2. CASE StartJob \/ Cutover
  BY <1>2, LossStartJob, LossOther, LossDrainNext, LossDrainBuffered, LossConsumeLatch,
     LossReopen DEF Cutover
<1>3. CASE Environment
  BY <1>3, LossOther, LossLoseMemory, LossDeliverLive, LossDeliverLiveThrows, LossAcceptLocal
     DEF Environment, Crash, Stop
<1>4. CASE Failure
  BY <1>4, LossGiveUpSignal, LossOtherHandlers, LossPass, LossOther, LossIngestThrows
     DEF Failure, GiveUpRemoval, ReportRemoved
<1>5. ASSUME NEW w \in Worker, Resume(w) PROVE NoSilentLoss' /\ StreamsHeld'
  <2>1. CASE HandleMessage(w) \/ AcceptEvent(w) \/ AcceptDeferredAppend(w)
    BY <2>1, LossHandleMessage, LossAccept
  <2>2. CASE \/ AcceptDeferredRemove(w) \/ HandleDeferred(w) \/ HandleSkipped(w)
             \/ HandleMalformed(w) \/ SaveDeferredIds(w)
    BY <2>2, LossOtherHandlers
  <2>3. CASE \/ PruneExpired(w) \/ EnterRetrying(w) \/ ChargeBatch(w) \/ RemoveExhausted(w)
             \/ SaveRemoval(w)
    BY <2>3, LossPass DEF SaveRemoval, ReportRemoved
  <2>4. CASE IngestBatch(w) \/ NextRetried(w) \/ EndOfPass(w)
    BY <2>4, LossIngestBatch, LossNextRetried, LossEndOfPass
  <2> QED
    BY <1>5, <2>1, <2>2, <2>3, <2>4 DEF Resume
<1> QED
  BY <1>1, <1>2, <1>3, <1>4, <1>5 DEF Next

\* A message the MLS ratchet has decrypted, which it never does again, is never lost
\* silently: its task event is in the accepted log, or a signal or handler carries
\* it, or its failed write was reported, or a crash, a stop or an ingest that rejected cut
\* it off; for any envelopes, nesting of retry passes, failed writes and interleavings.
THEOREM LosesNothingSilently == Spec => []NoSilentLoss
<1>1. LossInv => NoSilentLoss
  BY DEF LossInv
<1> QED
  BY <1>1, LossInit, LossStep, PTL DEF Spec

----------------------------------------------------------------------------
(* The parked queue and its durable list. *)

\* The engine has its queue in memory again: it is past R2, or its bootstrap is over.
\* (A rejected pass, which alone leads to the catch of runBootstrapFetch, is a failure.)
Ready == lifecycle # "down" /\ pc["cutover"] \notin {"rebuild", "bootstrap", "rejoin", "reopen"}

Logged == {f \in Fact : seqOf[f] # 0}

\* Only logged facts are parked, or about to be.
ParkedIsLogged ==
  /\ deferred \subseteq Logged /\ deferredIds \subseteq Logged
  /\ \A w \in Worker : ids[w] \subseteq Logged

\* Until then nothing is parked and nothing but local edits is handled.
WaitsForQueue ==
  ~Ready =>
    /\ deferred = {} /\ liveBuffer = <<>>
    /\ pc["chain"] \in {"idle", "accept"} /\ ~job["chain"].retry
    /\ pc["cutover"] \in {"idle", "rebuild", "bootstrap"}
    /\ \A i \in DOMAIN serialQueue : serialQueue[i].kind = "local"

PhaseIs ==
  /\ pc["cutover"] = "rebuild" => lifecycle = "recovering"
  /\ pc["cutover"] = "bootstrap" <=> lifecycle = "joining"

\* What a session that joins finds in the log is orphaned.
JoinsOverOrphans == lifecycle = "joining" => Logged \subseteq orphaned

\* The call of saveDeferredIds that will land last.
LastSave(w) == Saving(w) /\ \A v \in Worker \ {w} : Saving(v) => firstSave = v

\* The list that will be stored last is the queue; until a save lands, the list may
\* still have what a session joined over.
SavesTheQueue ==
  Ready => /\ (\A w \in Worker : ~Saving(w)) =>
                deferred \subseteq deferredIds /\ deferredIds \subseteq deferred \union orphaned
           /\ \A w \in Worker : LastSave(w) => ids[w] = deferred

Parking ==
  ParkedIsLogged /\ WaitsForQueue /\ PhaseIs /\ JoinsOverOrphans /\ SavesTheQueue

\* Holds as long as no write has failed.
ParkInv == LedgerInv /\ (failures = 0 => Parking)

\* What the invariant and the types say of the variables concerned.
LEMMA ParkIs ==
  ASSUME LedgerInv, Parking
  PROVE /\ TypeOK /\ DownIsIdle
        /\ ParkedIsLogged /\ WaitsForQueue /\ PhaseIs /\ JoinsOverOrphans /\ SavesTheQueue
        /\ pc \in [Worker -> PC] /\ job \in [Worker -> Job]
        /\ ids \in [Worker -> SUBSET Fact] /\ firstSave \in Worker
        /\ deferred \in SUBSET Fact /\ deferredIds \in SUBSET Fact /\ failures \in Nat
        /\ serialQueue \in Seq(Signal) /\ seqOf \in [Fact -> Nat]
        /\ "chain" \in Worker /\ "cutover" \in Worker
BY Workers DEF LedgerInv, DurableInv, TypeOK, Parking, ControlTyped, MemoryTyped, StoresTyped,
   OutputsTyped

\* A step of an engine that is ready and goes on.
Goes ==
  /\ lifecycle' \notin {"down", "joining"}
  /\ pc'["cutover"] \notin {"rebuild", "bootstrap", "rejoin", "reopen"}
  /\ Logged \subseteq Logged' /\ orphaned' = orphaned

LEMMA ParkGoes ==
  ASSUME LedgerInv, Parking, Goes, ParkedIsLogged', SavesTheQueue'
  PROVE Parking'
BY DEF Parking, Goes, JoinsOverOrphans, PhaseIs, WaitsForQueue, Ready

\* A step that leaves the queue and its saves alone.
LEMMA ParkKept ==
  ASSUME LedgerInv, Parking, TypeOK', Ready, Goes,
         UNCHANGED <<deferred, deferredIds, ids, firstSave>>,
         \A w \in Worker : Saving(w)' <=> Saving(w)
  PROVE Parking'
<1>1. ParkedIsLogged'
  BY ParkIs DEF ParkedIsLogged, Goes
<1>2. SavesTheQueue'
  BY ParkIs DEF SavesTheQueue, LastSave, Goes
<1> QED
  BY <1>1, <1>2, ParkGoes

\* A change of the queue with the call of saveDeferredIds that follows it at once.
LEMMA ParkIssued ==
  ASSUME LedgerInv, Parking, TypeOK', Ready, Goes,
         NEW w \in Worker, ~Saving(w), NEW at \in {"save", "pruneSave", "exhaustedSave"},
         IssueSave(w, at), deferred' \subseteq Logged', deferredIds' \subseteq deferredIds
  PROVE Parking'
<1>1. /\ ids'[w] = deferred' /\ Saving(w)'
      /\ \A v \in Worker \ {w} : ids'[v] = ids[v] /\ (Saving(v)' <=> Saving(v))
  BY ParkIs DEF IssueSave, Await, Saving
<1>2. \A v \in Worker \ {w} : Saving(v) => firstSave' = v
  BY ParkIs DEF IssueSave, Worker
<1>3. ParkedIsLogged'
  <2>1. \A v \in Worker : ids'[v] \subseteq Logged'
    BY <1>1, ParkIs DEF ParkedIsLogged, Goes
  <2> QED
    BY <2>1, ParkIs DEF ParkedIsLogged, Goes
<1>4. SavesTheQueue'
  <2>1. ASSUME NEW v \in Worker, LastSave(v)' PROVE v = w
    BY <1>1, <1>2, <2>1 DEF LastSave
  <2> QED
    BY <1>1, <2>1 DEF SavesTheQueue
<1> QED
  BY <1>3, <1>4, ParkGoes

\* A save lands and its caller goes on.
LEMMA ParkLanded ==
  ASSUME LedgerInv, Parking, TypeOK', Ready, Goes,
         NEW w \in Worker, Saving(w), SaveReturns(w), deferredIds' = ids[w],
         UNCHANGED <<seqOf, deferred>>,
         ~Saving(w)', \A v \in Worker \ {w} : pc'[v] = pc[v]
  PROVE Parking'
<1>1. /\ ids'[w] = {} /\ firstSave' = firstSave
      /\ \A v \in Worker \ {w} : ids'[v] = ids[v] /\ (Saving(v)' <=> Saving(v))
      /\ \A v \in Worker \ {w} : Saving(v) => firstSave = w
  BY ParkIs DEF SaveReturns, SaveTurn, Saving
<1>2. ParkedIsLogged'
  BY <1>1, ParkIs DEF ParkedIsLogged, Logged
<1>3. SavesTheQueue'
  <2>1. CASE \E v \in Worker \ {w} : Saving(v)
    <3>1. PICK v \in Worker \ {w} : Saving(v)
      BY <2>1
    <3>2. Worker = {v, w}
      BY DEF Worker
    <3>3. LastSave(v) /\ ids[v] = deferred
      BY <1>1, <3>1, <3>2, ParkIs DEF LastSave, SavesTheQueue
    <3> QED
      BY <1>1, <3>1, <3>2, <3>3 DEF SavesTheQueue, LastSave
  <2>2. CASE \A v \in Worker \ {w} : ~Saving(v)
    <3>1. LastSave(w) /\ ids[w] = deferred
      BY <2>2, ParkIs DEF LastSave, SavesTheQueue
    <3> QED
      BY <1>1, <2>2, <3>1 DEF SavesTheQueue, LastSave
  <2> QED
    BY <2>1, <2>2
<1> QED
  BY <1>2, <1>3, ParkGoes


----------------------------------------------------------------------------
(* Each action keeps it as long as no write fails. *)

\* A continuation is past the awaits of a start and of a local edit.
LEMMA BusyIsReady ==
  ASSUME LedgerInv, Parking, NEW w \in Worker,
         pc[w] \notin {"idle", "rebuild", "bootstrap", "accept"}
  PROVE Ready /\ lifecycle \notin {"down", "joining"}
<1>1. Ready
  BY ParkIs DEF WaitsForQueue, Worker
<1> QED
  BY <1>1, ParkIs DEF Ready, PhaseIs

LEMMA ReadyRuns ==
  ASSUME LedgerInv, Parking, Ready
  PROVE lifecycle \notin {"down", "joining"}
BY ParkIs DEF Ready, PhaseIs

\* Without a rejected pass there is nothing to catch.
LEMMA NoneRejoins == ASSUME LedgerInv, Parking PROVE ~Rejoin /\ ~Reopen
<1>1. pc["cutover"] \notin {"rejoin", "reopen"}
  BY ParkIs DEF WaitsForQueue, Ready
<1> QED
  BY <1>1 DEF Rejoin, Reopen

LEMMA GiveUpCounts == ASSUME TypeOK, GiveUp PROVE failures' # 0
BY DEF GiveUp, TypeOK, OutputsTyped

\* transitionTo of an engine that is running.
LEMMA TransitionGoes ==
  ASSUME TypeOK, NEW new \in Lifecycle \ {"down", "joining"}, TransitionTo(new), failures' = 0
  PROVE /\ lifecycle' = new /\ lifecycle' \notin {"down", "joining"}
        /\ checkpoint' = Snapshot' /\ failures' = failures
BY GiveUpCounts DEF TransitionTo

\* The append of a fact keeps what is logged and logs the fact.
LEMMA AppendLogs ==
  ASSUME TypeOK, NEW f \in Fact, AppendFact(f)
  PROVE Logged \subseteq Logged' /\ f \in Logged'
<1>1. seqOf \in [Fact -> Nat] /\ SeqAfterAppend(f) \in Nat
  BY SeqType DEF TypeOK, StoresTyped
<1>2. SeqAfterAppend(f) # 0
  <2>1. IsFiniteSet({g \in Fact : seqOf[g] # 0})
    BY SourceAssumption, FS_Subset
  <2>2. Cardinality({g \in Fact : seqOf[g] # 0}) \in Nat
    BY <2>1, FS_CardinalityType
  <2> QED
    BY <1>1, <2>2 DEF SeqAfterAppend, NextSeq
<1> QED
  BY <1>1, <1>2 DEF AppendFact, Logged

\* What a step of a busy continuation does when it leaves the queue alone.
Steady(w) ==
  /\ UNCHANGED <<deferred, deferredIds, ids, firstSave>>
  /\ ~Saving(w) /\ ~Saving(w)'
  /\ \A v \in Worker \ {w} : pc'[v] = pc[v]

LEMMA SteadyKept ==
  ASSUME LedgerInv, Parking, TypeOK', Ready, Goes, NEW w \in Worker, Steady(w)
  PROVE Parking'
BY ParkKept DEF Steady, Saving

LEMMA ParkHandler ==
  ASSUME LedgerInv, Parking, TypeOK', NEW w \in Worker, failures' = 0,
         \/ HandleMessage(w) \/ HandleDeferred(w) \/ HandleSkipped(w) \/ HandleMalformed(w)
  PROVE Parking'
<1>1. pc \in [Worker -> PC] /\ TypeOK /\ deferred \in SUBSET Fact
  BY ParkIs
<1>2. pc[w] = "append" /\ AppendFact(job[w].fact) /\ job[w].fact \in Fact
  BY JobFact, <1>1 DEF HandleMessage, HandleDeferred, HandleSkipped, HandleMalformed, Handling
<1>3. Ready /\ lifecycle \notin {"down", "joining"}
  BY <1>2, BusyIsReady
<1>4. Logged \subseteq Logged' /\ job[w].fact \in Logged'
  BY <1>1, <1>2, AppendLogs
<1>5. /\ UNCHANGED <<deferredIds, lifecycle, orphaned>>
      /\ \A v \in Worker \ {w} : pc'[v] = pc[v]
      /\ pc'[w] \in {"idle", "pass", "save", "accept", "acceptDeferred"}
  BY <1>1 DEF HandleMessage, HandleDeferred, HandleSkipped, HandleMalformed, Return, IssueSave,
     Await
<1>6. Goes
  BY <1>1, <1>3, <1>4, <1>5, Workers DEF Goes, Ready
<1>7. \/ Steady(w)
      \/ IssueSave(w, "save") /\ deferred' \subseteq deferred \union {job[w].fact}
  <2>1. CASE HandleMessage(w)
    BY <1>1, <1>2, <2>1 DEF HandleMessage, Steady, Saving, Return, Await
  <2>2. CASE HandleDeferred(w)
    BY <1>1, <1>2, <2>2 DEF HandleDeferred, EnqueueDeferred, Steady, Saving, Return, Await
  <2>3. CASE HandleSkipped(w)
    BY <1>1, <1>2, <2>3 DEF HandleSkipped, Steady, Saving, Return, Await
  <2>4. CASE HandleMalformed(w)
    BY <1>1, <1>2, <2>4 DEF HandleMalformed, Steady, Saving, Return, Await
  <2> QED
    BY <2>1, <2>2, <2>3, <2>4
<1>8. CASE Steady(w)
  BY <1>3, <1>6, <1>8, SteadyKept
<1>9. CASE IssueSave(w, "save") /\ deferred' \subseteq deferred \union {job[w].fact}
  <2>1. deferred' \subseteq Logged' /\ ~Saving(w)
    BY <1>2, <1>4, <1>9, ParkIs DEF ParkedIsLogged, Saving
  <2> QED
    BY <1>3, <1>5, <1>6, <1>9, <2>1, ParkIssued
<1> QED
  BY <1>7, <1>8, <1>9

LEMMA ParkUnpark ==
  ASSUME LedgerInv, Parking, TypeOK', NEW w \in Worker, failures' = 0,
         \/ AcceptDeferredRemove(w) \/ PruneExpired(w) \/ RemoveExhausted(w)
  PROVE Parking'
<1>1. pc \in [Worker -> PC] /\ TypeOK /\ deferred \in SUBSET Fact
  BY ParkIs
<1>2. pc[w] \in {"unpark", "prune", "exhausted"}
  BY DEF AcceptDeferredRemove, PruneExpired, RemoveExhausted
<1>3. Ready /\ lifecycle \notin {"down", "joining"}
  BY <1>2, BusyIsReady
<1>4. /\ UNCHANGED <<seqOf, lifecycle, orphaned>>
      /\ deferred' \subseteq deferred /\ deferredIds' \subseteq deferredIds
  BY DEF AcceptDeferredRemove, PruneExpired, RemoveExhausted
<1>5. \/ deferred' = deferred /\ deferredIds' = deferredIds /\ UNCHANGED saving /\ Await(w, "batch")
      \/ deferred' = deferred /\ deferredIds' = deferredIds /\ UNCHANGED saving /\ Await(w, "loop")
      \/ \E at \in {"save", "pruneSave", "exhaustedSave"} : IssueSave(w, at)
  BY DEF AcceptDeferredRemove, PruneExpired, RemoveExhausted
<1>6. Goes
  <2>1. \A v \in Worker : pc'[v] = pc[v] \/ pc'[v] \notin {"rebuild", "bootstrap", "rejoin", "reopen"}
    BY <1>1, <1>5 DEF IssueSave, Await
  <2> QED
    BY <1>1, <1>3, <1>4, <2>1, ParkIs DEF Goes, Logged, Ready
<1>7. ~Saving(w)
  BY <1>2 DEF Saving
<1>8. CASE \E at \in {"save", "pruneSave", "exhaustedSave"} : IssueSave(w, at)
  <2>1. deferred' \subseteq Logged'
    BY <1>4, ParkIs DEF ParkedIsLogged, Logged
  <2> QED
    BY <1>3, <1>4, <1>6, <1>7, <1>8, <2>1, ParkIssued
<1>9. CASE ~\E at \in {"save", "pruneSave", "exhaustedSave"} : IssueSave(w, at)
  <2>1. Steady(w)
    BY <1>1, <1>5, <1>7, <1>9 DEF Steady, Saving, Await
  <2> QED
    BY <1>3, <1>6, <2>1, SteadyKept
<1> QED
  BY <1>8, <1>9

LEMMA ParkSave ==
  ASSUME LedgerInv, Parking, TypeOK', NEW w \in Worker, failures' = 0,
         SaveDeferredIds(w) \/ SaveRemoval(w)
  PROVE Parking'
<1>1. pc \in [Worker -> PC] /\ TypeOK
  BY ParkIs
<1>2. Saving(w) /\ SaveReturns(w) /\ deferredIds' = ids[w]
  BY DEF SaveDeferredIds, SaveRemoval, ReportRemoved, Saving
<1>3. Ready /\ lifecycle \notin {"down", "joining"}
  BY <1>2, BusyIsReady DEF Saving
<1>4. /\ UNCHANGED <<seqOf, deferred, lifecycle, orphaned>>
      /\ pc'[w] \in {"idle", "pass", "batch", "loop"}
      /\ \A v \in Worker \ {w} : pc'[v] = pc[v]
  BY <1>1 DEF SaveDeferredIds, SaveRemoval, ReportRemoved, AfterSave, Return, Await
<1>5. Goes
  BY <1>1, <1>3, <1>4, Workers DEF Goes, Logged, Ready
<1> QED
  BY <1>2, <1>3, <1>4, <1>5, ParkLanded DEF Saving

\* The awaits of a pass and of the cutover at which neither the queue nor its saves
\* are touched.
LEMMA ParkPass ==
  ASSUME LedgerInv, Parking, TypeOK', NEW w \in Worker, failures' = 0,
         \/ AcceptDeferredAppend(w) \/ EnterRetrying(w) \/ ChargeBatch(w) \/ IngestBatch(w)
         \/ NextRetried(w) \/ EndOfPass(w)
  PROVE Parking'
<1>1. pc \in [Worker -> PC] /\ TypeOK
  BY ParkIs
<1>2. pc[w] \in {"acceptDeferred", "batch", "charge", "ingest", "pass", "loop"}
  BY DEF AcceptDeferredAppend, EnterRetrying, ChargeBatch, IngestBatch, NextRetried, EndOfPass
<1>3. Ready /\ lifecycle \notin {"down", "joining"}
  BY <1>2, BusyIsReady
<1> DEFINE Bundle ==
     /\ UNCHANGED <<seqOf, deferred, deferredIds, ids, firstSave, orphaned>>
     /\ lifecycle' \notin {"down", "joining"}
     /\ pc'[w] \in {"unpark", "exhausted", "charge", "ingest", "drain", "pass", "append", "prune", "idle"}
     /\ \A v \in Worker \ {w} : pc'[v] = pc[v]
<1>4. AcceptDeferredAppend(w) => Bundle
  BY <1>1, <1>3 DEF AcceptDeferredAppend, Await
<1>5. EnterRetrying(w) => Bundle
  BY <1>1, <1>3, TransitionGoes DEF EnterRetrying, Await, Lifecycle
<1>6. ChargeBatch(w) => Bundle
  BY <1>1, <1>3 DEF ChargeBatch, Await
<1>7. IngestBatch(w) => Bundle
  BY <1>1, <1>2, <1>3 DEF IngestBatch, Await
<1>8. NextRetried(w) => Bundle
  BY <1>1, <1>2, <1>3 DEF NextRetried, HandleEpochAdvanced, EnterPass, Await
<1>9. EndOfPass(w) => Bundle
  BY <1>1, <1>3, TransitionGoes DEF EndOfPass, LeavePass, Await, Lifecycle
<1>10. Bundle
  BY <1>4, <1>5, <1>6, <1>7, <1>8, <1>9
<1>11. Goes
  BY <1>3, <1>10, Workers DEF Goes, Logged, Ready
<1>12. Steady(w)
  BY <1>2, <1>10 DEF Steady, Saving
<1> QED
  BY <1>3, <1>11, <1>12, SteadyKept

\* The cutover of a ready engine, and what the environment does to it.
LEMMA ParkCutover ==
  ASSUME LedgerInv, Parking, TypeOK', failures' = 0,
         \/ DrainNext \/ CatchUp \/ EnterBufferingLive \/ DrainBuffered \/ EnterLive
         \/ ConsumeLatch \/ (EnterCatchingUp /\ pc["cutover"] = "drain")
  PROVE Parking'
<1>1. pc \in [Worker -> PC] /\ TypeOK /\ "cutover" \in Worker
  BY ParkIs
<1>2. pc["cutover"] \in {"drain", "catchUp", "buffer", "latch"}
  BY DEF DrainNext, CatchUp, EnterBufferingLive, DrainBuffered, EnterLive, ConsumeLatch
<1>3. Ready /\ lifecycle \notin {"down", "joining"}
  BY <1>1, <1>2, BusyIsReady
<1> DEFINE Bundle ==
     /\ UNCHANGED <<seqOf, deferred, deferredIds, ids, firstSave, orphaned>>
     /\ lifecycle' \notin {"down", "joining"}
     /\ pc'["cutover"] \in {"drain", "catchUp", "ingest", "buffer", "latch", "prune", "idle"}
     /\ \A v \in Worker \ {"cutover"} : pc'[v] = pc[v]
<1>4. DrainNext \/ DrainBuffered => Bundle
  BY <1>1, <1>2, <1>3 DEF DrainNext, DrainBuffered
<1>5. CatchUp => Bundle
  BY <1>1, <1>3 DEF CatchUp, Await
<1>6. ConsumeLatch => Bundle
  BY <1>1, <1>3 DEF ConsumeLatch, EnterPass, Await
<1>7. EnterBufferingLive \/ EnterLive => Bundle
  BY <1>1, <1>3, TransitionGoes DEF EnterBufferingLive, EnterLive, Await, Lifecycle
<1>8. EnterCatchingUp /\ pc["cutover"] = "drain" => Bundle
  BY <1>1, <1>3, TransitionGoes DEF EnterCatchingUp, Await, Lifecycle
<1>9. Bundle
  BY <1>4, <1>5, <1>6, <1>7, <1>8
<1>10. Goes
  BY <1>3, <1>9 DEF Goes, Logged, Ready
<1>11. Steady("cutover")
  BY <1>2, <1>9 DEF Steady, Saving
<1> QED
  BY <1>1, <1>3, <1>10, <1>11, SteadyKept

LEMMA ParkEnvironment ==
  ASSUME LedgerInv, Parking, TypeOK', failures' = 0, Ready,
         \/ SaveCheckpoint \/ LateBootstrap \/ (\E f \in Fact : DeliverLive(f))
         \/ (\E s \in Local : AcceptLocal(s))
  PROVE Parking'
<1>1. TypeOK /\ lifecycle \notin {"down", "joining"}
  BY ParkIs, ReadyRuns
<1> DEFINE Bundle ==
     /\ UNCHANGED <<seqOf, deferred, deferredIds, ids, firstSave, pc, orphaned>>
     /\ lifecycle' \notin {"down", "joining"}
<1>2. SaveCheckpoint => Bundle
  BY <1>1 DEF SaveCheckpoint, Snapshot
<1>3. LateBootstrap => Bundle
  <2>1. LateBootstrap => TransitionTo(lifecycle) /\ lifecycle \in Lifecycle \ {"down", "joining"}
    BY DEF LateBootstrap, Lifecycle
  <2> QED
    BY <1>1, <2>1, TransitionGoes DEF LateBootstrap
<1>4. (\E f \in Fact : DeliverLive(f)) \/ (\E s \in Local : AcceptLocal(s)) => Bundle
  BY <1>1 DEF DeliverLive, AcceptLocal
<1>5. Bundle
  BY <1>2, <1>3, <1>4
<1>6. Goes /\ \A w \in Worker : Saving(w)' <=> Saving(w)
  BY <1>5 DEF Goes, Logged, Ready, Saving
<1> QED
  BY <1>5, <1>6, ParkKept

\* The FIFO and the write of a fresh event: they leave the queue alone in any phase.
LEMMA ParkFifo ==
  ASSUME LedgerInv, Parking, TypeOK', failures' = 0, Ready,
         StartJob \/ (\E w \in Worker : AcceptEvent(w))
  PROVE Parking'
<1>1. /\ pc \in [Worker -> PC] /\ lifecycle \notin {"down", "joining"} /\ "chain" \in Worker
      /\ "cutover" \in Worker
  BY ParkIs, ReadyRuns
<1>2. /\ UNCHANGED <<seqOf, deferred, deferredIds, ids, firstSave, lifecycle, orphaned>>
      /\ \E w \in Worker : /\ pc[w] \in {"idle", "accept"}
                           /\ pc'[w] \in {"idle", "pass", "append", "accept", "prune"}
                           /\ \A v \in Worker \ {w} : pc'[v] = pc[v]
  <2>1. CASE StartJob
    BY <1>1, <2>1 DEF StartJob, HandleEpochAdvanced, EnterPass, Await
  <2>2. CASE \E w \in Worker : AcceptEvent(w)
    BY <1>1, <2>2 DEF AcceptEvent, Return, Await
  <2> QED
    BY <2>1, <2>2
<1>3. Goes
  BY <1>1, <1>2 DEF Goes, Logged, Ready
<1>4. \E w \in Worker : Steady(w)
  BY <1>2 DEF Steady, Saving
<1> QED
  BY <1>3, <1>4, SteadyKept

----------------------------------------------------------------------------
(* From the start of a session to its R2, and its end. *)

\* The sequence without its head.
LEMMA RestOf ==
  ASSUME NEW S, NEW s \in Seq(S), s # <<>>
  PROVE /\ Len(s) \in Nat \ {0} /\ DOMAIN s = 1..Len(s) /\ Head(s) = s[1]
        /\ Len(Tail(s)) = Len(s) - 1 /\ DOMAIN Tail(s) = 1..Len(Tail(s))
        /\ \A i \in 1..Len(Tail(s)) : Tail(s)[i] = s[i + 1]
BY HeadTailProperties, LenProperties, EmptySeq

\* Local edits are written while the queue is not there yet.
LEMMA ParkWaiting ==
  ASSUME LedgerInv, Parking, TypeOK', failures' = 0, ~Ready,
         \/ StartJob \/ (\E w \in Worker : AcceptEvent(w)) \/ (\E s \in Local : AcceptLocal(s))
  PROVE Parking'
<1>1. /\ pc \in [Worker -> PC] /\ job \in [Worker -> Job] /\ serialQueue \in Seq(Signal)
      /\ "chain" \in Worker /\ "cutover" \in Worker /\ WaitsForQueue
  BY ParkIs
<1>2. /\ UNCHANGED <<seqOf, deferred, deferredIds, ids, firstSave, lifecycle, orphaned,
                     liveBuffer>>
      /\ pc'["cutover"] = pc["cutover"]
      /\ pc'["chain"] \in {"idle", "accept"} /\ ~job'["chain"].retry
      /\ \A i \in DOMAIN serialQueue' : serialQueue'[i].kind = "local"
  <2>1. CASE StartJob
    <3> DEFINE rest == Tail(serialQueue)
    <3>0. serialQueue # <<>> /\ serialQueue' = rest
      BY <2>1 DEF StartJob
    <3>1. /\ Len(serialQueue) \in Nat \ {0}
          /\ DOMAIN serialQueue = 1..Len(serialQueue) /\ Head(serialQueue) = serialQueue[1]
          /\ Len(rest) = Len(serialQueue) - 1
          /\ \A i \in 1..Len(rest) : rest[i] = serialQueue[i + 1]
          /\ DOMAIN rest = 1..Len(rest)
      BY <1>1, <3>0, RestOf
    <3> HIDE DEF rest
    <3>3. \A i \in 1..Len(rest) : i + 1 \in DOMAIN serialQueue
      BY <3>1
    <3>4. \A i \in DOMAIN rest : rest[i].kind = "local"
      <4>1. \A i \in DOMAIN serialQueue : serialQueue[i].kind = "local"
        BY <1>1 DEF WaitsForQueue
      <4> QED
        BY ONLY <3>1, <3>3, <4>1
    <3>5. 1 \in DOMAIN serialQueue
      BY <3>1
    <3>6. Head(serialQueue).kind = "local"
      BY <1>1, <3>1, <3>5 DEF WaitsForQueue
    <3>7. /\ pc'["cutover"] = pc["cutover"] /\ ~job'["chain"].retry
          /\ pc'["chain"] \in {"idle", "accept"}
      BY <1>1, <2>1, <3>6 DEF StartJob, Await, WaitsForQueue
    <3> QED
      BY <2>1, <3>0, <3>4, <3>7 DEF StartJob
  <2>2. CASE \E w \in Worker : AcceptEvent(w)
    <3>1. AcceptEvent("chain")
      BY <1>1, <2>2 DEF AcceptEvent, WaitsForQueue, Worker
    <3> QED
      BY <1>1, <3>1 DEF AcceptEvent, Return, Await, WaitsForQueue, IdleJob
  <2>3. CASE \E s \in Local : AcceptLocal(s)
    <3>1. PICK s \in Local : AcceptLocal(s)
      BY <2>3
    <3> DEFINE edit == [kind |-> "local", fact |-> s]
               longer == Append(serialQueue, edit)
    <3>2. edit \in Signal /\ edit.kind = "local"
      BY DEF Signal
    <3> HIDE DEF edit
    <3>3. /\ Len(serialQueue) \in Nat /\ DOMAIN serialQueue = 1..Len(serialQueue)
          /\ Len(longer) = Len(serialQueue) + 1 /\ DOMAIN longer = 1..Len(longer)
          /\ \A i \in 1..Len(serialQueue) : longer[i] = serialQueue[i]
          /\ longer[Len(serialQueue) + 1] = edit
      BY <1>1, <3>2, AppendProperties, LenProperties
    <3>4. serialQueue' = longer
      BY <3>1 DEF AcceptLocal, edit
    <3> HIDE DEF longer
    <3>5. \A i \in DOMAIN longer : longer[i].kind = "local"
      BY <1>1, <3>2, <3>3 DEF WaitsForQueue
    <3> QED
      BY <1>1, <3>1, <3>4, <3>5 DEF AcceptLocal, WaitsForQueue
  <2> QED
    BY <2>1, <2>2, <2>3
<1>3. ~Ready' /\ Logged' = Logged
  BY <1>2 DEF Ready, Logged
<1>4. ParkedIsLogged' /\ PhaseIs' /\ JoinsOverOrphans' /\ SavesTheQueue'
  BY <1>2, <1>3, ParkIs DEF ParkedIsLogged, PhaseIs, JoinsOverOrphans, SavesTheQueue
<1>5. WaitsForQueue'
  BY <1>1, <1>2 DEF WaitsForQueue
<1> QED
  BY <1>4, <1>5 DEF Parking

\* A session that joins orphans what is logged.
LEMMA ParkStart == ASSUME LedgerInv, Parking, TypeOK', failures' = 0, Start PROVE Parking'
<1>1. /\ pc \in [Worker -> PC] /\ "chain" \in Worker /\ "cutover" \in Worker /\ TypeOK
      /\ lifecycle = "down" /\ ~Ready /\ WaitsForQueue
  BY ParkIs DEF Start, Ready
<1>2. /\ UNCHANGED <<seqOf, deferredIds, deferred, serialQueue, liveBuffer, job, ids>>
      /\ Logged' = Logged
  BY DEF Start, Logged
<1>3. \/ lifecycle' = "recovering" /\ pc'["cutover"] = "rebuild"
      \/ /\ lifecycle' = "joining" /\ pc'["cutover"] = "bootstrap"
         /\ orphaned' = orphaned \union Logged
  BY <1>1 DEF Start, TransitionTo, Await, Logged
<1>4. pc'["chain"] = pc["chain"] /\ ~Ready'
  BY <1>1, <1>3 DEF Start, Await, Ready
<1>5. JoinsOverOrphans'
  BY <1>2, <1>3 DEF JoinsOverOrphans
<1>6. PhaseIs' /\ SavesTheQueue'
  BY <1>3, <1>4 DEF PhaseIs, SavesTheQueue
<1>7. ParkedIsLogged'
  BY <1>2, ParkIs DEF ParkedIsLogged
<1>8. WaitsForQueue'
  BY <1>1, <1>2, <1>3, <1>4 DEF WaitsForQueue
<1> QED
  BY <1>5, <1>6, <1>7, <1>8 DEF Parking

\* R2 makes the queue what the durable list is.
LEMMA ParkRebuild == ASSUME LedgerInv, Parking, TypeOK', failures' = 0, Rebuild PROVE Parking'
<1>1. /\ pc \in [Worker -> PC] /\ "chain" \in Worker /\ "cutover" \in Worker /\ TypeOK
      /\ WaitsForQueue /\ ~Ready /\ lifecycle = "recovering"
  BY ParkIs DEF Rebuild, Ready, PhaseIs
<1>2. /\ deferredIds' = deferredIds \ AcceptedFacts /\ deferred' = deferredIds'
      /\ Logged' = Logged
  BY <1>1, GiveUpCounts, ParkIs DEF Rebuild, ParkedIsLogged, Logged
<1>3. /\ UNCHANGED <<lifecycle, orphaned, ids, firstSave>>
      /\ pc'["cutover"] = "ingest" /\ pc'["chain"] = pc["chain"]
  BY <1>1 DEF Rebuild, Await
<1>4. \A w \in Worker : ~Saving(w)'
  BY <1>1, <1>3 DEF WaitsForQueue, Saving, Worker
<1>5. SavesTheQueue'
  BY <1>2, <1>4 DEF SavesTheQueue, LastSave
<1>6. ParkedIsLogged'
  BY <1>2, <1>3, ParkIs DEF ParkedIsLogged
<1>7. PhaseIs' /\ JoinsOverOrphans'
  BY <1>1, <1>3 DEF PhaseIs, JoinsOverOrphans
<1>8. WaitsForQueue'
  BY <1>1, <1>3 DEF WaitsForQueue, Ready
<1> QED
  BY <1>5, <1>6, <1>7, <1>8 DEF Parking

\* The bootstrap is over, or T_join has expired; what the list has, was joined over.
LEMMA ParkBootstrapped ==
  ASSUME LedgerInv, Parking, TypeOK', failures' = 0, EnterCatchingUp, pc["cutover"] # "drain"
  PROVE Parking'
<1>1. /\ pc \in [Worker -> PC] /\ "chain" \in Worker /\ "cutover" \in Worker /\ TypeOK
      /\ WaitsForQueue /\ ~Ready /\ pc["cutover"] = "bootstrap" /\ lifecycle = "joining"
      /\ Logged \subseteq orphaned
  BY ParkIs DEF EnterCatchingUp, Ready, PhaseIs, JoinsOverOrphans
<1>2. /\ UNCHANGED <<seqOf, deferred, deferredIds, ids, firstSave, orphaned>>
      /\ Logged' = Logged
  BY DEF EnterCatchingUp, Logged
<1>3. /\ lifecycle' = "catching_up"
      /\ pc'["cutover"] = "catchUp" /\ pc'["chain"] = pc["chain"]
  BY <1>1 DEF EnterCatchingUp, TransitionTo, Await
<1>4. \A w \in Worker : ~Saving(w)'
  BY <1>1, <1>3 DEF WaitsForQueue, Saving, Worker
<1>5. SavesTheQueue'
  BY <1>1, <1>2, <1>4, ParkIs DEF SavesTheQueue, LastSave, ParkedIsLogged, WaitsForQueue
<1>6. ParkedIsLogged'
  BY <1>2, ParkIs DEF ParkedIsLogged
<1>7. PhaseIs' /\ JoinsOverOrphans' /\ WaitsForQueue'
  BY <1>1, <1>2, <1>3 DEF PhaseIs, JoinsOverOrphans, WaitsForQueue, Ready
<1> QED
  BY <1>5, <1>6, <1>7 DEF Parking

\* A crash or stop leaves the list on disk.
LEMMA ParkLost ==
  ASSUME LedgerInv, Parking, TypeOK', failures' = 0, Crash \/ Stop
  PROVE Parking'
<1>1. "chain" \in Worker /\ "cutover" \in Worker /\ LoseMemory
  BY Workers DEF Crash, Stop
<1>2. /\ UNCHANGED <<seqOf, deferredIds>> /\ deferred' = {} /\ liveBuffer' = <<>>
      /\ serialQueue' = <<>> /\ lifecycle' = "down" /\ Logged' = Logged
      /\ \A w \in Worker : pc'[w] = "idle" /\ ids'[w] = {} /\ ~job'[w].retry
  BY <1>1 DEF LoseMemory, Logged, IdleJob
<1>3. ParkedIsLogged'
  BY <1>2, ParkIs DEF ParkedIsLogged
<1>4. PhaseIs' /\ SavesTheQueue' /\ JoinsOverOrphans'
  BY <1>1, <1>2 DEF PhaseIs, SavesTheQueue, JoinsOverOrphans, Ready
<1>5. WaitsForQueue'
  BY <1>1, <1>2 DEF WaitsForQueue
<1> QED
  BY <1>3, <1>4, <1>5 DEF Parking

\* No write that fails is forgotten.
LEMMA FailuresGrow == ASSUME TypeOK, [Next]_vars, failures' = 0 PROVE failures = 0
<1>1. CASE Failure
  BY <1>1, GiveUpCounts DEF Failure, GiveUpSignal, GiveUpSave, GiveUpRemoval, RetrySave,
     LoadThrows, IngestThrows
<1>2. CASE \/ Start \/ Rebuild \/ EnterCatchingUp \/ EnterBufferingLive \/ EnterLive
           \/ Rejoin \/ LateBootstrap
  BY <1>2, GiveUpCounts DEF Start, Rebuild, EnterCatchingUp, EnterBufferingLive, EnterLive,
     Rejoin, LateBootstrap, TransitionTo
<1>3. CASE DrainNext \/ CatchUp \/ DrainBuffered \/ ConsumeLatch \/ StartJob \/ Reopen
  BY <1>3 DEF DrainNext, CatchUp, DrainBuffered, ConsumeLatch, StartJob, Reopen
<1>4. CASE \/ SaveCheckpoint \/ Crash \/ Stop \/ (\E s \in Local : AcceptLocal(s))
           \/ (\E f \in Fact : DeliverLive(f) \/ DeliverLiveThrows(f))
  BY <1>4, GiveUpCounts DEF SaveCheckpoint, Crash, Stop, LoseMemory, DeliverLive, AcceptLocal,
     DeliverLiveThrows
<1>5. ASSUME NEW w \in Worker, Resume(w) PROVE failures = 0
  <2>1. CASE EnterRetrying(w) \/ EndOfPass(w)
    BY <2>1, GiveUpCounts DEF EnterRetrying, EndOfPass, TransitionTo
  <2>2. CASE ~(EnterRetrying(w) \/ EndOfPass(w))
    BY <1>5, <2>2 DEF Resume, HandleMessage, AcceptEvent, AcceptDeferredAppend,
       AcceptDeferredRemove, HandleDeferred, HandleSkipped, HandleMalformed, SaveDeferredIds,
       PruneExpired, ChargeBatch, IngestBatch, NextRetried, RemoveExhausted, SaveRemoval
  <2> QED
    BY <2>1, <2>2
<1>6. CASE UNCHANGED vars
  BY <1>6 DEF vars
<1> QED
  BY <1>1, <1>2, <1>3, <1>4, <1>5, <1>6 DEF Next, Cutover, Environment

LEMMA ParkInit == Init => ParkInv
<1> SUFFICES ASSUME Init PROVE Parking
  BY LedgerInvInit DEF ParkInv
<1>1. Logged = {} /\ ~Ready /\ "chain" \in Worker /\ "cutover" \in Worker
  BY Workers DEF Init, Logged, Ready
<1>2. ParkedIsLogged /\ PhaseIs /\ JoinsOverOrphans /\ SavesTheQueue
  BY <1>1 DEF Init, ParkedIsLogged, PhaseIs, JoinsOverOrphans, SavesTheQueue
<1>3. WaitsForQueue
  BY <1>1 DEF Init, WaitsForQueue, IdleJob
<1> QED
  BY <1>2, <1>3 DEF Parking

LEMMA ParkStep == ParkInv /\ [Next]_vars => ParkInv'
<1> SUFFICES ASSUME ParkInv, [Next]_vars, failures' = 0 PROVE Parking'
  BY LedgerInvStep DEF ParkInv
<1>1. LedgerInv /\ Parking /\ TypeOK' /\ TypeOK
  BY FailuresGrow, LedgerInvStep DEF ParkInv, LedgerInv, DurableInv
<1>2. CASE UNCHANGED vars
  BY <1>1, <1>2 DEF vars, Parking, ParkedIsLogged, Logged, PhaseIs, JoinsOverOrphans,
     SavesTheQueue, WaitsForQueue, Ready, Saving, LastSave
<1>3. CASE Failure
  BY <1>1, <1>3, GiveUpCounts DEF Failure, GiveUpSignal, GiveUpSave, GiveUpRemoval, RetrySave,
     LoadThrows, IngestThrows
<1>4. CASE StartJob
  BY <1>1, <1>4, ParkFifo, ParkWaiting
<1>5. CASE Cutover
  <2>1. ~Rejoin /\ ~Reopen
    BY <1>1, NoneRejoins
  <2> QED
    BY <1>1, <1>5, <2>1, ParkStart, ParkRebuild, ParkCutover, ParkBootstrapped DEF Cutover
<1>6. CASE Environment
  <2>1. CASE Crash \/ Stop
    BY <1>1, <2>1, ParkLost
  <2>2. CASE Ready /\ ~(Crash \/ Stop)
    BY <1>1, <1>6, <2>2, ParkEnvironment, GiveUpCounts DEF Environment, DeliverLiveThrows
  <2>3. CASE ~Ready /\ ~(Crash \/ Stop)
    <3>1. ~(lifecycle \in {"catching_up", "buffering_live", "live", "retrying_deferred"})
      BY <1>1, <2>3, ParkIs DEF WaitsForQueue, PhaseIs, Ready
    <3>2. \E s \in Local : AcceptLocal(s)
      BY <1>1, <1>6, <2>3, <3>1 DEF Environment, SaveCheckpoint, LateBootstrap, DeliverLive,
         DeliverLiveThrows
    <3> QED
      BY <1>1, <2>3, <3>2, ParkWaiting
  <2> QED
    BY <2>1, <2>2, <2>3
<1>7. ASSUME NEW w \in Worker, Resume(w) PROVE Parking'
  <2>1. CASE AcceptEvent(w)
    BY <1>1, <2>1, ParkFifo, ParkWaiting
  <2>2. CASE ~AcceptEvent(w)
    BY <1>1, <1>7, <2>2, ParkHandler, ParkUnpark, ParkSave, ParkPass DEF Resume
  <2> QED
    BY <2>1, <2>2
<1> QED
  BY <1>2, <1>3, <1>4, <1>5, <1>6, <1>7 DEF Next

\* R-INV-3 (receive-engine.ts:829-876, 1336-1378): at rest, and up to the first write
\* that fails, every parked fact is in the durable list, and the list has beyond the
\* queue only facts over which a session joined. Where none ever joins over a log that is
\* not empty, the two are the same.
THEOREM ParkedStoreIsQueue == Spec => []ParkedStoreAgrees
<1>1. Init => ParkInv
  BY ParkInit
<1>2. ParkInv /\ [Next]_vars => ParkInv'
  BY ParkStep
<1>3. ParkInv => ParkedStoreAgrees
  <2> SUFFICES ASSUME ParkInv, failures = 0, Quiet
               PROVE deferred \subseteq deferredIds /\ deferredIds \subseteq deferred \union orphaned
    BY DEF ParkedStoreAgrees
  <2>1. Parking /\ "cutover" \in Worker
    BY Workers DEF ParkInv
  <2>2. Ready /\ \A w \in Worker : ~Saving(w)
    BY <2>1 DEF Quiet, Drained, Ready, Saving, Worker
  <2> QED
    BY <2>1, <2>2 DEF Parking, SavesTheQueue
<1> QED
  BY <1>1, <1>2, <1>3, PTL DEF Spec

----------------------------------------------------------------------------
(* The saved watermark and what lies below it. *)

\* The signals of a sequence, and those of the passes in fs.
Entries(s) == {s[i] : i \in DOMAIN s}

Suspended(fs) == UNION {Entries(fs[i].stream) : i \in DOMAIN fs}

\* A task fact of which anything but "deferred" was yielded has been decrypted.
Decrypted(s) == s.kind \notin {"local", "deferred"} /\ s.fact \in Task => s.fact \in consumed

SignalsDecrypted ==
  /\ \A s \in Entries(serialQueue) \union Entries(liveBuffer) : Decrypted(s)
  /\ \A w \in Worker :
       /\ Decrypted(job[w])
       /\ \A s \in Entries(stream[w]) \union Suspended(frames[w]) : Decrypted(s)

\* What is retried, or replayed by R3, was logged before.
ReplaysTheLog ==
  /\ \A w \in Worker :
       /\ job[w].retry => job[w].fact \in Logged
       /\ \A s \in Suspended(frames[w]) : s.fact \in Logged
       /\ \/ w = "cutover" /\ lifecycle = "catching_up"
          \/ batch[w] \subseteq Logged /\ \A s \in Entries(stream[w]) : s.fact \in Logged
  /\ lifecycle = "recovering" =>
       /\ \A s \in Entries(serialQueue) : s.kind = "local" \/ s.fact \in Logged
       /\ pc["chain"] = "append" => job["chain"].fact \in Logged

\* Where the cutover may be in each phase; a pass runs only after it.
StageIs ==
  /\ lifecycle = "recovering" => pc["cutover"] \in {"rebuild", "ingest", "drain"}
  /\ lifecycle = "catching_up" => pc["cutover"] \in {"catchUp", "ingest", "drain"}
  /\ lifecycle = "buffering_live" => pc["cutover"] = "buffer"
  /\ lifecycle \in {"live", "retrying_deferred"} =>
       pc["cutover"] \notin
         {"rebuild", "bootstrap", "catchUp", "drain", "buffer", "rejoin", "reopen"}
  /\ lifecycle \notin {"live", "retrying_deferred"} =>
       pc["chain"] \in Handler \union {"idle"} /\ ~job["chain"].retry
  /\ pc["cutover"] = "drain" => batch["cutover"] = {}
  /\ pc["cutover"] \in Handler => job["cutover"].retry

\* The accepted log names the envelope of each event, a new seq is the highest, and
\* the saved watermark is not ahead of the one in memory.
LogsAgree ==
  /\ \A f \in AcceptedFacts : EventOf[f] \in AcceptedEvents
  /\ \A f \in Fact : seqOf[f] < NextSeq
  /\ lifecycle # "down" => /\ checkpoint # NoCheckpoint
                           /\ checkpoint.lastIngestedSeq <= lastIngestedSeq

\* Nothing takes these back.
Resolved(f) ==
  \/ EventOf[f] \in AcceptedEvents \/ Reported(f)
  \/ f \in evicted \/ f \in interrupted \/ f \in orphaned \/ f \in consumed

\* Its removal from the queue is being saved; the report follows.
Leaving(f) == \E w \in Worker : pc[w] \in {"pruneSave", "exhaustedSave"} /\ f \in batch[w]

\* No fact has been logged since f.
Newest(f) == \A g \in Fact \ {f} : seqOf[g] < seqOf[f]

\* The FIFO saves the queue with f newly parked in it.
Parks(f) ==
  pc["chain"] = "save" /\ job["chain"].kind = "deferred" /\ ~job["chain"].retry
  /\ job["chain"].fact = f

\* R3 has still to hand f to its handler.
Unreplayed(f) ==
  \/ f \in batch["cutover"]
  \/ [kind |-> "deferred", fact |-> f] \in Entries(stream["cutover"]) \union Entries(serialQueue)
  \/ pc["chain"] = "append" /\ job["chain"].kind = "deferred" /\ job["chain"].fact = f

\* The list of a save in flight misses nothing that is parked, but for what the FIFO
\* parks after the cutover has issued its own.
SavesCover ==
  /\ Saving("chain") => deferred \subseteq ids["chain"]
  /\ Saving("cutover") => \A f \in deferred \ ids["cutover"] : Parks(f)

ParksTheNewest ==
  \A f \in Task : Parks(f) => Resolved(f) \/ Leaving(f) \/ (f \in deferred /\ Newest(f))

\* What has become of a logged task fact while the engine is ready, and before that.
Tracked(f) ==
  \/ Resolved(f) \/ Leaving(f)
  \/ /\ f \in deferred
     /\ f \in deferredIds \/ seqOf[f] <= lastIngestedSeq \/ Parks(f)
  \/ /\ lifecycle = "recovering" /\ Unreplayed(f)
     /\ Newest(f) /\ lastIngestedSeq < seqOf[f]

Awaited(f) ==
  \/ Resolved(f) \/ f \in deferredIds
  \/ /\ Newest(f) /\ ~Covered(f)
     /\ lifecycle # "down" => lastIngestedSeq < seqOf[f]

TracksTheLog ==
  \A f \in Task \intersect Logged : (Ready => Tracked(f)) /\ (~Ready => Awaited(f))

Covering ==
  /\ SignalsDecrypted /\ ReplaysTheLog /\ StageIs /\ LogsAgree
  /\ SavesCover /\ ParksTheNewest /\ TracksTheLog

CoverInv == LossInv /\ ParkInv /\ (failures = 0 => Covering)

\* The entries of a longer and of a shorter sequence.
LEMMA EntriesAppended ==
  ASSUME NEW S, NEW s \in Seq(S), NEW x \in S
  PROVE Entries(Append(s, x)) = Entries(s) \union {x}
<1>1. /\ Len(s) \in Nat /\ DOMAIN s = 1..Len(s)
      /\ DOMAIN Append(s, x) = 1..(Len(s) + 1)
      /\ \A i \in 1..Len(s) : Append(s, x)[i] = s[i]
      /\ Append(s, x)[Len(s) + 1] = x
  BY AppendProperties, LenProperties
<1> DEFINE longer == Append(s, x)
<1> HIDE DEF longer
<1>2. ASSUME NEW i \in 1..(Len(s) + 1) PROVE longer[i] \in Entries(s) \union {x}
  <2>1. i \in 1..Len(s) \/ i = Len(s) + 1
    BY <1>1
  <2> QED
    BY <1>1, <2>1 DEF Entries, longer
<1>3. \A i \in 1..Len(s) : s[i] \in Entries(longer)
  <2> SUFFICES ASSUME NEW i \in 1..Len(s) PROVE s[i] \in Entries(longer)
    OBVIOUS
  <2>1. i \in DOMAIN longer /\ longer[i] = s[i]
    BY <1>1 DEF longer
  <2> QED
    BY <2>1 DEF Entries
<1>4. x \in Entries(longer)
  <2>1. Len(s) + 1 \in DOMAIN longer /\ longer[Len(s) + 1] = x
    BY <1>1 DEF longer
  <2> QED
    BY <2>1 DEF Entries
<1>5. Entries(longer) \subseteq Entries(s) \union {x}
  BY <1>1, <1>2 DEF Entries, longer
<1>6. Entries(s) \union {x} \subseteq Entries(longer)
  BY <1>1, <1>3, <1>4 DEF Entries
<1> QED
  BY <1>5, <1>6 DEF longer

LEMMA EntriesRest ==
  ASSUME NEW S, NEW s \in Seq(S), s # <<>>
  PROVE Head(s) \in S /\ Tail(s) \in Seq(S) /\ Entries(s) = {Head(s)} \union Entries(Tail(s))
<1>1. /\ Len(s) \in Nat \ {0} /\ DOMAIN s = 1..Len(s) /\ Head(s) = s[1]
      /\ Len(Tail(s)) = Len(s) - 1 /\ DOMAIN Tail(s) = 1..Len(Tail(s))
      /\ \A i \in 1..Len(Tail(s)) : Tail(s)[i] = s[i + 1]
  BY RestOf
<1> DEFINE rest == Tail(s)
<1>2. Head(s) \in S /\ Tail(s) \in Seq(S)
  BY HeadTailProperties
<1> HIDE DEF rest
<1>3. ASSUME NEW i \in DOMAIN s PROVE s[i] \in {Head(s)} \union Entries(rest)
  <2>1. CASE i = 1
    BY <1>1, <2>1
  <2>2. CASE i # 1
    <3>1. i - 1 \in 1..Len(rest)
      BY <1>1, <2>2 DEF rest
    <3>2. rest[i - 1] = s[i]
      BY <1>1, <2>2, <3>1 DEF rest
    <3> QED
      BY <1>1, <3>1, <3>2 DEF Entries, rest
  <2> QED
    BY <2>1, <2>2
<1>4. ASSUME NEW i \in DOMAIN rest PROVE rest[i] \in Entries(s)
  <2>1. i + 1 \in DOMAIN s /\ rest[i] = s[i + 1]
    BY <1>1 DEF rest
  <2> QED
    BY <2>1 DEF Entries
<1>5. Head(s) \in Entries(s)
  <2>1. 1 \in DOMAIN s
    BY <1>1
  <2> QED
    BY <1>1, <2>1 DEF Entries
<1>6. Entries(s) = {Head(s)} \union Entries(rest)
  BY <1>3, <1>4, <1>5 DEF Entries
<1> QED
  BY <1>2, <1>6 DEF rest

\* The entries of none and of one.
LEMMA EntriesFew == ASSUME NEW x PROVE Entries(<<>>) = {} /\ Entries(<<x>>) = {x}
BY DEF Entries

\* Without a pass there is no signal of one.
LEMMA NothingSuspended == Suspended(<<>>) = {}
<1>1. DOMAIN <<>> = {}
  OBVIOUS
<1> QED
  BY <1>1 DEF Suspended

\* The signals of the passes when one more is suspended, or the last one resumed.
LEMMA SuspendedPushed ==
  ASSUME NEW S, NEW fs \in Seq(S), NEW fr \in S
  PROVE Suspended(<<fr>> \o fs) = Entries(fr.stream) \union Suspended(fs)
<1>1. /\ Len(fs) \in Nat /\ DOMAIN fs = 1..Len(fs)
      /\ <<fr>> \in Seq(S) /\ Len(<<fr>>) = 1 /\ <<fr>>[1] = fr
  BY LenProperties
<1> DEFINE longer == <<fr>> \o fs
<1>2. /\ DOMAIN longer = 1..(1 + Len(fs)) /\ longer[1] = fr
      /\ \A i \in 1..Len(fs) : longer[i + 1] = fs[i]
  BY <1>1, ConcatProperties, LenProperties
<1> HIDE DEF longer
<1>3. ASSUME NEW i \in DOMAIN longer
      PROVE Entries(longer[i].stream) \subseteq Entries(fr.stream) \union Suspended(fs)
  <2>1. CASE i = 1
    BY <1>2, <2>1
  <2>2. CASE i # 1
    <3>1. i - 1 \in 1..Len(fs)
      BY <1>1, <1>2, <2>2
    <3>2. longer[i] = fs[i - 1]
      BY <1>1, <1>2, <2>2, <3>1
    <3> QED
      BY <1>1, <3>1, <3>2 DEF Suspended
  <2> QED
    BY <2>1, <2>2
<1>4. ASSUME NEW i \in DOMAIN fs PROVE Entries(fs[i].stream) \subseteq Suspended(longer)
  <2>1. i + 1 \in DOMAIN longer /\ longer[i + 1] = fs[i]
    BY <1>1, <1>2
  <2> QED
    BY <2>1 DEF Suspended
<1>5. Entries(fr.stream) \subseteq Suspended(longer)
  <2>1. 1 \in DOMAIN longer
    BY <1>1, <1>2
  <2> QED
    BY <1>2, <2>1 DEF Suspended
<1>6. Suspended(longer) \subseteq Entries(fr.stream) \union Suspended(fs)
  BY <1>3 DEF Suspended
<1>7. Suspended(fs) \subseteq Suspended(longer)
  BY <1>4 DEF Suspended
<1> QED
  BY <1>5, <1>6, <1>7 DEF longer

LEMMA SuspendedPopped ==
  ASSUME NEW S, NEW fs \in Seq(S), fs # <<>>
  PROVE /\ Entries(Head(fs).stream) \subseteq Suspended(fs)
        /\ Suspended(Tail(fs)) \subseteq Suspended(fs)
<1>1. /\ Len(fs) \in Nat \ {0} /\ DOMAIN fs = 1..Len(fs) /\ Head(fs) = fs[1]
      /\ Len(Tail(fs)) = Len(fs) - 1 /\ DOMAIN Tail(fs) = 1..Len(Tail(fs))
      /\ \A i \in 1..Len(Tail(fs)) : Tail(fs)[i] = fs[i + 1]
  BY RestOf
<1> DEFINE rest == Tail(fs)
<1> HIDE DEF rest
<1>2. ASSUME NEW i \in DOMAIN rest PROVE Entries(rest[i].stream) \subseteq Suspended(fs)
  <2>1. i + 1 \in DOMAIN fs /\ rest[i] = fs[i + 1]
    BY <1>1 DEF rest
  <2> QED
    BY <2>1 DEF Suspended
<1>3. Suspended(rest) \subseteq Suspended(fs)
  BY <1>2 DEF Suspended
<1>4. 1 \in DOMAIN fs
  BY <1>1
<1> QED
  BY <1>1, <1>3, <1>4 DEF Suspended, rest

\* What the invariants and the types say of the variables concerned.
LEMMA CoverIs ==
  ASSUME LossInv, Parking, Covering
  PROVE /\ LedgerInv /\ TypeOK /\ DownIsIdle /\ processed \subseteq AcceptedEvents
        /\ \A w \in Worker : CarriesAccepted(w)
        /\ StreamsHeld /\ ParkedIsLogged /\ WaitsForQueue /\ PhaseIs /\ JoinsOverOrphans
        /\ SavesTheQueue /\ SignalsDecrypted /\ ReplaysTheLog /\ StageIs /\ LogsAgree
        /\ SavesCover /\ ParksTheNewest /\ TracksTheLog
BY DEF LossInv, LedgerInv, DurableInv, Parking, Covering

\* The types of the variables concerned.
LEMMA CoverTypes ==
  ASSUME TypeOK
  PROVE /\ pc \in [Worker -> PC] /\ job \in [Worker -> Job]
        /\ serialQueue \in Seq(Signal) /\ liveBuffer \in Seq(IngestSignal)
        /\ batch \in [Worker -> SUBSET Fact] /\ stream \in [Worker -> Seq(IngestSignal)]
        /\ frames \in [Worker -> Seq(Frame)] /\ ids \in [Worker -> SUBSET Fact]
        /\ seqOf \in [Fact -> Nat] /\ lastIngestedSeq \in Nat /\ deferred \in SUBSET Fact
        /\ "chain" \in Worker /\ "cutover" \in Worker
        /\ Worker = {"chain", "cutover"} /\ lifecycle \in Lifecycle /\ failures \in Nat
BY DEF TypeOK, StoresTyped, ControlTyped, PassTyped, MemoryTyped, OutputsTyped, Worker

\* appendFact gives a fact that is not logged the highest seq.
LEMMA AppendNewest ==
  ASSUME TypeOK, LogsAgree, NEW f \in Fact, AppendFact(f)
  PROVE /\ Logged' = Logged \union {f} /\ seqOf'[f] = SeqAfterAppend(f)
        /\ \A g \in Fact \ {f} : seqOf'[g] = seqOf[g]
        /\ f \in Logged => seqOf' = seqOf
        /\ f \notin Logged => Newest(f)'
        /\ \A g \in Fact : seqOf'[g] < NextSeq'
<1>1. /\ seqOf \in [Fact -> Nat] /\ SeqAfterAppend(f) \in Nat /\ NextSeq \in Nat
      /\ \A g \in Fact : seqOf[g] < NextSeq
  BY SeqType, NextSeqType DEF TypeOK, StoresTyped, LogsAgree
<1>2. /\ seqOf' = [seqOf EXCEPT ![f] = SeqAfterAppend(f)] /\ SeqAfterAppend(f) # 0
      /\ seqOf'[f] = SeqAfterAppend(f)
      /\ \A g \in Fact \ {f} : seqOf'[g] = seqOf[g]
  BY <1>1 DEF AppendFact, SeqAfterAppend
<1>3. Logged' = Logged \union {f}
  BY <1>1, <1>2 DEF Logged
<1>4. CASE f \in Logged
  <2>1. seqOf' = seqOf
    BY <1>1, <1>2, <1>4 DEF Logged, SeqAfterAppend
  <2>2. NextSeq' = NextSeq
    BY <2>1 DEF NextSeq
  <2> QED
    BY <1>1, <1>2, <1>3, <1>4, <2>1, <2>2
<1>5. CASE f \notin Logged
  <2>1. SeqAfterAppend(f) = NextSeq
    BY <1>5 DEF Logged, SeqAfterAppend
  <2>2. IsFiniteSet(Logged)
    BY SourceAssumption, FS_Subset DEF Logged
  <2>3. Cardinality(Logged') = Cardinality(Logged) + 1
    BY <1>3, <1>5, <2>2, FS_AddElement
  <2>4. NextSeq' = NextSeq + 1
    BY <2>3 DEF NextSeq, Logged
  <2>5. Newest(f)'
    BY <1>1, <1>2, <2>1 DEF Newest
  <2>6. \A g \in Fact : seqOf'[g] < NextSeq'
    BY <1>1, <1>2, <2>1, <2>4
  <2> QED
    BY <1>2, <1>3, <1>5, <2>5, <2>6
<1> QED
  BY <1>4, <1>5

\* advanceWatermark raises the watermark to the seq or leaves it.
LEMMA AdvanceRaises ==
  ASSUME TypeOK, NEW n \in Nat, AdvanceWatermark(n)
  PROVE /\ lastIngestedSeq <= lastIngestedSeq' /\ n <= lastIngestedSeq'
        /\ lastIngestedSeq' = lastIngestedSeq \/ lastIngestedSeq' = n
BY DEF AdvanceWatermark, TypeOK, MemoryTyped

\* appendAcceptedEvent of envelope or edit s.
LEMMA AppendNames ==
  ASSUME TypeOK, NEW s \in Source, AppendAcceptedEvent(s),
         \A f \in AcceptedFacts : EventOf[f] \in AcceptedEvents
  PROVE \A f \in AcceptedFacts' : EventOf[f] \in AcceptedEvents'
<1>1. AcceptedEvents \subseteq AcceptedEvents' /\ EventOf[s] \in AcceptedEvents'
  BY AppendAcceptedAdds
<1> DEFINE entry == [ev |-> EventOf[s], fact |-> s]
           Records == [ev : Event, fact : Source]
<1>2. AcceptedFacts' \subseteq AcceptedFacts \union {s}
  <2>1. CASE accepted' = accepted
    BY <2>1 DEF AcceptedFacts
  <2>2. CASE accepted' = Append(accepted, entry)
    <3>1. entry.fact = s /\ entry \in Records /\ accepted \in Seq(Records)
      BY SourceAssumption DEF TypeOK, StoresTyped
    <3> HIDE DEF entry, Records
    <3>2. Entries(accepted') = Entries(accepted) \union {entry}
      BY <2>2, <3>1, EntriesAppended
    <3>3. /\ AcceptedFacts = {e.fact : e \in Entries(accepted)}
          /\ AcceptedFacts' = {e.fact : e \in Entries(accepted')}
      BY DEF AcceptedFacts, Entries
    <3> QED
      BY <3>1, <3>2, <3>3
  <2> QED
    BY <2>1, <2>2 DEF AppendAcceptedEvent
<1> QED
  BY <1>1, <1>2

\* What a step must do to the logs and the watermark to keep them agreeing.
LEMMA LogsKept ==
  ASSUME LossInv, Parking, Covering, TypeOK',
         seqOf' = seqOf \/ (\E f \in Fact : AppendFact(f)),
         accepted' = accepted \/ (\E s \in Source : AppendAcceptedEvent(s)),
         \/ lifecycle' = "down"
         \/ checkpoint' = Snapshot'
         \/ /\ checkpoint' = checkpoint /\ lifecycle # "down"
            /\ lastIngestedSeq <= lastIngestedSeq'
  PROVE LogsAgree'
<1>1. TypeOK /\ LogsAgree
  BY CoverIs
<1>2. \A f \in AcceptedFacts' : EventOf[f] \in AcceptedEvents'
  <2>1. CASE accepted' = accepted
    BY <1>1, <2>1 DEF LogsAgree, AcceptedFacts, AcceptedEvents
  <2>2. ASSUME NEW s \in Source, AppendAcceptedEvent(s)
        PROVE \A f \in AcceptedFacts' : EventOf[f] \in AcceptedEvents'
    BY <1>1, <2>2, AppendNames DEF LogsAgree
  <2> QED
    BY <2>1, <2>2
<1>3. \A f \in Fact : seqOf'[f] < NextSeq'
  <2>1. CASE seqOf' = seqOf
    BY <1>1, <2>1 DEF LogsAgree, NextSeq
  <2> QED
    BY <1>1, <2>1, AppendNewest
<1>4. CASE checkpoint' = Snapshot' /\ lifecycle' # "down"
  <2>1. Snapshot' \in Checkpoint /\ Snapshot'.lastIngestedSeq = lastIngestedSeq'
    BY DEF Snapshot, Checkpoint, TypeOK, MemoryTyped
  <2>2. checkpoint' # NoCheckpoint /\ checkpoint'.lastIngestedSeq <= lastIngestedSeq'
    BY <1>4, <2>1, CheckpointAssumption DEF TypeOK, MemoryTyped
  <2> QED
    BY <1>2, <1>3, <2>2 DEF LogsAgree
<1>5. CASE checkpoint' = checkpoint /\ lifecycle # "down" /\ lastIngestedSeq <= lastIngestedSeq'
  <2>1. /\ checkpoint # NoCheckpoint /\ checkpoint.lastIngestedSeq <= lastIngestedSeq
        /\ checkpoint \in Checkpoint
    BY <1>1, <1>5 DEF LogsAgree, TypeOK, StoresTyped
  <2>2. checkpoint.lastIngestedSeq \in Nat /\ lastIngestedSeq \in Nat /\ lastIngestedSeq' \in Nat
    BY <1>1, <2>1 DEF Checkpoint, TypeOK, MemoryTyped
  <2>3. checkpoint.lastIngestedSeq <= lastIngestedSeq'
    BY <1>5, <2>1, <2>2
  <2> QED
    BY <1>2, <1>3, <1>5, <2>1, <2>3 DEF LogsAgree
<1> QED
  BY <1>2, <1>3, <1>4, <1>5 DEF LogsAgree

\* No step takes back what has become of an envelope.
LastingOutcomes ==
  /\ AcceptedEvents \subseteq AcceptedEvents' /\ rejected \subseteq rejected'
  /\ evicted \subseteq evicted' /\ interrupted \subseteq interrupted'
  /\ orphaned \subseteq orphaned' /\ consumed \subseteq consumed'

\* What has become of an envelope stays so.
LEMMA ResolvedStays == ASSUME LastingOutcomes, NEW f, Resolved(f) PROVE Resolved(f)'
BY DEF LastingOutcomes, Resolved, Reported

\* A step that leaves the queues and streams where they are.
LEMMA SignalsKept ==
  ASSUME LossInv, Parking, Covering, TypeOK',
         UNCHANGED <<serialQueue, liveBuffer, stream, frames>>,
         consumed \subseteq consumed', Logged \subseteq Logged',
         \A w \in Worker : job'[w] = job[w] \/ job'[w] = IdleJob,
         pc'["chain"] = "append" => pc["chain"] = "append" /\ job'["chain"] = job["chain"],
         \A w \in Worker : batch'[w] = batch[w] \/ batch'[w] \subseteq Logged'
                           \/ (w = "cutover" /\ lifecycle' = "catching_up"),
         lifecycle' = lifecycle \/ (lifecycle # "catching_up" /\ lifecycle' # "recovering")
  PROVE SignalsDecrypted' /\ ReplaysTheLog'
<1>1. SignalsDecrypted /\ ReplaysTheLog
  BY CoverIs
<1>2. SignalsDecrypted'
  <2>1. \A s : Decrypted(s) => Decrypted(s)'
    BY DEF Decrypted
  <2>2. Decrypted(IdleJob)'
    BY DEF Decrypted, IdleJob
  <2>3. /\ \A s \in Entries(serialQueue') \union Entries(liveBuffer') : Decrypted(s)'
        /\ \A w \in Worker :
             \A s \in Entries(stream'[w]) \union Suspended(frames'[w]) : Decrypted(s)'
    BY <1>1, <2>1 DEF SignalsDecrypted
  <2>4. ASSUME NEW w \in Worker PROVE Decrypted(job[w])'
    <3>1. Decrypted(job[w]) /\ (job'[w] = job[w] \/ job'[w] = IdleJob)
      BY <1>1 DEF SignalsDecrypted
    <3> QED
      BY <2>2, <3>1 DEF Decrypted
  <2> QED
    BY <2>3, <2>4 DEF SignalsDecrypted
<1>3. ~IdleJob.retry
  BY DEF IdleJob
<1>4. ReplaysTheLog'
  BY <1>1, <1>3 DEF ReplaysTheLog
<1> QED
  BY <1>2, <1>4

----------------------------------------------------------------------------
(* Each action keeps it as long as no write fails. *)

\* A step that touches neither the raw log nor the queue and its saves only has to
\* account for the fact that R3 is replaying.
LEMMA TracksSteady ==
  ASSUME LossInv, Parking, Covering, TypeOK', LastingOutcomes, Ready, Ready',
         UNCHANGED <<seqOf, deferred, deferredIds, ids>>,
         lastIngestedSeq <= lastIngestedSeq',
         \A w \in Worker :
           \/ ~Saving(w) /\ ~Saving(w)'
           \/ pc'[w] = pc[w] /\ job'[w] = job[w] /\ batch'[w] = batch[w],
         \A f \in Task : lifecycle = "recovering" /\ Unreplayed(f) =>
           \/ Resolved(f)'
           \/ /\ lifecycle' = "recovering" /\ Unreplayed(f)'
              /\ Newest(f) /\ lastIngestedSeq < seqOf[f] => lastIngestedSeq' < seqOf[f]
  PROVE SavesCover' /\ ParksTheNewest' /\ TracksTheLog'
<1>1. /\ "chain" \in Worker /\ "cutover" \in Worker
      /\ SavesCover /\ ParksTheNewest /\ TracksTheLog
      /\ seqOf \in [Fact -> Nat] /\ lastIngestedSeq \in Nat /\ lastIngestedSeq' \in Nat
  BY CoverIs, CoverTypes DEF TypeOK, MemoryTyped
<1>2. \A f : Parks(f)' <=> Parks(f)
  BY <1>1 DEF Parks, Saving
<1>3. \A w \in Worker : Saving(w)' <=> Saving(w)
  BY DEF Saving
<1>4. \A f : Leaving(f) => Leaving(f)'
  BY DEF Leaving, Saving
<1>5. \A f : Newest(f)' <=> Newest(f)
  BY DEF Newest
<1>6. SavesCover'
  BY <1>1, <1>2, <1>3 DEF SavesCover
<1>7. ParksTheNewest'
  BY <1>1, <1>2, <1>4, <1>5, ResolvedStays DEF ParksTheNewest
<1>8. ASSUME NEW f \in Task \intersect Logged' PROVE Tracked(f)'
  <2>1. f \in Task \intersect Logged /\ Tracked(f) /\ seqOf[f] \in Nat
    BY <1>1 DEF Logged, TracksTheLog, Task
  <2>2. CASE Resolved(f) \/ Leaving(f)
    BY <1>4, <2>2, ResolvedStays DEF Tracked
  <2>3. CASE f \in deferred /\ (f \in deferredIds \/ seqOf[f] <= lastIngestedSeq \/ Parks(f))
    <3>1. seqOf[f] <= lastIngestedSeq => seqOf'[f] <= lastIngestedSeq'
      BY <1>1, <2>1
    <3> QED
      BY <1>2, <2>3, <3>1 DEF Tracked
  <2>4. CASE /\ lifecycle = "recovering" /\ Unreplayed(f)
             /\ Newest(f) /\ lastIngestedSeq < seqOf[f]
    BY <1>5, <2>1, <2>4 DEF Tracked
  <2> QED
    BY <2>1, <2>2, <2>3, <2>4 DEF Tracked
<1> QED
  BY <1>6, <1>7, <1>8 DEF TracksTheLog

\* What a handler of a signal does up to its first write.
Handles(w) ==
  /\ pc[w] = "append" /\ job[w].fact \in Fact /\ AppendFact(job[w].fact)
  /\ job[w].kind # "local" /\ LastingOutcomes
  /\ UNCHANGED <<accepted, deferredIds, checkpoint, lifecycle, serialQueue, liveBuffer,
                 batch, stream, frames, consumed>>
  /\ \A v \in Worker \ {w} : pc'[v] = pc[v] /\ job'[v] = job[v]
  /\ job'[w] = job[w] \/ job'[w] = IdleJob
  /\ pc'[w] \in {"idle", "pass", "save", "accept", "acceptDeferred"}
  /\ pc'[w] = "pass" => job[w].retry
  /\ pc'[w] \in {"save", "accept", "acceptDeferred"} => job'[w] = job[w]
  /\ pc'[w] = "idle" => ~job[w].retry /\ job'[w] = IdleJob
  /\ lastIngestedSeq' = lastIngestedSeq \/ AdvanceWatermark(SeqAfterAppend(job[w].fact))
  /\ deferred \subseteq deferred' \union evicted' \union {job[w].fact}
  /\ \/ UNCHANGED <<deferred, saving>> /\ pc'[w] # "save"
     \/ IssueSave(w, "save") /\ deferred' \subseteq deferred
     \/ /\ HandleDeferred(w) /\ ~job[w].retry /\ job[w].fact \notin deferred
        /\ IssueSave(w, "save") /\ job[w].fact \in deferred'
        /\ deferred' \subseteq deferred \union {job[w].fact}
  /\ job[w].kind = "deferred" =>
        HandleDeferred(w) /\ (deferred \subseteq deferred' \union evicted')

\* Each of the four handlers does that.
LEMMA HandlersHandle ==
  ASSUME LossInv, Parking, Covering, TypeOK', NEW w \in Worker,
         \/ HandleMessage(w) \/ HandleDeferred(w) \/ HandleSkipped(w) \/ HandleMalformed(w)
  PROVE Handles(w)
<1>1. pc \in [Worker -> PC] /\ job \in [Worker -> Job] /\ TypeOK /\ deferred \in SUBSET Fact
  BY CoverIs, CoverTypes
<1>2. pc[w] = "append" /\ AppendFact(job[w].fact) /\ job[w].fact \in Fact /\ job[w].kind # "local"
  BY JobFact, <1>1 DEF HandleMessage, HandleDeferred, HandleSkipped, HandleMalformed, Handling
<1>3. CASE HandleMessage(w)
  BY <1>1, <1>2, <1>3 DEF Handles, HandleMessage, Handling, Return, IssueSave, Await, LastingOutcomes,
     AcceptedEvents
<1>4. CASE HandleDeferred(w)
  <2>1. CASE job[w].retry \/ job[w].fact \in deferred
    BY <1>1, <1>2, <1>4, <2>1 DEF Handles, HandleDeferred, Handling, Return, Await, LastingOutcomes,
       AcceptedEvents
  <2>2. CASE ~job[w].retry /\ job[w].fact \notin deferred
    <3>1. EnqueueDeferred(job[w].fact) /\ IssueSave(w, "save") /\ UNCHANGED <<lastIngestedSeq, job>>
      BY <1>4, <2>2 DEF HandleDeferred
    <3>2. /\ deferred \subseteq deferred' \union evicted' /\ evicted \subseteq evicted'
          /\ job[w].fact \in deferred' /\ deferred' \subseteq deferred \union {job[w].fact}
      BY <3>1 DEF EnqueueDeferred
    <3>3. /\ pc'[w] = "save" /\ job'[w] = job[w]
          /\ \A v \in Worker \ {w} : pc'[v] = pc[v] /\ job'[v] = job[v]
      BY <1>1, <3>1 DEF IssueSave, Await
    <3>4. LastingOutcomes
      BY <1>4, <3>2 DEF HandleDeferred, LastingOutcomes, AcceptedEvents
    <3> QED
      BY <1>2, <1>4, <2>2, <3>1, <3>2, <3>3, <3>4 DEF Handles, HandleDeferred
  <2> QED
    BY <2>1, <2>2
<1>5. CASE HandleSkipped(w)
  BY <1>1, <1>2, <1>5 DEF Handles, HandleSkipped, Handling, Return, IssueSave, Await, LastingOutcomes,
     AcceptedEvents
<1>6. CASE HandleMalformed(w)
  BY <1>1, <1>2, <1>6 DEF Handles, HandleMalformed, Handling, Return, IssueSave, Await, LastingOutcomes,
     AcceptedEvents
<1> QED
  BY <1>3, <1>4, <1>5, <1>6

\* A handler parks its fact, or moves the watermark over one that is accounted for.
LEMMA CoverHandler ==
  ASSUME LossInv, Parking, Covering, TypeOK', NEW w \in Worker,
         \/ HandleMessage(w) \/ HandleDeferred(w) \/ HandleSkipped(w) \/ HandleMalformed(w)
  PROVE Covering'
<1>0. SUFFICES ASSUME NEW g, g = job[w].fact PROVE Covering'
  OBVIOUS
<1>1. /\ TypeOK /\ LogsAgree /\ StageIs /\ ReplaysTheLog /\ SignalsDecrypted /\ ParkedIsLogged
      /\ SavesCover /\ ParksTheNewest /\ TracksTheLog /\ LedgerInv /\ Handles(w)
  BY CoverIs, HandlersHandle
<1>2. /\ pc \in [Worker -> PC] /\ job \in [Worker -> Job] /\ seqOf \in [Fact -> Nat]
      /\ lastIngestedSeq \in Nat /\ lastIngestedSeq' \in Nat /\ seqOf' \in [Fact -> Nat]
      /\ deferred \in SUBSET Fact /\ ids \in [Worker -> SUBSET Fact]
      /\ "chain" \in Worker /\ "cutover" \in Worker /\ Worker = {"chain", "cutover"}
  BY <1>1, CoverTypes DEF TypeOK, MemoryTyped, StoresTyped
<1>3. Ready /\ lifecycle \notin {"down", "joining"} /\ pc[w] = "append" /\ g \in Fact
  BY <1>0, <1>1, BusyIsReady DEF Handles
<1>4. Ready'
  BY <1>1, <1>2, <1>3 DEF Handles, Ready
<1>5. /\ Logged' = Logged \union {g} /\ seqOf'[g] = SeqAfterAppend(g)
      /\ \A f \in Fact \ {g} : seqOf'[f] = seqOf[f]
      /\ g \in Logged => seqOf' = seqOf
      /\ g \notin Logged => Newest(g)'
  BY <1>0, <1>1, <1>3, AppendNewest DEF Handles
<1>6. /\ lastIngestedSeq <= lastIngestedSeq'
      /\ lastIngestedSeq' = lastIngestedSeq \/ lastIngestedSeq' = seqOf'[g]
  <2>1. SeqAfterAppend(g) \in Nat
    BY <1>1, <1>3, SeqType
  <2> QED
    BY <1>0, <1>1, <1>2, <1>5, <2>1, AdvanceRaises DEF Handles
<1>7. /\ w = "cutover" => job[w].retry /\ lifecycle \in {"live", "retrying_deferred"}
      /\ job[w].retry => g \in Logged
      /\ lifecycle = "recovering" => w = "chain" /\ ~job[w].retry /\ g \in Logged
  BY <1>0, <1>1, <1>2, <1>3 DEF StageIs, ReplaysTheLog, Handler, TypeOK, MemoryTyped, Lifecycle
<1>8. SignalsDecrypted' /\ ReplaysTheLog'
  <2>1. \A v \in Worker : job'[v] = job[v] \/ job'[v] = IdleJob
    BY <1>1 DEF Handles
  <2>2. pc'["chain"] = "append" => pc["chain"] = "append" /\ job'["chain"] = job["chain"]
    BY <1>1, <1>2 DEF Handles
  <2> QED
    BY <1>1, <1>5, <2>1, <2>2, SignalsKept DEF Handles
<1>9. LogsAgree'
  BY <1>1, <1>3, <1>6, LogsKept DEF Handles
<1>10. StageIs'
  <2>1. CASE w = "cutover"
    BY <1>1, <1>2, <1>7, <2>1 DEF Handles, StageIs, Handler
  <2>2. CASE w = "chain"
    <3>1. ~IdleJob.retry
      BY DEF IdleJob
    <3> QED
      BY <1>1, <1>2, <2>2, <3>1 DEF Handles, StageIs, Handler
  <2> QED
    BY <1>2, <2>1, <2>2
<1>11. \A f : f # g => (Parks(f)' <=> Parks(f))
  BY <1>0, <1>1, <1>2 DEF Handles, Parks
<1>12. \A f : Leaving(f) => Leaving(f)'
  BY <1>1 DEF Handles, Leaving
<1>13. LastingOutcomes
  BY <1>1 DEF Handles
<1>14. ASSUME w = "cutover" PROVE deferred' \subseteq deferred /\ \A f : Parks(f)' <=> Parks(f)
  BY <1>1, <1>2, <1>7, <1>14 DEF Handles, Parks
<1>15. ASSUME w = "chain" PROVE ~Saving("chain") /\ (\A f : ~Parks(f))
                               /\ (deferred' # deferred => Saving("chain")')
                               /\ (Saving("chain")' => /\ ids'["chain"] = deferred'
                                                      /\ ids'["cutover"] = ids["cutover"])
                               /\ (~Saving("chain")' => UNCHANGED ids)
  BY <1>1, <1>2, <1>3, <1>15 DEF Handles, Parks, Saving, IssueSave, Await
<1>16. SavesCover'
  <2>1. CASE w = "cutover"
    <3>1. \/ UNCHANGED <<deferred, ids>> /\ ~Saving("cutover")'
          \/ ids'["cutover"] = deferred' /\ ids'["chain"] = ids["chain"]
      BY <1>1, <1>2, <2>1 DEF Handles, IssueSave, Saving
    <3>2. Saving("chain")' <=> Saving("chain")
      BY <1>1, <1>2, <2>1 DEF Handles, Saving
    <3> QED
      BY <1>1, <1>14, <2>1, <3>1, <3>2 DEF SavesCover
  <2>2. CASE w = "chain"
    <3>1. Saving("cutover")' <=> Saving("cutover")
      BY <1>1, <1>2, <2>2 DEF Handles, Saving
    <3>2. ASSUME Saving("cutover"), NEW f \in deferred' \ ids'["cutover"] PROVE Parks(f)'
      <4>1. ids'["cutover"] = ids["cutover"] /\ f \notin deferred
        BY <1>1, <1>2, <1>15, <2>2, <3>2 DEF SavesCover
      <4>2. /\ HandleDeferred(w) /\ ~job[w].retry /\ f = g /\ IssueSave(w, "save")
        BY <1>0, <1>1, <3>2, <4>1 DEF Handles
      <4>3. pc'[w] = "save" /\ job'[w] = job[w] /\ job[w].kind = "deferred"
        BY <1>1, <1>2, <4>2 DEF Handles, IssueSave, Await, HandleDeferred, Handling
      <4> QED
        BY <1>0, <2>2, <4>2, <4>3 DEF Parks
    <3> QED
      BY <1>15, <2>2, <3>1, <3>2 DEF SavesCover
  <2> QED
    BY <1>2, <2>1, <2>2
<1>17. ASSUME NEW f \in Fact, f # g, f \in Logged, lifecycle = "recovering", Newest(f)
       PROVE Newest(f)' /\ (lastIngestedSeq < seqOf[f] => lastIngestedSeq' < seqOf'[f])
  <2>1. seqOf' = seqOf /\ seqOf[g] < seqOf[f]
    BY <1>3, <1>5, <1>7, <1>17 DEF Newest
  <2> QED
    BY <1>6, <1>17, <2>1 DEF Newest
<1>18. ASSUME NEW f \in Task \intersect Logged, f # g PROVE Tracked(f)'
  <2>1. Tracked(f) /\ f \in Fact /\ seqOf[f] \in Nat /\ seqOf'[f] = seqOf[f]
    BY <1>1, <1>2, <1>3, <1>5, <1>18 DEF TracksTheLog, Task
  <2>2. CASE Resolved(f) \/ Leaving(f)
    BY <1>12, <1>13, <2>2, ResolvedStays DEF Tracked
  <2>3. CASE f \in deferred /\ (f \in deferredIds \/ seqOf[f] <= lastIngestedSeq \/ Parks(f))
    <3>1. f \in deferred' \/ Resolved(f)'
      BY <1>0, <1>1, <1>18, <2>3 DEF Handles, Resolved
    <3>2. seqOf[f] <= lastIngestedSeq => seqOf'[f] <= lastIngestedSeq'
      BY <1>2, <1>6, <2>1
    <3>3. deferredIds' = deferredIds
      BY <1>1 DEF Handles
    <3> QED
      BY <1>11, <1>18, <2>3, <3>1, <3>2, <3>3 DEF Tracked
  <2>4. CASE /\ lifecycle = "recovering" /\ Unreplayed(f)
             /\ Newest(f) /\ lastIngestedSeq < seqOf[f]
    <3>1. Newest(f)' /\ lastIngestedSeq' < seqOf'[f]
      BY <1>17, <1>18, <2>1, <2>4
    <3>2. Unreplayed(f)'
      BY <1>0, <1>1, <1>7, <1>18, <2>4 DEF Handles, Unreplayed
    <3>3. lifecycle' = lifecycle
      BY <1>1 DEF Handles
    <3> QED
      BY <2>4, <3>1, <3>2, <3>3 DEF Tracked
  <2> QED
    BY <2>1, <2>2, <2>3, <2>4 DEF Tracked
<1>19. ASSUME g \in Task
       PROVE /\ Tracked(g)'
             /\ w = "chain" /\ Parks(g)' =>
                  Resolved(g)' \/ Leaving(g)' \/ (g \in deferred' /\ Newest(g)')
  <2>1. CASE job[w].kind # "deferred"
    <3>1. g \in consumed
      BY <1>0, <1>1, <1>19, <2>1 DEF Handles, SignalsDecrypted, Decrypted
    <3> QED
      BY <1>13, <3>1, ResolvedStays DEF Resolved, Tracked
  <2>2. CASE job[w].kind = "deferred" /\ (job[w].retry \/ g \in deferred)
    <3>0. HandleDeferred(w)
      BY <1>1, <2>2 DEF Handles
    <3>1. /\ AdvanceWatermark(SeqAfterAppend(g)) /\ UNCHANGED <<deferred, evicted>> /\ Return(w)
      BY <1>0, <2>2, <3>0 DEF HandleDeferred
    <3>2. seqOf'[g] <= lastIngestedSeq' /\ (w = "chain" => ~Parks(g)')
      <4>1. SeqAfterAppend(g) \in Nat
        BY <1>1, <1>3, SeqType
      <4>2. seqOf'[g] <= lastIngestedSeq'
        BY <1>1, <1>5, <3>1, <4>1, AdvanceRaises
      <4>3. pc'[w] # "save"
        BY <1>2, <3>1 DEF Return, Await
      <4> QED
        BY <1>2, <4>2, <4>3 DEF Parks
    <3>3. CASE g \in deferred
      BY <3>1, <3>2, <3>3 DEF Tracked
    <3>4. CASE g \notin deferred
      <4>1. Tracked(g) /\ lifecycle # "recovering"
        BY <1>1, <1>3, <1>7, <1>19, <2>2, <3>4 DEF TracksTheLog
      <4>2. Resolved(g) \/ Leaving(g)
        BY <3>4, <4>1 DEF Tracked
      <4> QED
        BY <1>12, <1>13, <4>2, ResolvedStays DEF Tracked
    <3> QED
      BY <3>3, <3>4
  <2>3. CASE job[w].kind = "deferred" /\ ~job[w].retry /\ g \notin deferred
    <3>0. HandleDeferred(w) /\ w = "chain"
      BY <1>1, <1>2, <1>7, <2>3 DEF Handles
    <3>1. EnqueueDeferred(g) /\ IssueSave(w, "save") /\ UNCHANGED <<lastIngestedSeq, job>>
      BY <1>0, <2>3, <3>0 DEF HandleDeferred
    <3>2. g \in deferred' /\ Parks(g)'
      BY <1>0, <1>2, <2>3, <3>0, <3>1 DEF EnqueueDeferred, IssueSave, Await, Parks
    <3>3. g \notin Logged => Newest(g)'
      BY <1>5
    <3>4. ASSUME g \in Logged PROVE Resolved(g)' \/ Leaving(g)' \/ Newest(g)'
      <4>1. Resolved(g) \/ Leaving(g) \/ Newest(g)
        BY <1>1, <1>3, <1>19, <2>3, <3>4 DEF TracksTheLog, Tracked
      <4>2. Newest(g) => Newest(g)'
        BY <1>5, <3>4 DEF Newest
      <4> QED
        BY <1>12, <1>13, <4>1, <4>2, ResolvedStays
    <3> QED
      BY <3>2, <3>3, <3>4 DEF Tracked
  <2> QED
    BY <2>1, <2>2, <2>3
<1>20. ParksTheNewest'
  <2> SUFFICES ASSUME NEW f \in Task, Parks(f)'
               PROVE Resolved(f)' \/ Leaving(f)' \/ (f \in deferred' /\ Newest(f)')
    BY DEF ParksTheNewest
  <2>1. CASE w = "chain"
    <3>1. f = g
      BY <1>11, <1>15, <2>1
    <3> QED
      BY <1>19, <2>1, <3>1
  <2>2. CASE w = "cutover"
    <3>1. Parks(f) /\ f \in Fact
      BY <1>14, <2>2 DEF Task
    <3>2. Resolved(f) \/ Leaving(f) \/ (f \in deferred /\ Newest(f))
      BY <1>1, <3>1 DEF ParksTheNewest
    <3>3. CASE Resolved(f) \/ Leaving(f)
      BY <1>12, <1>13, <3>3, ResolvedStays
    <3>4. CASE f \in deferred /\ Newest(f)
      <4>1. Newest(f)'
        BY <1>5, <1>7, <2>2, <3>4 DEF Newest
      <4>2. CASE f # g
        BY <1>0, <1>1, <3>4, <4>1, <4>2 DEF Handles, Resolved
      <4>3. CASE f = g /\ job[w].kind = "deferred"
        BY <1>0, <1>1, <3>4, <4>1, <4>3 DEF Handles, Resolved
      <4>4. CASE f = g /\ job[w].kind # "deferred"
        <5>1. f \in consumed
          BY <1>0, <1>1, <4>4 DEF Handles, SignalsDecrypted, Decrypted
        <5> QED
          BY <1>13, <5>1, ResolvedStays DEF Resolved
      <4> QED
        BY <4>2, <4>3, <4>4
    <3> QED
      BY <3>2, <3>3, <3>4
  <2> QED
    BY <1>2, <2>1, <2>2
<1>21. TracksTheLog'
  BY <1>4, <1>5, <1>18, <1>19 DEF TracksTheLog
<1> QED
  BY <1>8, <1>9, <1>10, <1>16, <1>20, <1>21 DEF Covering

\* A pass, or a handler of a retry, runs only in an engine that is live.
LEMMA PassStage ==
  ASSUME LossInv, Parking, Covering, NEW w \in Worker,
         \/ pc[w] \in {"prune", "pruneSave", "batch", "charge", "pass", "exhausted",
                       "exhaustedSave", "loop"}
         \/ w = "chain" /\ pc[w] = "ingest"
         \/ pc[w] \in Handler /\ (job[w].retry \/ w = "cutover")
  PROVE lifecycle \in {"live", "retrying_deferred"} /\ Ready
<1>1. WaitsForQueue /\ LedgerInv
  BY CoverIs
<1>2. Ready
  <2>1. CASE pc[w] = "accept"
    BY <1>1, <2>1 DEF WaitsForQueue, Worker
  <2>2. CASE pc[w] \in {"append", "acceptDeferred", "unpark", "save"}
    BY <1>1, <2>2, BusyIsReady
  <2>3. CASE pc[w] \in {"prune", "pruneSave", "batch", "charge", "pass", "exhausted",
                       "exhaustedSave", "loop", "ingest"}
    BY <1>1, <2>3, BusyIsReady
  <2> QED
    BY <2>1, <2>2, <2>3 DEF Handler
<1>3. lifecycle \notin {"down", "joining"} /\ StageIs /\ lifecycle \in Lifecycle
  BY <1>2, CoverIs, ReadyRuns, CoverTypes
<1>4. CASE w = "cutover"
  BY <1>2, <1>3, <1>4 DEF StageIs, Lifecycle, Handler
<1>5. CASE w = "chain"
  BY <1>2, <1>3, <1>5 DEF StageIs, Lifecycle, Handler
<1> QED
  BY <1>2, <1>4, <1>5 DEF Worker

\* The removals from the queue.
LEMMA CoverUnpark ==
  ASSUME LossInv, Parking, Covering, TypeOK', NEW w \in Worker,
         \/ AcceptDeferredRemove(w) \/ PruneExpired(w) \/ RemoveExhausted(w)
  PROVE Covering'
<1>1. /\ TypeOK /\ LogsAgree /\ StageIs /\ SavesCover /\ ParksTheNewest /\ TracksTheLog
      /\ LedgerInv /\ ParkedIsLogged /\ CarriesAccepted(w)
  BY CoverIs
<1>2. /\ pc \in [Worker -> PC] /\ job \in [Worker -> Job] /\ seqOf \in [Fact -> Nat]
      /\ lastIngestedSeq \in Nat /\ lastIngestedSeq' \in Nat
      /\ deferred \in SUBSET Fact /\ ids \in [Worker -> SUBSET Fact]
      /\ batch \in [Worker -> SUBSET Fact] /\ frames \in [Worker -> Seq(Frame)]
      /\ "chain" \in Worker /\ "cutover" \in Worker /\ Worker = {"chain", "cutover"}
  BY <1>1, CoverTypes DEF TypeOK, MemoryTyped
<1>3. pc[w] \in {"unpark", "prune", "exhausted"} /\ Ready /\ lifecycle \notin {"down", "joining"}
  <2>1. pc[w] \in {"unpark", "prune", "exhausted"}
    BY DEF AcceptDeferredRemove, PruneExpired, RemoveExhausted
  <2> QED
    BY <1>1, <2>1, BusyIsReady
<1>4. pc[w] \in {"prune", "exhausted"} \/ w = "cutover" \/ job[w].retry
        => lifecycle \in {"live", "retrying_deferred"}
  BY <1>3, PassStage DEF Handler
<1>5. /\ UNCHANGED <<seqOf, accepted, checkpoint, lifecycle, serialQueue, liveBuffer, stream,
                     frames, consumed, job, rejected, evicted, interrupted, orphaned>>
      /\ deferred' \subseteq deferred /\ deferredIds' \subseteq deferredIds
      /\ \A v \in Worker \ {w} : pc'[v] = pc[v] /\ batch'[v] = batch[v]
      /\ batch'[w] = batch[w] \/ batch'[w] \subseteq deferred
      /\ lifecycle = "recovering" => lastIngestedSeq' = lastIngestedSeq /\ batch' = batch
  <2>1. CASE AcceptDeferredRemove(w)
    BY <1>2, <1>4, <2>1 DEF AcceptDeferredRemove, IssueSave, Await
  <2>2. CASE PruneExpired(w)
    BY <1>2, <1>4, <2>2 DEF PruneExpired, IssueSave, Await
  <2>3. CASE RemoveExhausted(w)
    BY <1>2, <1>4, <2>3 DEF RemoveExhausted, IssueSave, Await, ExhaustedEntries
  <2> QED
    BY <2>1, <2>2, <2>3
<1>6. \/ /\ UNCHANGED <<deferred, deferredIds, ids>> /\ pc'[w] \in {"batch", "loop"}
         /\ pc[w] \in {"prune", "exhausted"}
      \/ /\ pc'[w] = "save" /\ pc[w] = "unpark"
         /\ ids' = [ids EXCEPT ![w] = deferred']
      \/ /\ pc'[w] \in {"pruneSave", "exhaustedSave"} /\ pc[w] \in {"prune", "exhausted"}
         /\ ids' = [ids EXCEPT ![w] = deferred']
  <2>1. CASE AcceptDeferredRemove(w)
    BY <1>2, <2>1 DEF AcceptDeferredRemove, IssueSave, Await
  <2>2. CASE PruneExpired(w)
    BY <1>2, <2>2 DEF PruneExpired, IssueSave, Await
  <2>3. CASE RemoveExhausted(w)
    BY <1>2, <2>3 DEF RemoveExhausted, IssueSave, Await
  <2> QED
    BY <2>1, <2>2, <2>3
<1>7. lastIngestedSeq <= lastIngestedSeq'
  <2>1. CASE AcceptDeferredRemove(w) /\ job[w].retry
    <3>1. job[w].fact \in Fact /\ EmitAccepted(job[w].fact)
      BY <1>1, <2>1, JobFact DEF AcceptDeferredRemove
    <3>2. seqOf[job[w].fact] \in Nat /\ AdvanceWatermark(seqOf[job[w].fact])
      BY <1>2, <3>1 DEF EmitAccepted
    <3> QED
      BY <1>1, <3>2, AdvanceRaises
  <2>2. CASE ~(AcceptDeferredRemove(w) /\ job[w].retry)
    BY <1>2, <2>2 DEF AcceptDeferredRemove, PruneExpired, RemoveExhausted
  <2> QED
    BY <2>1, <2>2
<1>8. Logged' = Logged /\ LastingOutcomes
  BY <1>5 DEF Logged, LastingOutcomes, AcceptedEvents
<1>9. Ready'
  BY <1>2, <1>3, <1>5, <1>6 DEF Ready
<1>10. SignalsDecrypted' /\ ReplaysTheLog'
  <2>1. \A v \in Worker : batch'[v] = batch[v] \/ batch'[v] \subseteq Logged'
    BY <1>1, <1>5, <1>8 DEF ParkedIsLogged
  <2>2. pc'["chain"] = "append" => pc["chain"] = "append"
    BY <1>2, <1>5, <1>6
  <2> QED
    BY <1>5, <1>8, <2>1, <2>2, SignalsKept
<1>11. LogsAgree'
  BY <1>3, <1>5, <1>7, LogsKept
<1>12. StageIs'
  BY <1>1, <1>2, <1>3, <1>4, <1>5, <1>6 DEF StageIs, Handler
<1>13. \A f : Leaving(f) => Leaving(f)'
  BY <1>3, <1>5 DEF Leaving
<1>14. \A f : f \in deferred => f \in deferred' \/ Resolved(f)' \/ Leaving(f)'
  <2>1. CASE AcceptDeferredRemove(w)
    <3>1. EventOf[job[w].fact] \in AcceptedEvents
      BY <1>1, <2>1 DEF AcceptDeferredRemove, CarriesAccepted
    <3> QED
      BY <1>5, <2>1, <3>1 DEF AcceptDeferredRemove, Resolved, AcceptedEvents
  <2>2. CASE PruneExpired(w)
    <3>1. PICK old \in SUBSET (deferred \intersect Expirable) :
            /\ deferred' = deferred \ old /\ batch' = [batch EXCEPT ![w] = old]
            /\ old # {} => pc'[w] = "pruneSave"
      BY <1>2, <2>2 DEF PruneExpired, IssueSave, Await
    <3> QED
      BY <1>2, <3>1 DEF Leaving
  <2>3. CASE RemoveExhausted(w)
    <3>1. /\ deferred' = deferred \ ExhaustedEntries
          /\ batch' = [batch EXCEPT ![w] = ExhaustedEntries]
          /\ ExhaustedEntries # {} => pc'[w] = "exhaustedSave"
      BY <1>2, <2>3 DEF RemoveExhausted, IssueSave, Await
    <3> QED
      BY <1>2, <3>1 DEF Leaving
  <2> QED
    BY <2>1, <2>2, <2>3
<1>15. \A f : f \in deferredIds => f \in deferredIds' \/ Resolved(f)'
  <2>1. CASE AcceptDeferredRemove(w)
    <3>1. EventOf[job[w].fact] \in AcceptedEvents
      BY <1>1, <2>1 DEF AcceptDeferredRemove, CarriesAccepted
    <3> QED
      BY <1>5, <2>1, <3>1 DEF AcceptDeferredRemove, Resolved, AcceptedEvents
  <2>2. CASE PruneExpired(w) \/ RemoveExhausted(w)
    BY <2>2 DEF PruneExpired, RemoveExhausted
  <2> QED
    BY <2>1, <2>2
<1>16. /\ w = "cutover" => \A f : Parks(f)' <=> Parks(f)
       /\ w = "chain" => \A f : ~Parks(f)
  BY <1>2, <1>3, <1>5 DEF Parks
<1>17. \A f : Parks(f)' => Parks(f) \/ Resolved(f)'
  <2>1. CASE w = "cutover"
    BY <1>16, <2>1
  <2>2. CASE w = "chain"
    <3> SUFFICES ASSUME NEW f, Parks(f)' PROVE Resolved(f)'
      OBVIOUS
    <3>1. pc[w] = "unpark" /\ job[w].fact = f
      BY <1>2, <1>5, <1>6, <2>2 DEF Parks
    <3>2. EventOf[f] \in AcceptedEvents
      BY <1>1, <3>1 DEF CarriesAccepted
    <3> QED
      BY <1>8, <3>2 DEF Resolved, LastingOutcomes
  <2> QED
    BY <1>2, <2>1, <2>2
<1>18. SavesCover'
  <2>1. CASE w = "cutover"
    BY <1>1, <1>2, <1>3, <1>5, <1>6, <1>16, <2>1 DEF SavesCover, Saving
  <2>2. CASE w = "chain"
    BY <1>1, <1>2, <1>3, <1>5, <1>6, <1>16, <2>2 DEF SavesCover, Saving
  <2> QED
    BY <1>2, <2>1, <2>2
<1>19. \A f : Newest(f)' <=> Newest(f)
  BY <1>5 DEF Newest
<1>20. ParksTheNewest'
  BY <1>1, <1>8, <1>13, <1>14, <1>17, <1>19, ResolvedStays DEF ParksTheNewest
<1>21. ASSUME NEW f \in Task \intersect Logged PROVE Tracked(f)'
  <2>1. Tracked(f) /\ seqOf[f] \in Nat /\ seqOf' = seqOf
    BY <1>1, <1>2, <1>3, <1>5 DEF TracksTheLog, Task
  <2>2. CASE Resolved(f) \/ Leaving(f)
    BY <1>8, <1>13, <2>2, ResolvedStays DEF Tracked
  <2>3. CASE f \in deferred /\ (f \in deferredIds \/ seqOf[f] <= lastIngestedSeq \/ Parks(f))
    <3>1. f \in deferred' \/ Resolved(f)' \/ Leaving(f)'
      BY <1>14, <2>3
    <3>2. seqOf[f] <= lastIngestedSeq => seqOf'[f] <= lastIngestedSeq'
      BY <1>2, <1>7, <2>1
    <3>3. Parks(f) => Parks(f)'
      BY <1>2, <1>16
    <3> QED
      BY <1>15, <2>3, <3>1, <3>2, <3>3 DEF Tracked
  <2>4. CASE /\ lifecycle = "recovering" /\ Unreplayed(f)
             /\ Newest(f) /\ lastIngestedSeq < seqOf[f]
    <3>1. Unreplayed(f)'
      BY <1>2, <1>3, <1>4, <1>5, <2>4 DEF Unreplayed
    <3> QED
      BY <1>5, <1>19, <2>4, <3>1 DEF Tracked
  <2> QED
    BY <2>1, <2>2, <2>3, <2>4 DEF Tracked
<1>22. TracksTheLog'
  BY <1>8, <1>9, <1>21 DEF TracksTheLog
<1> QED
  BY <1>10, <1>11, <1>12, <1>18, <1>20, <1>22 DEF Covering

\* A save lands.
LEMMA CoverSave ==
  ASSUME LossInv, Parking, Covering, TypeOK', Parking', NEW w \in Worker,
         SaveDeferredIds(w) \/ SaveRemoval(w)
  PROVE Covering'
<1>1. /\ TypeOK /\ LogsAgree /\ StageIs /\ SavesCover /\ ParksTheNewest /\ TracksTheLog
      /\ LedgerInv /\ CarriesAccepted(w) /\ SavesTheQueue'
  BY CoverIs DEF Parking
<1>2. /\ pc \in [Worker -> PC] /\ job \in [Worker -> Job] /\ seqOf \in [Fact -> Nat]
      /\ lastIngestedSeq \in Nat /\ lastIngestedSeq' \in Nat
      /\ ids \in [Worker -> SUBSET Fact] /\ batch \in [Worker -> SUBSET Fact]
      /\ "chain" \in Worker /\ "cutover" \in Worker /\ Worker = {"chain", "cutover"}
  BY <1>1, CoverTypes DEF TypeOK, MemoryTyped
<1>3. /\ pc[w] \in {"save", "pruneSave", "exhaustedSave"}
      /\ Ready /\ lifecycle \notin {"down", "joining"}
  <2>1. pc[w] \in {"save", "pruneSave", "exhaustedSave"}
    BY DEF SaveDeferredIds, SaveRemoval, ReportRemoved
  <2> QED
    BY <1>1, <2>1, BusyIsReady
<1>4. pc[w] \in {"pruneSave", "exhaustedSave"} \/ w = "cutover" \/ job[w].retry
        => lifecycle \in {"live", "retrying_deferred"}
  BY <1>3, PassStage DEF Handler
<1>5. /\ UNCHANGED <<seqOf, accepted, checkpoint, lifecycle, serialQueue, liveBuffer, stream,
                     frames, consumed, evicted, interrupted, orphaned,
                     deferred>>
      /\ rejected \subseteq rejected' /\ deferredIds' = ids[w] /\ SaveReturns(w)
      /\ \A v \in Worker \ {w} : pc'[v] = pc[v] /\ batch'[v] = batch[v] /\ job'[v] = job[v]
      /\ batch'[w] = batch[w] \/ batch'[w] = {}
      /\ job'[w] = job[w] \/ job'[w] = IdleJob
      /\ pc[w] = "save" => /\ batch'[w] = batch[w] /\ job'[w] = IdleJob
                           /\ pc'[w] = IF job[w].retry THEN "pass" ELSE "idle"
      /\ pc[w] # "save" => /\ lastIngestedSeq' = lastIngestedSeq
                           /\ pc'[w] \in {"batch", "loop"} /\ job'[w] = job[w]
                           /\ \A f \in batch[w] : Reported(f)'
  <2>1. CASE SaveDeferredIds(w)
    BY <1>2, <2>1 DEF SaveDeferredIds, AfterSave, Return, Await
  <2>2. CASE SaveRemoval(w)
    <3>1. \A f \in batch[w] : Reported(f)'
      BY <2>2 DEF SaveRemoval, ReportRemoved, Reported, Reason
    <3> QED
      BY <1>2, <2>2, <3>1 DEF SaveRemoval, ReportRemoved, Await
  <2> QED
    BY <2>1, <2>2
<1>6. \/ lastIngestedSeq' = lastIngestedSeq
      \/ /\ pc[w] = "save" /\ job[w].fact \in Fact
         /\ AdvanceWatermark(seqOf[job[w].fact])
         /\ \/ job[w].kind = "deferred"
            \/ EventOf[job[w].fact] \in AcceptedEvents
  <2>1. CASE SaveDeferredIds(w)
    <3>1. CASE job[w].kind = "message" /\ ~job[w].retry
      <4>1. EventOf[job[w].fact] \in AcceptedEvents
        BY <1>1, <2>1, <3>1 DEF CarriesAccepted, SaveDeferredIds
      <4>2. job[w].fact \in Fact
        BY <1>1, <3>1, JobFact
      <4> QED
        BY <2>1, <3>1, <4>1, <4>2 DEF SaveDeferredIds, AfterSave, EmitAccepted
    <3>2. CASE job[w].kind = "deferred"
      <4>1. job[w].fact \in Fact
        BY <1>1, <3>2, JobFact
      <4> QED
        BY <2>1, <3>2, <4>1 DEF SaveDeferredIds, AfterSave
    <3>3. CASE ~(job[w].kind = "message" /\ ~job[w].retry) /\ job[w].kind # "deferred"
      BY <2>1, <3>3 DEF SaveDeferredIds, AfterSave
    <3> QED
      BY <3>1, <3>2, <3>3
  <2>2. CASE SaveRemoval(w)
    BY <2>2 DEF SaveRemoval, ReportRemoved
  <2> QED
    BY <2>1, <2>2
<1>7. /\ lastIngestedSeq <= lastIngestedSeq'
      /\ lastIngestedSeq' = lastIngestedSeq \/ lastIngestedSeq' = seqOf[job[w].fact]
  BY <1>1, <1>2, <1>6, AdvanceRaises
<1>8. Logged' = Logged /\ LastingOutcomes
  BY <1>5 DEF Logged, LastingOutcomes, AcceptedEvents
<1>9. Ready' /\ ~Saving(w)'
  BY <1>2, <1>3, <1>5 DEF Ready, Saving
<1>10. SignalsDecrypted' /\ ReplaysTheLog'
  <2>1. pc'["chain"] # "append" \/ w = "cutover"
    BY <1>2, <1>3, <1>5
  <2>2. \A v \in Worker : batch'[v] = batch[v] \/ batch'[v] \subseteq Logged'
    BY <1>5
  <2>3. pc'["chain"] = "append" => pc["chain"] = "append" /\ job'["chain"] = job["chain"]
    BY <1>2, <1>3, <1>5
  <2> QED
    BY <1>5, <1>8, <2>2, <2>3, SignalsKept
<1>11. LogsAgree'
  BY <1>3, <1>5, <1>7, LogsKept
<1>12. StageIs'
  <2>1. ~IdleJob.retry
    BY DEF IdleJob
  <2>2. CASE w = "cutover"
    BY <1>1, <1>2, <1>3, <1>4, <1>5, <2>2 DEF StageIs, Handler
  <2>3. CASE w = "chain"
    BY <1>1, <1>2, <1>3, <1>4, <1>5, <2>1, <2>3 DEF StageIs, Handler
  <2> QED
    BY <1>2, <2>2, <2>3
<1>13. \A f : Leaving(f) => Leaving(f)' \/ Resolved(f)'
  BY <1>3, <1>5 DEF Leaving, Resolved
<1>14. /\ w = "cutover" => \A f : Parks(f)' <=> Parks(f)
       /\ w = "chain" => \A f : ~Parks(f)'
  BY <1>2, <1>3, <1>5 DEF Parks
<1>15. SavesCover'
  <2>1. CASE w = "cutover"
    BY <1>1, <1>2, <1>5, <1>9, <2>1 DEF SavesCover, Saving, SaveReturns
  <2>2. CASE w = "chain"
    <3>1. ASSUME Saving("cutover")' PROVE ids'["cutover"] = deferred'
      <4>1. Saving("cutover") /\ firstSave = w /\ firstSave' = firstSave
        BY <1>2, <1>5, <2>2, <3>1 DEF Saving, SaveReturns, SaveTurn
      <4>2. LastSave("cutover")'
        BY <1>2, <1>9, <2>2, <3>1 DEF LastSave
      <4> QED
        BY <1>1, <1>2, <1>9, <4>2 DEF SavesTheQueue
    <3> QED
      BY <1>9, <2>2, <3>1 DEF SavesCover
  <2> QED
    BY <1>2, <2>1, <2>2
<1>16. \A f : Newest(f)' <=> Newest(f)
  BY <1>5 DEF Newest
<1>17. ParksTheNewest'
  <2> SUFFICES ASSUME NEW f \in Task, Parks(f)'
               PROVE Resolved(f)' \/ Leaving(f)' \/ (f \in deferred' /\ Newest(f)')
    BY DEF ParksTheNewest
  <2>1. Parks(f)
    BY <1>2, <1>14
  <2>2. Resolved(f) \/ Leaving(f) \/ (f \in deferred /\ Newest(f))
    BY <1>1, <2>1 DEF ParksTheNewest
  <2> QED
    BY <1>5, <1>8, <1>13, <1>16, <2>2, ResolvedStays
<1>18. \A f \in deferred : f \in deferredIds' \/ Parks(f)'
  BY <1>1, <1>2, <1>3, <1>5, <1>14 DEF SavesCover, Saving
<1>19. ASSUME NEW f \in Task \intersect Logged PROVE Tracked(f)'
  <2>1. Tracked(f) /\ seqOf[f] \in Nat /\ seqOf' = seqOf /\ f \in Fact
    BY <1>1, <1>2, <1>3, <1>5 DEF TracksTheLog, Task
  <2>2. CASE Resolved(f) \/ Leaving(f)
    BY <1>8, <1>13, <2>2, ResolvedStays DEF Tracked
  <2>3. CASE f \in deferred
    BY <1>5, <1>18, <2>3 DEF Tracked
  <2>4. CASE /\ lifecycle = "recovering" /\ Unreplayed(f) /\ f \notin deferred
             /\ Newest(f) /\ lastIngestedSeq < seqOf[f] /\ ~Resolved(f) /\ ~Leaving(f)
    <3>1. w = "chain" /\ pc[w] = "save" /\ ~job[w].retry
      BY <1>2, <1>3, <1>4, <2>4
    <3>2. lastIngestedSeq' < seqOf[f]
      <4>1. CASE lastIngestedSeq' = lastIngestedSeq
        BY <2>4, <4>1
      <4>2. CASE job[w].fact \in Fact /\ job[w].fact # f
        <5>1. seqOf[job[w].fact] < seqOf[f]
          BY <2>4, <4>2 DEF Newest
        <5> QED
          BY <1>7, <2>4, <5>1
      <4>3. CASE job[w].fact = f /\ job[w].kind = "deferred"
        <5>1. Parks(f)
          BY <3>1, <4>3 DEF Parks
        <5> QED
          BY <1>1, <2>4, <5>1 DEF ParksTheNewest
      <4>4. CASE job[w].fact = f /\ EventOf[job[w].fact] \in AcceptedEvents
        BY <2>4, <4>4 DEF Resolved
      <4> QED
        BY <1>6, <4>1, <4>2, <4>3, <4>4
    <3>3. Unreplayed(f)'
      BY <1>2, <1>5, <2>4, <3>1 DEF Unreplayed
    <3> QED
      BY <1>5, <1>16, <2>4, <3>2, <3>3 DEF Tracked
  <2> QED
    BY <2>1, <2>2, <2>3, <2>4 DEF Tracked
<1>20. TracksTheLog'
  BY <1>8, <1>9, <1>19 DEF TracksTheLog
<1> QED
  BY <1>10, <1>11, <1>12, <1>15, <1>17, <1>20 DEF Covering

\* A step of an engine that is live, or in a pass, and stays so.
LiveStep ==
  /\ lifecycle \in {"live", "retrying_deferred"} /\ lifecycle' \in {"live", "retrying_deferred"}
  /\ pc'["cutover"] \notin
       {"rebuild", "bootstrap", "catchUp", "drain", "buffer", "rejoin", "reopen"}
  /\ pc'["cutover"] \in Handler => job'["cutover"].retry
  /\ UNCHANGED <<seqOf, accepted, deferred, deferredIds, ids, lastIngestedSeq>>
  /\ checkpoint' = checkpoint \/ checkpoint' = Snapshot'
  /\ rejected \subseteq rejected' /\ evicted \subseteq evicted'
  /\ interrupted \subseteq interrupted' /\ orphaned \subseteq orphaned'
  /\ consumed \subseteq consumed'
  /\ \A w \in Worker :
       \/ ~Saving(w) /\ ~Saving(w)'
       \/ pc'[w] = pc[w] /\ job'[w] = job[w] /\ batch'[w] = batch[w]

\* Such a step keeps it.
LEMMA CoverLive ==
  ASSUME LossInv, Parking, Covering, TypeOK', LiveStep, SignalsDecrypted', ReplaysTheLog'
  PROVE Covering'
<1>1. StageIs /\ lastIngestedSeq \in Nat
  BY CoverIs, CoverTypes
<1>2. StageIs'
  BY DEF LiveStep, StageIs
<1>3. LogsAgree'
  <2>1. lifecycle # "down" /\ lastIngestedSeq <= lastIngestedSeq'
    BY <1>1 DEF LiveStep
  <2> QED
    BY <2>1, LogsKept DEF LiveStep
<1>4. Ready /\ Ready'
  BY <1>1 DEF LiveStep, StageIs, Ready
<1>5. LastingOutcomes
  BY DEF LiveStep, LastingOutcomes, AcceptedEvents
<1>6. lifecycle # "recovering" /\ lastIngestedSeq <= lastIngestedSeq'
  BY <1>1 DEF LiveStep
<1>7. SavesCover' /\ ParksTheNewest' /\ TracksTheLog'
  BY <1>4, <1>5, <1>6, TracksSteady DEF LiveStep
<1> QED
  BY <1>2, <1>3, <1>7 DEF Covering

\* The steps of a pass between two of its signals.
LEMMA CoverPass ==
  ASSUME LossInv, Parking, Covering, TypeOK', NEW w \in Worker, failures' = 0,
         EnterRetrying(w) \/ ChargeBatch(w)
  PROVE Covering'
<1>1. /\ TypeOK /\ ParkedIsLogged /\ pc \in [Worker -> PC] /\ batch \in [Worker -> SUBSET Fact]
      /\ Worker = {"chain", "cutover"} /\ StageIs
  BY CoverIs, CoverTypes
<1>2. pc[w] \in {"batch", "charge"} /\ lifecycle \in {"live", "retrying_deferred"}
  <2>1. pc[w] \in {"batch", "charge"}
    BY DEF EnterRetrying, ChargeBatch
  <2> QED
    BY <2>1, PassStage
<1>3. /\ UNCHANGED <<seqOf, accepted, deferred, deferredIds, ids, lastIngestedSeq, serialQueue,
                     liveBuffer, stream, frames, job, rejected, evicted, interrupted, orphaned, consumed>>
      /\ lifecycle' \in {"live", "retrying_deferred"}
      /\ checkpoint' = checkpoint \/ checkpoint' = Snapshot'
      /\ pc'[w] \in {"exhausted", "charge", "ingest"}
      /\ \A v \in Worker \ {w} : pc'[v] = pc[v] /\ batch'[v] = batch[v]
      /\ batch'[w] = batch[w] \/ batch'[w] \subseteq deferred
  <2>1. CASE EnterRetrying(w)
    BY <1>1, <1>2, <2>1, TransitionGoes DEF EnterRetrying, Await, Lifecycle, RetryBatch
  <2>2. CASE ChargeBatch(w)
    BY <1>1, <1>2, <2>2 DEF ChargeBatch, Await
  <2> QED
    BY <2>1, <2>2
<1>4. LiveStep
  BY <1>1, <1>2, <1>3 DEF LiveStep, StageIs, Saving, Handler
<1>5. Logged' = Logged
  BY <1>3 DEF Logged
<1>6. SignalsDecrypted' /\ ReplaysTheLog'
  <2>1. \A v \in Worker : batch'[v] = batch[v] \/ batch'[v] \subseteq Logged'
    BY <1>1, <1>3, <1>5 DEF ParkedIsLogged
  <2>2. pc'["chain"] = "append" => pc["chain"] = "append"
    BY <1>1, <1>2, <1>3
  <2> QED
    BY <1>2, <1>3, <1>5, <2>1, <2>2, SignalsKept
<1> QED
  BY <1>4, <1>6, CoverLive

\* The pass resumed takes back its stream.
LEMMA CoverEndOfPass ==
  ASSUME LossInv, Parking, Covering, TypeOK', NEW w \in Worker, failures' = 0, EndOfPass(w)
  PROVE Covering'
<1>1. /\ TypeOK /\ SignalsDecrypted /\ ReplaysTheLog /\ pc \in [Worker -> PC]
      /\ frames \in [Worker -> Seq(Frame)] /\ stream \in [Worker -> Seq(IngestSignal)]
      /\ Worker = {"chain", "cutover"} /\ StageIs
  BY CoverIs, CoverTypes
<1>2. pc[w] = "loop" /\ lifecycle \in {"live", "retrying_deferred"}
  BY PassStage DEF EndOfPass
<1>3. /\ UNCHANGED <<seqOf, accepted, deferred, deferredIds, ids, lastIngestedSeq, serialQueue,
                     liveBuffer, job, rejected, evicted, interrupted, orphaned, consumed, batch>>
      /\ lifecycle' \in {"live", "retrying_deferred"}
      /\ checkpoint' = checkpoint \/ checkpoint' = Snapshot'
      /\ pc'[w] \in {"prune", "idle", "pass"}
      /\ \A v \in Worker \ {w} : pc'[v] = pc[v] /\ stream'[v] = stream[v] /\ frames'[v] = frames[v]
      /\ \/ stream'[w] = stream[w] /\ frames'[w] = frames[w]
         \/ /\ frames[w] # <<>>
            /\ stream'[w] = Head(frames[w]).stream /\ frames'[w] = Tail(frames[w])
  BY <1>1, <1>2, TransitionGoes DEF EndOfPass, LeavePass, Await, Lifecycle
<1>4. LiveStep
  BY <1>1, <1>2, <1>3 DEF LiveStep, StageIs, Saving, Handler
<1>5. /\ Entries(stream'[w]) \subseteq Entries(stream[w]) \union Suspended(frames[w])
      /\ Suspended(frames'[w]) \subseteq Suspended(frames[w])
  BY <1>1, <1>3, SuspendedPopped
<1>6. Logged' = Logged /\ \A s : Decrypted(s)' <=> Decrypted(s)
  BY <1>3 DEF Logged, Decrypted
<1>7. SignalsDecrypted'
  BY <1>1, <1>3, <1>5, <1>6 DEF SignalsDecrypted
<1>8. ReplaysTheLog'
  <2>1. /\ lifecycle \notin {"recovering", "catching_up"}
        /\ lifecycle' \notin {"recovering", "catching_up"}
    BY <1>2, <1>3
  <2> QED
    BY <1>1, <1>3, <1>5, <1>6, <2>1 DEF ReplaysTheLog
<1> QED
  BY <1>4, <1>7, <1>8, CoverLive

\* The pass that takes a signal handles it or suspends itself.
LEMMA CoverNextRetried ==
  ASSUME LossInv, Parking, Covering, TypeOK', NEW w \in Worker, NextRetried(w)
  PROVE Covering'
<1>1. /\ TypeOK /\ SignalsDecrypted /\ ReplaysTheLog /\ pc \in [Worker -> PC]
      /\ job \in [Worker -> Job]
      /\ frames \in [Worker -> Seq(Frame)] /\ stream \in [Worker -> Seq(IngestSignal)]
      /\ Worker = {"chain", "cutover"} /\ StageIs
  BY CoverIs, CoverTypes
<1>2. pc[w] = "pass" /\ lifecycle \in {"live", "retrying_deferred"}
  BY PassStage DEF NextRetried
<1> DEFINE fr == [stream |-> Tail(stream[w]), entered |-> entered[w]]
<1>3. /\ UNCHANGED <<seqOf, accepted, deferred, deferredIds, ids, lastIngestedSeq, serialQueue,
                     liveBuffer, rejected, evicted, interrupted, orphaned, consumed, batch, lifecycle,
                     checkpoint>>
      /\ \A v \in Worker \ {w} : /\ pc'[v] = pc[v] /\ job'[v] = job[v]
                                 /\ stream'[v] = stream[v] /\ frames'[v] = frames[v]
      /\ pc'[w] \in {"exhausted", "append", "prune", "pass"}
      /\ \/ job'[w] = job[w] /\ pc'[w] # "append"
         \/ /\ stream[w] # <<>> /\ job'[w] = [kind |-> Head(stream[w]).kind,
                                 fact |-> Head(stream[w]).fact, retry |-> TRUE]
      /\ \/ stream'[w] \in {stream[w], <<>>}
         \/ stream[w] # <<>> /\ stream'[w] = Tail(stream[w])
      /\ frames'[w] = frames[w] \/ (stream[w] # <<>> /\ frames'[w] = <<fr>> \o frames[w])
  <2>1. CASE stream[w] = <<>>
    BY <1>1, <1>2, <2>1 DEF NextRetried, Await
  <2>2. CASE stream[w] # <<>> /\ Head(stream[w]).kind # "epoch_advanced"
    BY <1>1, <1>2, <2>2 DEF NextRetried, Await
  <2>3. CASE stream[w] # <<>> /\ Head(stream[w]).kind = "epoch_advanced"
    BY <1>1, <1>2, <2>3 DEF NextRetried, HandleEpochAdvanced, EnterPass, Await
  <2> QED
    BY <2>1, <2>2, <2>3
<1>4. stream[w] # <<>> => fr \in Frame
  BY <1>1 DEF Frame, TypeOK, PassTyped
<1>5. fr.stream = Tail(stream[w])
  OBVIOUS
<1> HIDE DEF fr
<1>6. stream[w] # <<>> => Entries(stream[w]) = {Head(stream[w])} \union Entries(Tail(stream[w]))
  BY <1>1, EntriesRest
<1>7. /\ Entries(stream'[w]) \subseteq Entries(stream[w])
      /\ Suspended(frames'[w]) \subseteq Entries(stream[w]) \union Suspended(frames[w])
  <2>1. Entries(<<>>) = {}
    BY EntriesFew
  <2>2. stream[w] # <<>> =>
          Suspended(<<fr>> \o frames[w]) = Entries(fr.stream) \union Suspended(frames[w])
    <3>1. frames[w] \in Seq(Frame)
      BY <1>1
    <3> QED
      BY <1>4, <3>1, SuspendedPushed
  <2> QED
    BY <1>3, <1>5, <1>6, <2>1, <2>2
<1>8. job'[w] = job[w] \/ \E s \in Entries(stream[w]) :
        job'[w].kind = s.kind /\ job'[w].fact = s.fact /\ job'[w].retry
  BY <1>3, <1>6
<1>9. LiveStep
  <2>1. job'[w].retry \/ pc'[w] # "append"
    BY <1>3
  <2> QED
    BY <1>1, <1>2, <1>3, <2>1 DEF LiveStep, StageIs, Saving, Handler
<1>10. Logged' = Logged /\ \A s : Decrypted(s)' <=> Decrypted(s)
  BY <1>3 DEF Logged, Decrypted
<1>11. SignalsDecrypted'
  <2>1. Decrypted(job[w]) /\ \A s \in Entries(stream[w]) \union Suspended(frames[w]) : Decrypted(s)
    BY <1>1 DEF SignalsDecrypted
  <2>2. Decrypted(job'[w])
    BY <1>8, <2>1 DEF Decrypted
  <2>3. Decrypted(job[w])'
    BY <1>3, <2>2 DEF Decrypted
  <2> QED
    BY <1>1, <1>3, <1>7, <1>10, <2>1, <2>3 DEF SignalsDecrypted
<1>12. ReplaysTheLog'
  <2>1. /\ lifecycle \notin {"recovering", "catching_up"}
        /\ lifecycle' \notin {"recovering", "catching_up"}
    BY <1>2, <1>3
  <2>2. /\ \A s \in Entries(stream[w]) \union Suspended(frames[w]) : s.fact \in Logged
        /\ job[w].retry => job[w].fact \in Logged
    BY <1>1, <2>1 DEF ReplaysTheLog
  <2> QED
    BY <1>1, <1>3, <1>7, <1>8, <1>10, <2>1, <2>2 DEF ReplaysTheLog
<1> QED
  BY <1>9, <1>11, <1>12, CoverLive

\* A step of the FIFO while the engine waits for R1..R2 or the bootstrap.
LEMMA TracksWaiting ==
  ASSUME LossInv, Parking, Covering, TypeOK', Parking', LastingOutcomes, ~Ready, ~Ready',
         UNCHANGED <<seqOf, deferredIds, checkpoint, lifecycle>>,
         \A f \in Task :
           \/ Resolved(f)'
           \/ Newest(f) /\ lastIngestedSeq < seqOf[f] => lastIngestedSeq' < seqOf[f]
  PROVE SavesCover' /\ ParksTheNewest' /\ TracksTheLog'
<1>1. TracksTheLog /\ WaitsForQueue' /\ Worker = {"chain", "cutover"}
  BY CoverIs, CoverTypes DEF Parking
<1>2. \A v \in Worker : ~Saving(v)'
  BY <1>1 DEF WaitsForQueue, Saving
<1>3. \A f : ~Parks(f)'
  BY <1>1 DEF WaitsForQueue, Parks
<1>4. SavesCover' /\ ParksTheNewest'
  BY <1>1, <1>2, <1>3 DEF SavesCover, ParksTheNewest
<1>5. ASSUME NEW f \in Task \intersect Logged' PROVE Awaited(f)'
  <2>1. f \in Task \intersect Logged /\ Awaited(f)
    BY <1>1 DEF Logged, TracksTheLog
  <2>2. Newest(f)' <=> Newest(f)
    BY DEF Newest
  <2>3. Covered(f)' <=> Covered(f)
    BY DEF Covered
  <2> QED
    BY <2>1, <2>2, <2>3, ResolvedStays DEF Awaited
<1> QED
  BY <1>4, <1>5 DEF TracksTheLog

\* A write of the accepted log lands.
LEMMA CoverAccept ==
  ASSUME LossInv, Parking, Covering, TypeOK', Parking', NEW w \in Worker,
         AcceptEvent(w) \/ AcceptDeferredAppend(w)
  PROVE Covering'
<1>0. SUFFICES ASSUME NEW g, g = job[w].fact PROVE Covering'
  OBVIOUS
<1>1. /\ TypeOK /\ StageIs /\ LedgerInv /\ pc \in [Worker -> PC] /\ job \in [Worker -> Job]
      /\ "chain" \in Worker /\ "cutover" \in Worker /\ Worker = {"chain", "cutover"}
      /\ lastIngestedSeq \in Nat /\ WaitsForQueue /\ seqOf \in [Fact -> Nat]
  BY CoverIs, CoverTypes
<1>2. /\ UNCHANGED <<seqOf, deferredIds, checkpoint, lifecycle, deferred, serialQueue,
                     liveBuffer, ids, batch, stream, frames, consumed, rejected, evicted,
                     interrupted, orphaned>>
      /\ pc[w] \in {"accept", "acceptDeferred"} /\ AppendAcceptedEvent(g) /\ g \in Source
      /\ \A v \in Worker \ {w} : pc'[v] = pc[v] /\ job'[v] = job[v]
      /\ \/ pc'[w] = "unpark" /\ job'[w] = job[w]
         \/ /\ pc'[w] = IF job[w].retry THEN "pass" ELSE "idle"
            /\ job'[w] = IdleJob
      /\ \/ lastIngestedSeq' = lastIngestedSeq
         \/ g \in Fact /\ AdvanceWatermark(seqOf[g])
  <2>1. g \in Source
    BY <1>0, <1>1, JobSource
  <2>2. CASE AcceptEvent(w)
    BY <1>0, <1>1, <2>1, <2>2 DEF AcceptEvent, EmitAccepted, Return, Await
  <2>3. CASE AcceptDeferredAppend(w)
    BY <1>0, <1>1, <2>1, <2>3 DEF AcceptDeferredAppend, Await
  <2> QED
    BY <2>2, <2>3
<1>3. EventOf[g] \in AcceptedEvents' /\ AcceptedEvents \subseteq AcceptedEvents'
  BY <1>1, <1>2, AppendAcceptedAdds
<1>4. LastingOutcomes /\ Logged' = Logged
  BY <1>2, <1>3 DEF LastingOutcomes, Logged
<1>5. /\ lastIngestedSeq <= lastIngestedSeq'
      /\ lastIngestedSeq' = lastIngestedSeq \/ (g \in Fact /\ lastIngestedSeq' = seqOf[g])
  <2>1. CASE lastIngestedSeq' = lastIngestedSeq
    BY <1>1, <2>1
  <2>2. CASE g \in Fact /\ AdvanceWatermark(seqOf[g])
    <3>1. seqOf[g] \in Nat
      BY <1>1, <2>2
    <3> QED
      BY <1>1, <2>2, <3>1, AdvanceRaises
  <2> QED
    BY <1>2, <2>1, <2>2
<1>6. \A f \in Task : \/ Resolved(f)'
                      \/ Newest(f) /\ lastIngestedSeq < seqOf[f] => lastIngestedSeq' < seqOf[f]
  <2> SUFFICES ASSUME NEW f \in Task, f # g, Newest(f), lastIngestedSeq < seqOf[f]
               PROVE lastIngestedSeq' < seqOf[f]
    BY <1>3 DEF Resolved
  <2> QED
    BY <1>5 DEF Newest
<1>7. w = "cutover" \/ job[w].retry => lifecycle \in {"live", "retrying_deferred"}
  BY <1>2, PassStage DEF Handler
<1>8. lifecycle # "down"
  BY <1>1, <1>2 DEF LedgerInv, DownIsIdle
<1>9. SignalsDecrypted' /\ ReplaysTheLog'
  <2>1. pc'["chain"] = "append" => pc["chain"] = "append" /\ job'["chain"] = job["chain"]
    BY <1>1, <1>2
  <2>2. \A v \in Worker : job'[v] = job[v] \/ job'[v] = IdleJob
    BY <1>2
  <2> QED
    BY <1>2, <1>4, <2>1, <2>2, SignalsKept DEF LastingOutcomes
<1>10. LogsAgree'
  BY <1>2, <1>5, <1>8, LogsKept
<1>11. StageIs'
  <2>1. ~IdleJob.retry
    BY DEF IdleJob
  <2>2. CASE w = "cutover"
    BY <1>1, <1>2, <1>7, <2>2 DEF StageIs, Handler
  <2>3. CASE w = "chain"
    BY <1>1, <1>2, <1>7, <2>1, <2>3 DEF StageIs, Handler
  <2> QED
    BY <1>1, <2>2, <2>3
<1>12. SavesCover' /\ ParksTheNewest' /\ TracksTheLog'
  <2>1. CASE Ready
    <3>1. Ready'
      BY <1>1, <1>2, <2>1 DEF Ready
    <3>2. \A v \in Worker : \/ ~Saving(v) /\ ~Saving(v)'
                            \/ pc'[v] = pc[v] /\ job'[v] = job[v] /\ batch'[v] = batch[v]
      BY <1>2 DEF Saving
    <3>3. \A f \in Task : lifecycle = "recovering" /\ Unreplayed(f) =>
            \/ Resolved(f)'
            \/ /\ lifecycle' = "recovering" /\ Unreplayed(f)'
               /\ Newest(f) /\ lastIngestedSeq < seqOf[f] => lastIngestedSeq' < seqOf[f]
      <4> SUFFICES ASSUME NEW f \in Task, lifecycle = "recovering", Unreplayed(f)
                   PROVE Unreplayed(f)'
        BY <1>2, <1>6
      <4> QED
        BY <1>1, <1>2 DEF Unreplayed
    <3> QED
      BY <1>2, <1>4, <1>5, <2>1, <3>1, <3>2, <3>3, TracksSteady
  <2>2. CASE ~Ready
    <3>1. w = "chain"
      BY <1>1, <1>2, <2>2 DEF WaitsForQueue
    <3>2. ~Ready'
      BY <1>1, <1>2, <2>2, <3>1 DEF Ready
    <3> QED
      BY <1>2, <1>4, <1>6, <2>2, <3>2, TracksWaiting
  <2> QED
    BY <2>1, <2>2
<1> QED
  BY <1>9, <1>10, <1>11, <1>12 DEF Covering

\* A pass entered from the FIFO or from start() suspends none.
LEMMA EntersOutermost ==
  ASSUME LossInv, Parking, Covering, NEW w \in Worker, EnterPass(w, <<>>)
  PROVE frames' = frames
<1>1. frames \in [Worker -> Seq(Frame)]
  BY CoverIs, CoverTypes
<1>2. frames[w] \in Seq(Frame)
  BY <1>1
<1>3. <<>> \o frames[w] = frames[w]
  BY <1>2
<1> QED
  BY <1>1, <1>3 DEF EnterPass

\* start() consumes the latch.
LEMMA CoverLatch ==
  ASSUME LossInv, Parking, Covering, TypeOK', ConsumeLatch
  PROVE Covering'
<1>1. /\ pc \in [Worker -> PC] /\ StageIs /\ PhaseIs /\ LedgerInv /\ lifecycle \in Lifecycle
      /\ "chain" \in Worker /\ "cutover" \in Worker
  BY CoverIs, CoverTypes
<1>2. lifecycle \in {"live", "retrying_deferred"}
  BY <1>1 DEF ConsumeLatch, StageIs, PhaseIs, Lifecycle, LedgerInv, DownIsIdle
<1>3. frames' = frames
  BY <1>1, EntersOutermost DEF ConsumeLatch
<1>4. /\ pc'["cutover"] \in {"idle", "prune"} /\ \A v \in Worker \ {"cutover"} : pc'[v] = pc[v]
  BY <1>1 DEF ConsumeLatch, EnterPass, Await
<1>5. LiveStep
  BY <1>1, <1>2, <1>4 DEF LiveStep, ConsumeLatch, Saving, Handler
<1>6. SignalsDecrypted' /\ ReplaysTheLog'
  <2>1. Logged' = Logged
    BY DEF ConsumeLatch, Logged
  <2>2. pc'["chain"] = pc["chain"]
    BY <1>1, <1>4
  <2> QED
    BY <1>3, <2>1, <2>2, SignalsKept DEF ConsumeLatch
<1> QED
  BY <1>5, <1>6, CoverLive

\* The adapter's batch of a pass, of R3 or of catchUp.
LEMMA CoverIngest ==
  ASSUME LossInv, Parking, Covering, TypeOK', NEW w \in Worker, IngestBatch(w)
  PROVE Covering'
<1>1. /\ TypeOK /\ SignalsDecrypted /\ ReplaysTheLog /\ StageIs /\ LedgerInv
      /\ pc \in [Worker -> PC] /\ batch \in [Worker -> SUBSET Fact]
      /\ stream \in [Worker -> Seq(IngestSignal)] /\ consumed \in SUBSET Fact
      /\ "chain" \in Worker /\ "cutover" \in Worker /\ Worker = {"chain", "cutover"}
      /\ lastIngestedSeq \in Nat
  BY CoverIs, CoverTypes DEF TypeOK, GroupTyped
<1>2. pc[w] = "ingest" /\ Ready /\ lifecycle \notin {"down", "joining"}
  <2>1. pc[w] = "ingest"
    BY DEF IngestBatch
  <2> QED
    BY <1>1, <2>1, BusyIsReady
<1>3. w = "chain" => lifecycle \in {"live", "retrying_deferred"}
  BY <1>2, PassStage
<1>4. UNCHANGED <<seqOf, accepted, deferredIds, checkpoint, lifecycle, deferred, lastIngestedSeq,
                  serialQueue, liveBuffer, job, ids, frames, rejected, evicted, interrupted, orphaned>>
  BY DEF IngestBatch
<1>5. Logged' = Logged
  BY <1>4 DEF Logged
<1>6. LogsAgree'
  BY <1>1, <1>2, <1>4, LogsKept
<1>7. CASE batch[w] = {}
  <2>1. /\ UNCHANGED <<batch, stream, consumed>>
        /\ pc'[w] = IF Draining(w) THEN "drain" ELSE "pass"
        /\ \A v \in Worker \ {w} : pc'[v] = pc[v]
    BY <1>1, <1>7 DEF IngestBatch, NextOfBatch, Await
  <2>2. SignalsDecrypted' /\ ReplaysTheLog'
    <3>1. pc'["chain"] = "append" => pc["chain"] = "append"
      BY <1>1, <2>1
    <3> QED
      BY <1>4, <1>5, <2>1, <3>1, SignalsKept
  <2>3. StageIs'
    BY <1>1, <1>2, <1>3, <1>4, <1>7, <2>1 DEF StageIs, Draining, Handler
  <2>4. Ready' /\ LastingOutcomes
    BY <1>1, <1>2, <1>4, <2>1 DEF Ready, LastingOutcomes, AcceptedEvents
  <2>5. \A f : Unreplayed(f) => Unreplayed(f)'
    BY <1>1, <1>2, <1>4, <2>1 DEF Unreplayed
  <2>6. \A v \in Worker : \/ ~Saving(v) /\ ~Saving(v)'
                          \/ pc'[v] = pc[v] /\ job'[v] = job[v] /\ batch'[v] = batch[v]
    BY <1>1, <1>2, <1>4, <2>1 DEF Saving
  <2>7. SavesCover' /\ ParksTheNewest' /\ TracksTheLog'
    BY <1>1, <1>2, <1>4, <2>4, <2>5, <2>6, TracksSteady
  <2> QED
    BY <1>6, <2>2, <2>3, <2>7 DEF Covering
<1>8. ASSUME NEW x \in batch[w], Ingest(x),
             stream' = [stream EXCEPT ![w] = Append(@, Ingested(x))],
             batch' = [batch EXCEPT ![w] = @ \ {x}], pc' = pc
      PROVE Covering'
  <2>0. SUFFICES ASSUME NEW sig, sig = Ingested(x) PROVE Covering'
    OBVIOUS
  <2>1. /\ x \in Fact /\ sig \in IngestSignal /\ sig.fact = x /\ consumed \subseteq consumed'
        /\ sig = [kind |-> "deferred", fact |-> x] \/ x \in consumed'
        /\ sig.kind = "deferred" \/ x \in consumed'
    BY <1>1, <1>8, <2>0, IngestTyped DEF Ingest, Ingested
  <2>2. stream[w] \in Seq(IngestSignal) /\ stream'[w] = Append(stream[w], sig)
    BY <1>1, <1>8, <2>0
  <2>3. \A v \in Worker \ {w} : stream'[v] = stream[v] /\ batch'[v] = batch[v]
    BY <1>1, <1>8
  <2>4. batch'[w] = batch[w] \ {x}
    BY <1>1, <1>8
  <2>5. Entries(stream'[w]) = Entries(stream[w]) \union {sig}
    BY <2>1, <2>2, EntriesAppended
  <2>6. \A s : Decrypted(s) => Decrypted(s)'
    BY <2>1 DEF Decrypted
  <2>7. Decrypted(sig)'
    BY <2>1 DEF Decrypted
  <2>8. SignalsDecrypted'
    <3>1. \A s \in Entries(serialQueue') \union Entries(liveBuffer') : Decrypted(s)'
      BY <1>1, <1>4, <2>6 DEF SignalsDecrypted
    <3>2. ASSUME NEW v \in Worker
          PROVE /\ Decrypted(job[v])'
                /\ \A s \in Entries(stream'[v]) \union Suspended(frames'[v]) : Decrypted(s)'
      <4>1. /\ Decrypted(job[v])
            /\ \A s \in Entries(stream[v]) \union Suspended(frames[v]) : Decrypted(s)
        BY <1>1 DEF SignalsDecrypted
      <4>2. Decrypted(job[v])'
        BY <1>4, <2>1, <4>1 DEF Decrypted
      <4> QED
        BY <1>4, <2>3, <2>5, <2>6, <2>7, <4>1, <4>2
    <3> QED
      BY <3>1, <3>2 DEF SignalsDecrypted
  <2>9. ReplaysTheLog'
    <3>1. ASSUME ~(w = "cutover" /\ lifecycle = "catching_up")
          PROVE batch'[w] \subseteq Logged' /\ \A s \in Entries(stream'[w]) : s.fact \in Logged'
      BY <1>1, <1>5, <1>8, <2>1, <2>4, <2>5, <3>1 DEF ReplaysTheLog
    <3> QED
      BY <1>1, <1>4, <1>5, <1>8, <2>3, <3>1 DEF ReplaysTheLog
  <2>10. StageIs'
    BY <1>1, <1>2, <1>4, <1>8, <2>3 DEF StageIs
  <2>11. Ready' /\ LastingOutcomes
    BY <1>2, <1>4, <1>8, <2>1 DEF Ready, LastingOutcomes, AcceptedEvents
  <2>12. ASSUME NEW f \in Task, lifecycle = "recovering", Unreplayed(f)
         PROVE Resolved(f)' \/ Unreplayed(f)'
    <3>1. w = "cutover"
      BY <1>1, <1>3, <2>12
    <3>2. CASE f = x
      BY <2>1, <2>5, <3>1, <3>2 DEF Unreplayed, Resolved
    <3>3. CASE f # x
      BY <1>4, <1>8, <2>4, <2>5, <2>12, <3>1, <3>3 DEF Unreplayed
    <3> QED
      BY <3>2, <3>3
  <2>13. \A v \in Worker : \/ ~Saving(v) /\ ~Saving(v)'
                           \/ pc'[v] = pc[v] /\ job'[v] = job[v] /\ batch'[v] = batch[v]
    BY <1>2, <1>4, <1>8, <2>3 DEF Saving
  <2>14. SavesCover' /\ ParksTheNewest' /\ TracksTheLog'
    BY <1>1, <1>2, <1>4, <2>11, <2>12, <2>13, TracksSteady
  <2> QED
    BY <1>6, <2>8, <2>9, <2>10, <2>14 DEF Covering
<1> QED
  BY <1>7, <1>8 DEF IngestBatch, NextOfBatch

\* The head of the FIFO starts.
LEMMA CoverStartJob ==
  ASSUME LossInv, Parking, Covering, TypeOK', Parking', StartJob
  PROVE Covering'
<1>1. /\ TypeOK /\ SignalsDecrypted /\ ReplaysTheLog /\ StageIs /\ LedgerInv
      /\ pc \in [Worker -> PC] /\ job \in [Worker -> Job] /\ serialQueue \in Seq(Signal)
      /\ "chain" \in Worker /\ "cutover" \in Worker /\ Worker = {"chain", "cutover"}
      /\ lastIngestedSeq \in Nat
  BY CoverIs, CoverTypes
<1> DEFINE s == Head(serialQueue)
           rest == Tail(serialQueue)
<1>2. /\ pc["chain"] = "idle" /\ serialQueue # <<>> /\ serialQueue' = rest
      /\ lifecycle # "down"
  BY <1>1 DEF StartJob, LedgerInv, DownIsIdle
<1>3. Entries(serialQueue) = {s} \union Entries(rest)
  BY <1>1, <1>2, EntriesRest
<1>4. /\ UNCHANGED <<seqOf, accepted, deferredIds, checkpoint, lifecycle, deferred,
                     lastIngestedSeq, liveBuffer, ids, batch, stream, consumed, rejected,
                     evicted, interrupted, orphaned>>
      /\ \A v \in Worker \ {"chain"} : pc'[v] = pc[v] /\ job'[v] = job[v]
      /\ \/ /\ pc'["chain"] = "append" /\ s.kind # "local" /\ s.kind # "epoch_advanced"
            /\ job'["chain"] = [kind |-> s.kind, fact |-> s.fact, retry |-> FALSE]
            /\ frames' = frames
         \/ /\ pc'["chain"] = "accept" /\ s.kind = "local" /\ frames' = frames
            /\ job'["chain"] = [kind |-> s.kind, fact |-> s.fact, retry |-> FALSE]
         \/ /\ pc'["chain"] = "idle" /\ job'["chain"] = job["chain"] /\ frames' = frames
            /\ s.kind \in {"local", "epoch_advanced"}
         \/ /\ s.kind = "epoch_advanced" /\ lifecycle = "live"
            /\ job'["chain"] = job["chain"] /\ EnterPass("chain", <<>>)
  <2>1. CASE s.kind = "epoch_advanced"
    <3>1. HandleEpochAdvanced("chain", <<>>) /\ job' = job
      BY <2>1 DEF StartJob
    <3>2. \A v \in Worker \ {"chain"} : pc'[v] = pc[v]
      BY <1>1, <3>1 DEF HandleEpochAdvanced, EnterPass, Await
    <3> QED
      BY <1>2, <2>1, <3>1, <3>2 DEF StartJob, HandleEpochAdvanced
  <2>2. CASE s.kind # "epoch_advanced"
    <3>1. /\ frames' = frames
          /\ \/ UNCHANGED <<pc, job>> /\ s.kind = "local"
             \/ /\ \/ s.kind # "local" /\ Await("chain", "append")
                   \/ s.kind = "local" /\ Await("chain", "accept")
                /\ job' = [job EXCEPT !["chain"] =
                             [kind |-> s.kind, fact |-> s.fact, retry |-> FALSE]]
      BY <2>2 DEF StartJob
    <3>2. UNCHANGED <<seqOf, accepted, deferredIds, checkpoint, lifecycle, deferred,
                      lastIngestedSeq, liveBuffer, ids, batch, stream, consumed, rejected,
                      evicted, interrupted, orphaned>>
      BY DEF StartJob
    <3> HIDE DEF s
    <3>3. CASE UNCHANGED <<pc, job>> /\ s.kind = "local"
      BY <1>2, <3>1, <3>2, <3>3
    <3> DEFINE task == [kind |-> s.kind, fact |-> s.fact, retry |-> FALSE]
    <3>4. ASSUME NEW at, Await("chain", at), job' = [job EXCEPT !["chain"] = task]
          PROVE /\ pc'["chain"] = at /\ job'["chain"] = task
                /\ \A v \in Worker \ {"chain"} : pc'[v] = pc[v] /\ job'[v] = job[v]
      BY <1>1, <3>4 DEF Await
    <3>5. CASE s.kind # "local"
      BY <2>2, <3>1, <3>2, <3>4, <3>5
    <3>6. CASE s.kind = "local"
      BY <3>1, <3>2, <3>3, <3>4, <3>6
    <3> QED
      BY <3>5, <3>6
  <2> QED
    BY <2>1, <2>2
<1>5. frames' = frames /\ (EnterPass("chain", <<>>) => pc'["chain"] = "prune")
  BY <1>1, <1>4, EntersOutermost DEF EnterPass, Await
<1> HIDE DEF s, rest
<1>6. Logged' = Logged /\ LastingOutcomes /\ (\A x : Decrypted(x)' <=> Decrypted(x))
  BY <1>4 DEF Logged, LastingOutcomes, AcceptedEvents, Decrypted
<1>7. SignalsDecrypted'
  <2>1. Decrypted(s) /\ Decrypted(job["chain"])
    BY <1>1, <1>3 DEF SignalsDecrypted
  <2>2. Decrypted(job["chain"])'
    BY <1>4, <2>1 DEF Decrypted
  <2>3. Decrypted(job["cutover"])'
    BY <1>1, <1>4 DEF SignalsDecrypted, Decrypted
  <2> QED
    BY <1>1, <1>2, <1>3, <1>4, <1>5, <1>6, <2>2, <2>3 DEF SignalsDecrypted
<1>8. ReplaysTheLog'
  <2>1. job'["chain"].retry => job'["chain"].fact \in Logged
    BY <1>1, <1>4 DEF ReplaysTheLog
  <2>2. lifecycle = "recovering" => s.kind = "local" \/ s.fact \in Logged
    BY <1>1, <1>3 DEF ReplaysTheLog
  <2>3. lifecycle = "recovering" /\ pc'["chain"] = "append" => job'["chain"].fact \in Logged
    BY <1>4, <1>5, <2>2
  <2> QED
    BY <1>1, <1>2, <1>3, <1>4, <1>5, <1>6, <2>1, <2>3 DEF ReplaysTheLog
<1>9. LogsAgree'
  BY <1>1, <1>2, <1>4, LogsKept
<1>10. StageIs'
  BY <1>1, <1>2, <1>4, <1>5 DEF StageIs, Handler
<1>11. SavesCover' /\ ParksTheNewest' /\ TracksTheLog'
  <2>1. CASE Ready
    <3>1. Ready'
      BY <1>1, <1>4, <2>1 DEF Ready
    <3>2. \A v \in Worker : \/ ~Saving(v) /\ ~Saving(v)'
                            \/ pc'[v] = pc[v] /\ job'[v] = job[v] /\ batch'[v] = batch[v]
      BY <1>1, <1>2, <1>4, <1>5 DEF Saving
    <3>3. ASSUME NEW f, Unreplayed(f), lifecycle = "recovering" PROVE Unreplayed(f)'
      <4>1. [kind |-> "deferred", fact |-> f] = s =>
              /\ pc'["chain"] = "append"
              /\ job'["chain"].kind = "deferred" /\ job'["chain"].fact = f
        BY <1>4
      <4> QED
        BY <1>2, <1>3, <1>4, <3>3, <4>1 DEF Unreplayed
    <3> QED
      BY <1>1, <1>4, <1>6, <2>1, <3>1, <3>2, <3>3, TracksSteady
  <2>2. CASE ~Ready
    <3>1. ~Ready'
      BY <1>1, <1>4, <2>2 DEF Ready
    <3> QED
      BY <1>4, <1>6, <2>2, <3>1, TracksWaiting
  <2> QED
    BY <2>1, <2>2
<1> QED
  BY <1>7, <1>8, <1>9, <1>10, <1>11 DEF Covering

\* A step that only moves a signal between the queues, or puts a new one there.
LEMMA CoverQueues ==
  ASSUME LossInv, Parking, Covering, TypeOK', Parking', lifecycle # "down",
         UNCHANGED <<seqOf, accepted, deferredIds, checkpoint, lifecycle, deferred,
                     lastIngestedSeq, pc, job, ids, batch, frames, rejected, evicted,
                     interrupted, orphaned>>,
         consumed \subseteq consumed',
         \A w \in Worker : Entries(stream'[w]) \subseteq Entries(stream[w]),
         \A s \in Entries(serialQueue') \union Entries(liveBuffer') : Decrypted(s)',
         lifecycle = "recovering" =>
           /\ \A s \in Entries(serialQueue') : s.kind = "local" \/ s.fact \in Logged
           /\ \A f : Unreplayed(f) => Unreplayed(f)'
  PROVE Covering'
<1>1. SignalsDecrypted /\ ReplaysTheLog /\ StageIs /\ lastIngestedSeq \in Nat
  BY CoverIs, CoverTypes
<1>2. Logged' = Logged /\ LastingOutcomes /\ \A s : Decrypted(s) => Decrypted(s)'
  BY DEF Logged, LastingOutcomes, AcceptedEvents, Decrypted
<1>3. SignalsDecrypted'
  <2>1. ASSUME NEW w \in Worker
        PROVE /\ Decrypted(job[w])'
              /\ \A s \in Entries(stream'[w]) \union Suspended(frames'[w]) : Decrypted(s)'
    <3>1. /\ Decrypted(job[w])
          /\ \A s \in Entries(stream[w]) \union Suspended(frames[w]) : Decrypted(s)
      BY <1>1 DEF SignalsDecrypted
    <3>2. Decrypted(job[w])'
      BY <3>1 DEF Decrypted
    <3> QED
      BY <1>2, <3>1, <3>2
  <2> QED
    BY <2>1 DEF SignalsDecrypted
<1>4. ReplaysTheLog'
  BY <1>1, <1>2 DEF ReplaysTheLog
<1>5. StageIs'
  BY <1>1 DEF StageIs
<1>6. LogsAgree'
  BY <1>1, LogsKept
<1>7. SavesCover' /\ ParksTheNewest' /\ TracksTheLog'
  <2>1. Ready' <=> Ready
    BY DEF Ready
  <2>2. CASE Ready
    BY <1>1, <1>2, <2>1, <2>2, TracksSteady
  <2>3. CASE ~Ready
    BY <1>2, <2>1, <2>3, TracksWaiting
  <2> QED
    BY <2>2, <2>3
<1> QED
  BY <1>3, <1>4, <1>5, <1>6, <1>7 DEF Covering

\* Where the cutover tells the phase.
LEMMA CutoverStage ==
  ASSUME LossInv, Parking, Covering
  PROVE /\ pc["cutover"] = "drain" => lifecycle \in {"recovering", "catching_up"}
        /\ pc["cutover"] = "catchUp" => lifecycle = "catching_up"
        /\ pc["cutover"] = "buffer" => lifecycle = "buffering_live"
<1>1. /\ LedgerInv /\ StageIs /\ PhaseIs /\ lifecycle \in Lifecycle /\ "cutover" \in Worker
  BY CoverIs, CoverTypes
<1>2. lifecycle = "down" => pc["cutover"] = "idle"
  BY <1>1 DEF LedgerInv, DownIsIdle
<1>3. lifecycle = "joining" => pc["cutover"] = "bootstrap"
  BY <1>1 DEF PhaseIs
<1> QED
  BY <1>1, <1>2, <1>3 DEF StageIs, Lifecycle

\* R3 and catchUp hand a yielded signal to the FIFO.
LEMMA CoverDrainNext ==
  ASSUME LossInv, Parking, Covering, TypeOK', Parking', DrainNext
  PROVE Covering'
<1>0. SUFFICES ASSUME NEW s, s = Head(stream["cutover"]) PROVE Covering'
  OBVIOUS
<1>1. /\ SignalsDecrypted /\ ReplaysTheLog
      /\ stream \in [Worker -> Seq(IngestSignal)] /\ "cutover" \in Worker
      /\ lifecycle \in {"recovering", "catching_up"}
  BY CoverIs, CoverTypes, CutoverStage DEF DrainNext
<1> DEFINE old == stream["cutover"]
           rest == Tail(old)
<1>2. old \in Seq(IngestSignal) /\ old # <<>>
  BY <1>1 DEF DrainNext
<1>3. /\ serialQueue = <<>> /\ serialQueue' = <<s>> /\ stream'["cutover"] = rest
      /\ \A w \in Worker \ {"cutover"} : stream'[w] = stream[w]
      /\ UNCHANGED <<liveBuffer, consumed>>
  BY <1>0, <1>1 DEF DrainNext, Drained
<1>4. Entries(stream["cutover"]) = {s} \union Entries(rest)
  BY <1>0, <1>2, EntriesRest
<1> HIDE DEF old, rest
<1>5. Entries(serialQueue') = {s} /\ Entries(serialQueue) = {}
  BY <1>3, EntriesFew
<1>6. Decrypted(s) /\ \A x \in Entries(liveBuffer) : Decrypted(x)
  BY <1>1, <1>4 DEF SignalsDecrypted
<1>7. \A x : Decrypted(x) => Decrypted(x)'
  BY <1>3 DEF Decrypted
<1>8. \A x \in Entries(serialQueue') \union Entries(liveBuffer') : Decrypted(x)'
  BY <1>3, <1>5, <1>6, <1>7
<1>9. lifecycle = "recovering" => s.fact \in Logged
  BY <1>1, <1>4 DEF ReplaysTheLog
<1>10. \A f : Unreplayed(f) => Unreplayed(f)'
  BY <1>3, <1>4, <1>5 DEF Unreplayed, DrainNext
<1>11. \A w \in Worker : Entries(stream'[w]) \subseteq Entries(stream[w])
  BY <1>3, <1>4
<1> QED
  BY <1>1, <1>3, <1>5, <1>8, <1>9, <1>10, <1>11, CoverQueues DEF DrainNext

\* The cutover takes a buffered signal to the FIFO.
LEMMA CoverDrainBuffered ==
  ASSUME LossInv, Parking, Covering, TypeOK', Parking', DrainBuffered
  PROVE Covering'
<1>0. SUFFICES ASSUME NEW s, s = Head(liveBuffer) PROVE Covering'
  OBVIOUS
<1>1. /\ SignalsDecrypted /\ liveBuffer \in Seq(IngestSignal)
      /\ lifecycle = "buffering_live"
  BY CoverIs, CoverTypes, CutoverStage DEF DrainBuffered
<1> DEFINE rest == Tail(liveBuffer)
<1>2. Entries(liveBuffer) = {s} \union Entries(rest)
  BY <1>0, <1>1, EntriesRest DEF DrainBuffered
<1>3. serialQueue' = <<s>> /\ liveBuffer' = rest /\ UNCHANGED <<stream, consumed>>
  BY <1>0 DEF DrainBuffered
<1> HIDE DEF rest
<1>4. Entries(serialQueue') = {s} /\ Entries(liveBuffer') = Entries(rest)
  BY <1>3, EntriesFew
<1>5. \A x \in Entries(serialQueue') \union Entries(liveBuffer') : Decrypted(x)
  BY <1>1, <1>2, <1>4 DEF SignalsDecrypted
<1>6. \A x : Decrypted(x) => Decrypted(x)'
  BY <1>3 DEF Decrypted
<1> QED
  BY <1>1, <1>3, <1>5, <1>6, CoverQueues DEF DrainBuffered

\* A pushed envelope is decrypted as it is queued.
LEMMA CoverDeliverLive ==
  ASSUME LossInv, Parking, Covering, TypeOK', Parking', NEW x \in Fact, DeliverLive(x)
  PROVE Covering'
<1>0. SUFFICES ASSUME NEW s, s = Ingested(x) PROVE Covering'
  OBVIOUS
<1>1. /\ SignalsDecrypted /\ liveBuffer \in Seq(IngestSignal) /\ serialQueue \in Seq(Signal)
      /\ TypeOK /\ consumed \in SUBSET Fact
  BY CoverIs, CoverTypes DEF TypeOK, GroupTyped
<1>2. /\ s \in IngestSignal /\ s \in Signal /\ consumed \subseteq consumed'
      /\ s.fact = x /\ (s.kind = "deferred" \/ x \in consumed')
  BY <1>0, <1>1, IngestTyped DEF DeliverLive, Ingest, Ingested, Signal
<1>3. \/ liveBuffer' = Append(liveBuffer, s) /\ serialQueue' = serialQueue
      \/ serialQueue' = Append(serialQueue, s) /\ liveBuffer' = liveBuffer
  BY <1>0 DEF DeliverLive
<1>4. Entries(serialQueue') \union Entries(liveBuffer')
        = Entries(serialQueue) \union Entries(liveBuffer) \union {s}
  <2>1. /\ Entries(Append(liveBuffer, s)) = Entries(liveBuffer) \union {s}
        /\ Entries(Append(serialQueue, s)) = Entries(serialQueue) \union {s}
    BY <1>1, <1>2, EntriesAppended
  <2> QED
    BY <1>3, <2>1
<1>5. \A y : Decrypted(y) => Decrypted(y)'
  BY <1>2 DEF Decrypted
<1>6. Decrypted(s)'
  BY <1>2 DEF Decrypted
<1>7. \A y \in Entries(serialQueue') \union Entries(liveBuffer') : Decrypted(y)'
  BY <1>1, <1>4, <1>5, <1>6 DEF SignalsDecrypted
<1> QED
  BY <1>2, <1>7, CoverQueues DEF DeliverLive

\* A local edit may be queued in every phase.
LEMMA CoverAcceptLocal ==
  ASSUME LossInv, Parking, Covering, TypeOK', Parking', NEW edit \in Local, AcceptLocal(edit)
  PROVE Covering'
<1>0. SUFFICES ASSUME NEW s, s = [kind |-> "local", fact |-> edit] PROVE Covering'
  OBVIOUS
<1>1. /\ SignalsDecrypted /\ ReplaysTheLog /\ serialQueue \in Seq(Signal)
      /\ s \in Signal /\ s.kind = "local"
  BY <1>0, CoverIs, CoverTypes DEF Signal
<1>2. serialQueue' = Append(serialQueue, s) /\ UNCHANGED <<liveBuffer, stream, consumed>>
  BY <1>0 DEF AcceptLocal
<1>3. Entries(serialQueue') = Entries(serialQueue) \union {s}
  BY <1>1, <1>2, EntriesAppended
<1>4. \A y : Decrypted(y) => Decrypted(y)'
  BY <1>2 DEF Decrypted
<1>5. Decrypted(s)
  BY <1>1 DEF Decrypted
<1>6. \A y \in Entries(serialQueue') \union Entries(liveBuffer') : Decrypted(y)'
  BY <1>1, <1>2, <1>3, <1>4, <1>5 DEF SignalsDecrypted
<1>7. lifecycle = "recovering" =>
        \A y \in Entries(serialQueue') : y.kind = "local" \/ y.fact \in Logged
  BY <1>1, <1>3 DEF ReplaysTheLog
<1>8. \A f : Unreplayed(f) => Unreplayed(f)'
  BY <1>2, <1>3 DEF Unreplayed, AcceptLocal
<1> QED
  BY <1>2, <1>6, <1>7, <1>8, CoverQueues DEF AcceptLocal

\* A step of start() from one phase to the next, or a save of the checkpoint.
LEMMA CoverMoves ==
  ASSUME LossInv, Parking, Covering, TypeOK', Ready, Ready',
         UNCHANGED <<seqOf, accepted, deferredIds, deferred, lastIngestedSeq, consumed,
                     serialQueue, liveBuffer, job, ids, stream, frames, rejected, evicted,
                     interrupted, orphaned>>,
         checkpoint' = checkpoint \/ checkpoint' = Snapshot',
         \A w \in Worker : \/ ~Saving(w) /\ ~Saving(w)'
                           \/ pc'[w] = pc[w] /\ batch'[w] = batch[w],
         lifecycle = "recovering" =>
           \A f : Unreplayed(f) => lifecycle' = "recovering" /\ Unreplayed(f)',
         StageIs', ReplaysTheLog'
  PROVE Covering'
<1>1. SignalsDecrypted /\ lastIngestedSeq \in Nat
  BY CoverIs, CoverTypes
<1>2. SignalsDecrypted'
  <2>1. \A s : Decrypted(s)' <=> Decrypted(s)
    BY DEF Decrypted
  <2>2. ASSUME NEW w \in Worker PROVE Decrypted(job[w])'
    <3>1. Decrypted(job[w])
      BY <1>1 DEF SignalsDecrypted
    <3> QED
      BY <3>1 DEF Decrypted
  <2> QED
    BY <1>1, <2>1, <2>2 DEF SignalsDecrypted
<1>3. LogsAgree'
  <2>1. lifecycle # "down"
    BY DEF Ready
  <2> QED
    BY <1>1, <2>1, LogsKept
<1>4. LastingOutcomes
  BY DEF LastingOutcomes, AcceptedEvents
<1>5. SavesCover' /\ ParksTheNewest' /\ TracksTheLog'
  BY <1>1, <1>4, TracksSteady
<1> QED
  BY <1>2, <1>3, <1>5 DEF Covering

\* The cutover leaves R3 with nothing unreplayed.
LEMMA CoverPhases ==
  ASSUME LossInv, Parking, Covering, TypeOK',
         \/ EnterLive \/ EnterBufferingLive \/ (EnterCatchingUp /\ pc["cutover"] = "drain")
  PROVE Covering'
<1>1. /\ ReplaysTheLog /\ StageIs /\ pc \in [Worker -> PC] /\ lifecycle \in Lifecycle
      /\ "chain" \in Worker /\ "cutover" \in Worker /\ Worker = {"chain", "cutover"}
  BY CoverIs, CoverTypes
<1>2. /\ UNCHANGED <<seqOf, accepted, deferredIds, deferred, lastIngestedSeq, consumed,
                     serialQueue, liveBuffer, job, ids, batch, stream, frames, rejected,
                     evicted, interrupted, orphaned>>
      /\ checkpoint' = checkpoint \/ checkpoint' = Snapshot'
      /\ \A v \in Worker \ {"cutover"} : pc'[v] = pc[v]
      /\ \/ /\ pc["cutover"] = "buffer" /\ lifecycle = "buffering_live"
            /\ pc'["cutover"] = "latch" /\ lifecycle' = "live"
         \/ /\ pc["cutover"] = "drain" /\ lifecycle = "catching_up"
            /\ pc'["cutover"] = "buffer" /\ lifecycle' = "buffering_live"
            /\ stream["cutover"] = <<>> /\ Drained
         \/ /\ pc["cutover"] = "drain" /\ lifecycle = "recovering"
            /\ pc'["cutover"] = "catchUp" /\ lifecycle' = "catching_up"
            /\ stream["cutover"] = <<>> /\ Drained
  <2>1. CASE EnterLive
    BY <1>1, <2>1, CutoverStage DEF EnterLive, TransitionTo, Await
  <2>2. CASE EnterBufferingLive
    BY <1>1, <2>2 DEF EnterBufferingLive, TransitionTo, Await
  <2>3. CASE EnterCatchingUp /\ pc["cutover"] = "drain"
    BY <1>1, <2>3 DEF EnterCatchingUp, TransitionTo, Await
  <2> QED
    BY <2>1, <2>2, <2>3
<1>3. Ready /\ Ready'
  BY <1>2 DEF Ready
<1>4. \A w \in Worker : \/ ~Saving(w) /\ ~Saving(w)'
                        \/ pc'[w] = pc[w] /\ batch'[w] = batch[w]
  BY <1>1, <1>2 DEF Saving
<1>5. lifecycle = "recovering" => \A f : ~Unreplayed(f)
  BY <1>1, <1>2, EntriesFew DEF StageIs, Drained, Unreplayed
<1>6. Logged' = Logged
  BY <1>2 DEF Logged
<1>7. StageIs'
  BY <1>1, <1>2 DEF StageIs, Drained, Handler
<1>8. ReplaysTheLog'
  <2>1. CASE lifecycle' = "buffering_live"
    <3>1. batch["cutover"] = {} /\ Entries(stream["cutover"]) = {}
      BY <1>1, <1>2, <2>1, EntriesFew DEF StageIs
    <3> QED
      BY <1>1, <1>2, <1>6, <2>1, <3>1 DEF ReplaysTheLog
  <2>2. CASE lifecycle' # "buffering_live"
    BY <1>1, <1>2, <1>6, <2>2 DEF ReplaysTheLog
  <2> QED
    BY <2>1, <2>2
<1> QED
  BY <1>2, <1>3, <1>4, <1>5, <1>7, <1>8, CoverMoves

\* A periodic save stores the watermark as it is.
LEMMA CoverCheckpoint ==
  ASSUME LossInv, Parking, Covering, TypeOK', failures = 0, SaveCheckpoint
  PROVE Covering'
<1>1. /\ ReplaysTheLog /\ StageIs /\ lifecycle = "live"
  BY CoverIs DEF SaveCheckpoint
<1>2. /\ UNCHANGED <<seqOf, accepted, deferredIds, deferred, lastIngestedSeq, consumed,
                     serialQueue, liveBuffer, job, ids, batch, stream, frames, rejected,
                     evicted, interrupted, orphaned, pc, lifecycle, bootstrapCompleted>>
      /\ checkpoint' = Snapshot
  BY DEF SaveCheckpoint
<1>3. checkpoint' = Snapshot'
  BY <1>2 DEF Snapshot
<1>4. Ready /\ Ready'
  BY <1>1, <1>2 DEF Ready, StageIs
<1>5. StageIs' /\ ReplaysTheLog'
  BY <1>1, <1>2 DEF StageIs, ReplaysTheLog, Logged
<1> QED
  BY <1>1, <1>2, <1>3, <1>4, <1>5, CoverMoves

\* A bootstrap that resolves late saves the checkpoint with its mark.
LEMMA CoverLateBootstrap ==
  ASSUME LossInv, Parking, Covering, TypeOK', failures' = 0, LateBootstrap
  PROVE Covering'
<1>1. /\ ReplaysTheLog /\ StageIs /\ TypeOK
      /\ lifecycle \in {"catching_up", "buffering_live", "live", "retrying_deferred"}
  BY CoverIs DEF LateBootstrap
<1>2. /\ UNCHANGED <<seqOf, accepted, deferredIds, deferred, lastIngestedSeq, consumed,
                     serialQueue, liveBuffer, job, ids, batch, stream, frames, rejected,
                     evicted, interrupted, orphaned, pc, lifecycle>>
      /\ checkpoint' = Snapshot'
  <2>1. TransitionTo(lifecycle) /\ lifecycle \in Lifecycle \ {"down", "joining"}
    BY <1>1 DEF LateBootstrap, Lifecycle
  <2>2. lifecycle' = lifecycle /\ checkpoint' = Snapshot'
    BY <1>1, <2>1, TransitionGoes
  <2> QED
    BY <2>2 DEF LateBootstrap
<1>3. Ready /\ Ready'
  BY <1>1, <1>2 DEF Ready, StageIs
<1>4. StageIs' /\ ReplaysTheLog'
  BY <1>1, <1>2 DEF StageIs, ReplaysTheLog, Logged
<1> QED
  BY <1>1, <1>2, <1>3, <1>4, CoverMoves

\* catchUp hands out what the relay answers with.
LEMMA CoverCatchUp ==
  ASSUME LossInv, Parking, Covering, TypeOK', CatchUp
  PROVE Covering'
<1>1. /\ ReplaysTheLog /\ StageIs /\ pc \in [Worker -> PC] /\ batch \in [Worker -> SUBSET Fact]
      /\ "chain" \in Worker /\ "cutover" \in Worker /\ Worker = {"chain", "cutover"}
      /\ lifecycle = "catching_up"
  BY CoverIs, CoverTypes, CutoverStage DEF CatchUp
<1>2. /\ UNCHANGED <<seqOf, accepted, deferredIds, deferred, lastIngestedSeq, consumed,
                     serialQueue, liveBuffer, job, ids, stream, frames, rejected, evicted,
                     interrupted, orphaned, lifecycle, checkpoint>>
      /\ pc["cutover"] = "catchUp" /\ pc'["cutover"] = "ingest"
      /\ pc'["chain"] = pc["chain"] /\ batch'["chain"] = batch["chain"]
  BY <1>1 DEF CatchUp, Await
<1>3. Ready /\ Ready' /\ Logged' = Logged
  BY <1>1, <1>2 DEF Ready, Logged
<1>4. \A w \in Worker : \/ ~Saving(w) /\ ~Saving(w)'
                        \/ pc'[w] = pc[w] /\ batch'[w] = batch[w]
  BY <1>1, <1>2 DEF Saving
<1>5. StageIs'
  BY <1>1, <1>2 DEF StageIs, Handler
<1>6. ReplaysTheLog'
  BY <1>1, <1>2, <1>3 DEF ReplaysTheLog
<1> QED
  BY <1>1, <1>2, <1>3, <1>4, <1>5, <1>6, CoverMoves

\* What is logged when an engine has joined is orphaned.
LEMMA CoverBootstrapped ==
  ASSUME LossInv, Parking, Covering, TypeOK', failures' = 0, EnterCatchingUp,
         pc["cutover"] # "drain"
  PROVE Covering'
<1>1. /\ ReplaysTheLog /\ SignalsDecrypted /\ StageIs /\ pc \in [Worker -> PC]
      /\ "chain" \in Worker /\ "cutover" \in Worker /\ Worker = {"chain", "cutover"}
      /\ pc["cutover"] = "bootstrap" /\ lifecycle = "joining"
      /\ Logged \subseteq orphaned
      /\ WaitsForQueue /\ TypeOK /\ lastIngestedSeq \in Nat
  BY CoverIs, CoverTypes DEF EnterCatchingUp, PhaseIs, JoinsOverOrphans
<1>2. /\ UNCHANGED <<seqOf, accepted, deferredIds, deferred, lastIngestedSeq, consumed,
                     serialQueue, liveBuffer, job, ids, batch, stream, frames, rejected,
                     evicted, interrupted, orphaned>>
      /\ lifecycle' = "catching_up" /\ checkpoint' = Snapshot'
      /\ pc'["cutover"] = "catchUp" /\ pc'["chain"] = pc["chain"]
      /\ pc["chain"] \in {"idle", "accept"} /\ ~job["chain"].retry /\ deferred = {}
  BY <1>1, TransitionGoes DEF EnterCatchingUp, Await, Lifecycle, WaitsForQueue, Ready
<1>3. Logged' = Logged
  BY <1>2 DEF Logged
<1>4. SignalsDecrypted' /\ ReplaysTheLog'
  <2>1. \A s : Decrypted(s)' <=> Decrypted(s)
    BY <1>2 DEF Decrypted
  <2>2. ASSUME NEW w \in Worker PROVE Decrypted(job[w])'
    <3>1. Decrypted(job[w])
      BY <1>1 DEF SignalsDecrypted
    <3> QED
      BY <1>2, <3>1 DEF Decrypted
  <2>3. SignalsDecrypted'
    BY <1>1, <1>2, <2>1, <2>2 DEF SignalsDecrypted
  <2>4. ReplaysTheLog'
    BY <1>1, <1>2, <1>3 DEF ReplaysTheLog
  <2> QED
    BY <2>3, <2>4
<1>5. LogsAgree'
  BY <1>2, LogsKept
<1>6. StageIs'
  BY <1>1, <1>2 DEF StageIs, Handler
<1>7. SavesCover' /\ ParksTheNewest'
  BY <1>1, <1>2 DEF SavesCover, ParksTheNewest, Saving, Parks
<1>8. TracksTheLog'
  <2>1. \A f \in Logged' : Resolved(f)'
    BY <1>1, <1>2, <1>3 DEF Resolved
  <2> QED
    BY <2>1 DEF TracksTheLog, Tracked, Awaited
<1> QED
  BY <1>4, <1>5, <1>6, <1>7, <1>8 DEF Covering

\* What a session restores of the watermark is below the facts not covered by it.
LEMMA CoverStart ==
  ASSUME LossInv, Parking, Covering, TypeOK', failures' = 0, Start
  PROVE Covering'
<1>1. /\ ReplaysTheLog /\ SignalsDecrypted /\ StageIs /\ TracksTheLog /\ LedgerInv
      /\ TypeOK /\ checkpoint \in Checkpoint \union {NoCheckpoint}
      /\ pc \in [Worker -> PC] /\ seqOf \in [Fact -> Nat]
      /\ "chain" \in Worker /\ "cutover" \in Worker /\ Worker = {"chain", "cutover"}
      /\ lifecycle = "down" /\ ~Ready
  BY CoverIs, CoverTypes DEF Start, Ready, TypeOK, StoresTyped
<1>2. serialQueue = <<>> /\ \A w \in Worker : pc[w] = "idle"
  BY <1>1 DEF LedgerInv, DownIsIdle
<1>3. /\ UNCHANGED <<seqOf, accepted, deferredIds, deferred, consumed, serialQueue, liveBuffer,
                     job, ids, batch, stream, frames, rejected, evicted, interrupted>>
      /\ pc'["chain"] = "idle" /\ checkpoint' = Snapshot'
      /\ orphaned \subseteq orphaned'
      /\ \/ /\ lifecycle' = "recovering" /\ pc'["cutover"] = "rebuild"
            /\ lastIngestedSeq' = RestoredWatermark
         \/ /\ Logged \subseteq orphaned'
            /\ lifecycle' = "joining" /\ pc'["cutover"] = "bootstrap"
  BY <1>1, <1>2, GiveUpCounts DEF Start, TransitionTo, Await, Logged
<1>4. ~Ready' /\ Logged' = Logged /\ LastingOutcomes
  BY <1>3 DEF Ready, Logged, LastingOutcomes, AcceptedEvents
<1>5. Logged \subseteq orphaned' \/ lastIngestedSeq' = RestoredWatermark
  BY <1>3
<1>6. SignalsDecrypted' /\ ReplaysTheLog'
  <2>1. \A s : Decrypted(s)' <=> Decrypted(s)
    BY <1>3 DEF Decrypted
  <2>2. ASSUME NEW w \in Worker PROVE Decrypted(job[w])'
    <3>1. Decrypted(job[w])
      BY <1>1 DEF SignalsDecrypted
    <3> QED
      BY <1>3, <3>1 DEF Decrypted
  <2>3. SignalsDecrypted'
    BY <1>1, <1>3, <2>1, <2>2 DEF SignalsDecrypted
  <2>4. ReplaysTheLog'
    BY <1>1, <1>2, <1>3, <1>4, EntriesFew DEF ReplaysTheLog
  <2> QED
    BY <2>3, <2>4
<1>7. LogsAgree'
  BY <1>3, LogsKept
<1>8. StageIs'
  BY <1>1, <1>2, <1>3 DEF StageIs, Handler
<1>9. SavesCover' /\ ParksTheNewest'
  BY <1>1, <1>2, <1>3 DEF SavesCover, ParksTheNewest, Saving, Parks
<1>10. ASSUME NEW f \in Task \intersect Logged PROVE Awaited(f)'
  <2>1. Awaited(f) /\ seqOf[f] \in Nat \ {0} /\ f \in Fact
    BY <1>1 DEF TracksTheLog, Logged
  <2>2. CASE Resolved(f) \/ f \in deferredIds
    BY <1>3, <1>4, <2>2, ResolvedStays DEF Awaited
  <2>3. CASE Logged \subseteq orphaned'
    BY <1>10, <2>3 DEF Awaited, Resolved
  <2>4. CASE Newest(f) /\ ~Covered(f) /\ lastIngestedSeq' = RestoredWatermark
    <3>1. Newest(f)'
      BY <1>3, <2>4 DEF Newest
    <3>2. lastIngestedSeq' = RestoredWatermark
      BY <2>4
    <3>3. checkpoint # NoCheckpoint => checkpoint.lastIngestedSeq \in Nat
      BY <1>1 DEF Checkpoint
    <3>4. lastIngestedSeq' < seqOf[f]
      BY <2>1, <2>4, <3>2, <3>3 DEF RestoredWatermark, Covered
    <3>5. checkpoint'.lastIngestedSeq = lastIngestedSeq'
      BY <1>3 DEF Snapshot
    <3>6. ~Covered(f)'
      <4>1. lastIngestedSeq' \in Nat
        BY DEF TypeOK, MemoryTyped
      <4> QED
        BY <1>3, <2>1, <3>4, <3>5, <4>1 DEF Covered
    <3> QED
      BY <1>3, <3>1, <3>4, <3>6 DEF Awaited
  <2> QED
    BY <1>5, <2>1, <2>2, <2>3, <2>4 DEF Awaited
<1>11. TracksTheLog'
  BY <1>4, <1>10 DEF TracksTheLog
<1> QED
  BY <1>6, <1>7, <1>8, <1>9, <1>11 DEF Covering

\* R2 keeps the parked facts, R3 hands the others above the watermark out again.
LEMMA CoverRebuild ==
  ASSUME LossInv, Parking, Covering, TypeOK', failures' = 0, Rebuild
  PROVE Covering'
<1>1. /\ ReplaysTheLog /\ SignalsDecrypted /\ StageIs /\ TracksTheLog /\ WaitsForQueue
      /\ LogsAgree /\ TypeOK /\ lastIngestedSeq \in Nat /\ seqOf \in [Fact -> Nat]
      /\ pc \in [Worker -> PC] /\ batch \in [Worker -> SUBSET Fact]
      /\ "chain" \in Worker /\ "cutover" \in Worker /\ Worker = {"chain", "cutover"}
      /\ lifecycle = "recovering" /\ ~Ready /\ pc["cutover"] = "rebuild"
  BY CoverIs, CoverTypes DEF Rebuild, Ready, PhaseIs
<1>2. /\ UNCHANGED <<seqOf, accepted, lastIngestedSeq, consumed, serialQueue, liveBuffer,
                     job, ids, stream, frames, rejected, evicted, interrupted, orphaned,
                     checkpoint,
                     lifecycle>>
      /\ pc'["chain"] = pc["chain"] /\ pc'["cutover"] = "ingest"
      /\ batch'["chain"] = batch["chain"]
      /\ batch'["cutover"] = {f \in Fact : seqOf[f] > lastIngestedSeq}
      /\ deferredIds' = deferredIds \ AcceptedFacts
      /\ deferred' = {f \in deferredIds \ AcceptedFacts : seqOf[f] # 0}
      /\ pc["chain"] \in {"idle", "accept"}
  BY <1>1, GiveUpCounts DEF Rebuild, Await, WaitsForQueue
<1>3. Ready' /\ Logged' = Logged /\ LastingOutcomes
  BY <1>1, <1>2 DEF Ready, Logged, LastingOutcomes, AcceptedEvents
<1>4. batch'["cutover"] \subseteq Logged
  BY <1>1, <1>2 DEF Logged
<1>5. SignalsDecrypted' /\ ReplaysTheLog'
  <2>1. \A v \in Worker : batch'[v] = batch[v] \/ batch'[v] \subseteq Logged'
    BY <1>1, <1>2, <1>3, <1>4
  <2> QED
    BY <1>1, <1>2, <1>3, <2>1, SignalsKept
<1>6. LogsAgree'
  BY <1>1, <1>2, LogsKept
<1>7. StageIs'
  BY <1>1, <1>2 DEF StageIs, Handler
<1>8. SavesCover' /\ ParksTheNewest'
  BY <1>1, <1>2 DEF SavesCover, ParksTheNewest, Saving, Parks
<1>9. ASSUME NEW f \in Task \intersect Logged PROVE Tracked(f)'
  <2>1. Awaited(f) /\ f \in Fact
    BY <1>1, <1>9 DEF TracksTheLog, Logged
  <2>2. CASE Resolved(f)
    BY <1>3, <2>2, ResolvedStays DEF Tracked
  <2>3. CASE f \in deferredIds
    <3>1. CASE f \in AcceptedFacts
      BY <1>1, <1>2, <3>1 DEF LogsAgree, Tracked, Resolved, AcceptedEvents
    <3>2. CASE f \notin AcceptedFacts
      BY <1>2, <2>3, <3>2 DEF Tracked, Logged
    <3> QED
      BY <3>1, <3>2
  <2>4. CASE Newest(f) /\ lastIngestedSeq < seqOf[f]
    <3>1. f \in batch'["cutover"]
      BY <1>1, <1>2, <2>1, <2>4
    <3>2. Unreplayed(f)' /\ Newest(f)'
      BY <1>2, <2>4, <3>1 DEF Unreplayed, Newest
    <3> QED
      BY <1>1, <1>2, <2>4, <3>2 DEF Tracked
  <2> QED
    BY <1>1, <2>1, <2>2, <2>3, <2>4 DEF Awaited
<1>10. TracksTheLog'
  BY <1>3, <1>9 DEF TracksTheLog
<1> QED
  BY <1>5, <1>6, <1>7, <1>8, <1>10 DEF Covering

\* A crash or stop accounts for what it cut off; the rest is above the saved watermark.
LEMMA CoverLost ==
  ASSUME LossInv, Parking, Covering, TypeOK', Crash \/ Stop
  PROVE Covering'
<1>1. /\ LogsAgree /\ ParksTheNewest /\ TracksTheLog /\ TypeOK
      /\ lastIngestedSeq \in Nat /\ seqOf \in [Fact -> Nat]
      /\ checkpoint \in Checkpoint \union {NoCheckpoint}
      /\ "chain" \in Worker /\ "cutover" \in Worker /\ Worker = {"chain", "cutover"}
  BY CoverIs, CoverTypes DEF TypeOK, StoresTyped
<1>2. /\ lifecycle # "down" /\ lifecycle' = "down"
      /\ UNCHANGED <<seqOf, accepted, deferredIds, consumed, rejected, evicted, orphaned>>
      /\ deferred' = {} /\ serialQueue' = <<>> /\ liveBuffer' = <<>>
      /\ interrupted' = interrupted \union Unresolved
      /\ \A w \in Worker : /\ pc'[w] = "idle" /\ job'[w] = IdleJob /\ ids'[w] = {}
                           /\ batch'[w] = {} /\ stream'[w] = <<>> /\ frames'[w] = <<>>
      /\ checkpoint' \in {checkpoint, NoCheckpoint, Snapshot}
  BY DEF Crash, Stop, LoseMemory
<1>3. ~Ready' /\ Logged' = Logged /\ LastingOutcomes
  BY <1>2 DEF Ready, Logged, LastingOutcomes, AcceptedEvents
<1>4. SignalsDecrypted' /\ ReplaysTheLog'
  <2>1. Entries(<<>>) = {} /\ Suspended(<<>>) = {}
    BY EntriesFew, NothingSuspended
  <2>2. IdleJob.kind = "local" /\ ~IdleJob.retry
    BY DEF IdleJob
  <2>3. \A w \in Worker : Decrypted(job[w])'
    BY <1>2, <2>2 DEF Decrypted
  <2>4. SignalsDecrypted'
    BY <1>2, <2>1, <2>3 DEF SignalsDecrypted
  <2>5. ReplaysTheLog'
    BY <1>2, <2>1, <2>2 DEF ReplaysTheLog
  <2> QED
    BY <2>4, <2>5
<1>5. LogsAgree'
  BY <1>2, LogsKept
<1>6. StageIs'
  <2>1. ~IdleJob.retry
    BY DEF IdleJob
  <2> QED
    BY <1>1, <1>2, <2>1 DEF StageIs, Handler
<1>7. SavesCover' /\ ParksTheNewest'
  BY <1>1, <1>2 DEF SavesCover, ParksTheNewest, Saving, Parks
<1>8. ASSUME NEW f \in Task \intersect Logged PROVE Awaited(f)'
  <2>1. f \in Fact /\ seqOf[f] \in Nat \ {0}
    BY <1>1 DEF Logged
  <2>2. CASE Resolved(f)
    BY <1>3, <2>2, ResolvedStays DEF Awaited
  <2>3. CASE Leaving(f)
    <3>1. f \in Unresolved
      BY <2>3 DEF Leaving, Unresolved, Saving
    <3> QED
      BY <1>2, <3>1 DEF Awaited, Resolved
  <2>4. CASE f \in deferredIds
    BY <1>2, <2>4 DEF Awaited
  <2>5. CASE f \in deferred \ deferredIds /\ seqOf[f] <= lastIngestedSeq
    <3>1. f \in Unresolved
      BY <2>5 DEF Unresolved
    <3> QED
      BY <1>2, <3>1 DEF Awaited, Resolved
  <2>6. CASE Newest(f) /\ lastIngestedSeq < seqOf[f]
    <3>1. /\ checkpoint # NoCheckpoint /\ checkpoint.lastIngestedSeq \in Nat
          /\ checkpoint.lastIngestedSeq <= lastIngestedSeq
      BY <1>1, <1>2 DEF LogsAgree, Checkpoint
    <3>2. Snapshot.lastIngestedSeq = lastIngestedSeq
      BY DEF Snapshot
    <3>3. checkpoint' = NoCheckpoint \/ checkpoint'.lastIngestedSeq < seqOf[f]
      BY <1>1, <1>2, <2>1, <2>6, <3>1, <3>2
    <3>4. checkpoint' = NoCheckpoint \/ checkpoint'.lastIngestedSeq \in Nat
      BY <1>1, <1>2, <3>1, <3>2
    <3>5. ~Covered(f)'
      BY <1>2, <2>1, <3>3, <3>4 DEF Covered
    <3>6. Newest(f)'
      BY <1>2, <2>6 DEF Newest
    <3> QED
      BY <1>2, <3>5, <3>6 DEF Awaited
  <2>7. CASE Ready
    <3>1. Tracked(f)
      BY <1>1, <1>8, <2>7 DEF TracksTheLog
    <3>2. Parks(f) => Resolved(f) \/ Leaving(f) \/ Newest(f)
      BY <1>1, <1>8 DEF ParksTheNewest
    <3>3. seqOf[f] <= lastIngestedSeq \/ lastIngestedSeq < seqOf[f]
      BY <1>1, <2>1
    <3> QED
      BY <2>2, <2>3, <2>4, <2>5, <2>6, <3>1, <3>2, <3>3 DEF Tracked
  <2>8. CASE ~Ready
    <3>1. Awaited(f)
      BY <1>1, <1>8, <2>8 DEF TracksTheLog
    <3> QED
      BY <1>2, <2>2, <2>4, <2>6, <3>1 DEF Awaited
  <2> QED
    BY <2>7, <2>8
<1>9. TracksTheLog'
  BY <1>3, <1>8 DEF TracksTheLog
<1> QED
  BY <1>4, <1>5, <1>6, <1>7, <1>9 DEF Covering

\* Nothing happens.
LEMMA CoverStutter ==
  ASSUME LossInv, Parking, Covering, UNCHANGED vars
  PROVE Covering'
<1>1. /\ SignalsDecrypted /\ ReplaysTheLog /\ StageIs /\ LogsAgree
      /\ SavesCover /\ ParksTheNewest /\ TracksTheLog
  BY DEF Covering
<1> USE DEF vars
<1>2. SignalsDecrypted'
  <2>1. \A s : Decrypted(s)' <=> Decrypted(s)
    BY DEF Decrypted
  <2>2. ASSUME NEW w \in Worker PROVE Decrypted(job[w])'
    <3>1. Decrypted(job[w])
      BY <1>1 DEF SignalsDecrypted
    <3> QED
      BY <3>1 DEF Decrypted
  <2> QED
    BY <1>1, <2>1, <2>2 DEF SignalsDecrypted
<1>3. ReplaysTheLog'
  BY <1>1 DEF ReplaysTheLog, Logged
<1>4. StageIs'
  BY <1>1 DEF StageIs
<1>5. LogsAgree'
  BY <1>1 DEF LogsAgree, AcceptedFacts, AcceptedEvents, NextSeq
<1>6. \A f : /\ Parks(f)' <=> Parks(f)
             /\ Resolved(f)' <=> Resolved(f)
             /\ Leaving(f)' <=> Leaving(f)
             /\ Newest(f)' <=> Newest(f)
             /\ Unreplayed(f)' <=> Unreplayed(f)
             /\ Covered(f)' <=> Covered(f)
  BY DEF Parks, Resolved, Reported, AcceptedEvents, Leaving, Newest, Unreplayed, Covered
<1>7. SavesCover'
  BY <1>1, <1>6 DEF SavesCover, Saving
<1>8. ParksTheNewest'
  BY <1>1, <1>6 DEF ParksTheNewest
<1>9. TracksTheLog'
  BY <1>1, <1>6 DEF TracksTheLog, Tracked, Awaited, Ready, Logged
<1> QED
  BY <1>2, <1>3, <1>4, <1>5, <1>7, <1>8, <1>9 DEF Covering

\* The first start finds empty stores.
LEMMA CoverInit == Init => CoverInv
<1> SUFFICES ASSUME Init PROVE Covering
  BY LossInit, ParkInit DEF CoverInv
<1>1. /\ "chain" \in Worker /\ "cutover" \in Worker /\ Logged = {}
      /\ Entries(<<>>) = {} /\ Suspended(<<>>) = {}
      /\ IdleJob.kind = "local" /\ ~IdleJob.retry /\ AcceptedFacts = {}
  <2>1. Logged = {} /\ IdleJob.kind = "local" /\ ~IdleJob.retry
    BY DEF Init, Logged, IdleJob
  <2>2. AcceptedFacts = {}
    <3>1. accepted = <<>> /\ DOMAIN <<>> = {}
      BY DEF Init
    <3> QED
      BY <3>1 DEF AcceptedFacts
  <2> QED
    BY <2>1, <2>2, Workers, EntriesFew, NothingSuspended
<1>2. NextSeq \in Nat /\ NextSeq > 0
  <2>1. {f \in Fact : seqOf[f] # 0} = {}
    BY DEF Init
  <2> QED
    BY <2>1, FS_EmptySet DEF NextSeq
<1>3. SignalsDecrypted /\ ReplaysTheLog /\ StageIs
  BY <1>1 DEF Init, SignalsDecrypted, Decrypted, ReplaysTheLog, StageIs, Handler
<1>4. LogsAgree
  BY <1>1, <1>2 DEF Init, LogsAgree
<1>5. SavesCover /\ ParksTheNewest /\ TracksTheLog
  BY <1>1 DEF Init, SavesCover, Saving, ParksTheNewest, Parks, TracksTheLog
<1> QED
  BY <1>3, <1>4, <1>5 DEF Covering

\* Every step keeps the invariant.
LEMMA CoverStep == CoverInv /\ [Next]_vars => CoverInv'
<1> SUFFICES ASSUME CoverInv, [Next]_vars, failures' = 0 PROVE Covering'
  BY LossStep, ParkStep DEF CoverInv
<1>1. /\ LossInv /\ LossInv' /\ ParkInv /\ ParkInv'
  BY LossStep, ParkStep DEF CoverInv
<1>2. TypeOK /\ TypeOK'
  BY <1>1 DEF LossInv, LedgerInv, DurableInv
<1>3. failures = 0 /\ Parking /\ Covering /\ Parking'
  BY <1>1, <1>2, FailuresGrow DEF CoverInv, ParkInv
<1>4. CASE UNCHANGED vars
  BY <1>1, <1>3, <1>4, CoverStutter
<1>5. CASE Failure
  BY <1>2, <1>5, GiveUpCounts DEF Failure, GiveUpSignal, GiveUpSave, GiveUpRemoval, RetrySave,
     LoadThrows, IngestThrows
<1>6. CASE StartJob
  BY <1>1, <1>2, <1>3, <1>6, CoverStartJob
<1>7. CASE Cutover
  <2>1. CASE EnterCatchingUp
    BY <1>1, <1>2, <1>3, <2>1, CoverPhases, CoverBootstrapped
  <2>2. CASE EnterLive \/ EnterBufferingLive
    BY <1>1, <1>2, <1>3, <2>2, CoverPhases
  <2>3. CASE Start \/ Rebuild
    BY <1>1, <1>2, <1>3, <2>3, CoverStart, CoverRebuild
  <2>4. CASE DrainNext \/ CatchUp \/ DrainBuffered \/ ConsumeLatch
    BY <1>1, <1>2, <1>3, <2>4, CoverDrainNext, CoverCatchUp, CoverDrainBuffered, CoverLatch
  <2>5. ~Rejoin /\ ~Reopen
    BY <1>1, <1>3, NoneRejoins DEF LossInv
  <2> QED
    BY <1>7, <2>1, <2>2, <2>3, <2>4, <2>5 DEF Cutover
<1>8. CASE Environment
  <2>1. CASE SaveCheckpoint
    BY <1>1, <1>2, <1>3, <2>1, CoverCheckpoint
  <2>2. CASE LateBootstrap
    BY <1>1, <1>2, <1>3, <2>2, CoverLateBootstrap
  <2>3. CASE Crash \/ Stop
    BY <1>1, <1>2, <1>3, <2>3, CoverLost
  <2>4. CASE (\E f \in Fact : DeliverLive(f)) \/ (\E s \in Local : AcceptLocal(s))
    BY <1>1, <1>2, <1>3, <2>4, CoverDeliverLive, CoverAcceptLocal
  <2>5. \A f \in Fact : ~DeliverLiveThrows(f)
    BY <1>2, GiveUpCounts DEF DeliverLiveThrows
  <2> QED
    BY <1>8, <2>1, <2>2, <2>3, <2>4, <2>5 DEF Environment
<1>9. ASSUME NEW w \in Worker, Resume(w) PROVE Covering'
  <2>1. CASE HandleMessage(w) \/ HandleDeferred(w) \/ HandleSkipped(w) \/ HandleMalformed(w)
    BY <1>1, <1>2, <1>3, <2>1, CoverHandler
  <2>2. CASE AcceptEvent(w) \/ AcceptDeferredAppend(w)
    BY <1>1, <1>2, <1>3, <2>2, CoverAccept
  <2>3. CASE AcceptDeferredRemove(w) \/ PruneExpired(w) \/ RemoveExhausted(w)
    BY <1>1, <1>2, <1>3, <2>3, CoverUnpark
  <2>4. CASE SaveDeferredIds(w) \/ SaveRemoval(w)
    BY <1>1, <1>2, <1>3, <2>4, CoverSave
  <2>5. CASE EnterRetrying(w) \/ ChargeBatch(w)
    BY <1>1, <1>2, <1>3, <2>5, CoverPass
  <2>6. CASE IngestBatch(w) \/ NextRetried(w) \/ EndOfPass(w)
    BY <1>1, <1>2, <1>3, <2>6, CoverIngest, CoverNextRetried, CoverEndOfPass
  <2> QED
    BY <1>9, <2>1, <2>2, <2>3, <2>4, <2>5, <2>6 DEF Resume
<1> QED
  BY <1>4, <1>5, <1>6, <1>7, <1>8, <1>9 DEF Next

\* engine-types.ts:199-200 with receive-engine.ts:676-760, 881-925: up to the first write
\* that fails, a task fact at or below the saved watermark, which R3 never replays, is
\* accepted, durably parked, reported or evicted, or it is still in hand, or a crash or
\* stop found it there, or it was in the log when a session joined instead of recovering.
THEOREM WatermarkLeavesNoneBehind == Spec => []CoveredHasOutcome
<1>1. Init => CoverInv
  BY CoverInit
<1>2. CoverInv /\ [Next]_vars => CoverInv'
  BY CoverStep
<1>3. CoverInv => CoveredHasOutcome
  <2> SUFFICES ASSUME CoverInv, failures = 0, NEW f \in Task, Covered(f)
               PROVE HasOutcome(f) \/ Pending(f) \/ f \in interrupted \union orphaned
    BY DEF CoveredHasOutcome
  <2>1. /\ TypeOK /\ LogsAgree /\ TracksTheLog /\ NoSilentLoss
        /\ f \in Fact /\ f \in Logged
    BY CoverIs DEF CoverInv, ParkInv, LossInv, Covered, Logged, Task
  <2>2. CASE Resolved(f)
    <3>1. CASE f \in consumed
      BY <2>1, <3>1 DEF NoSilentLoss, HasOutcome, Pending, Reported, Reason
    <3> QED
      BY <2>2, <3>1 DEF Resolved, HasOutcome
  <2>3. CASE Leaving(f) \/ f \in deferred \/ f \in deferredIds
    BY <2>3 DEF Leaving, Pending, HasOutcome
  <2>4. lifecycle # "down" => ~(lastIngestedSeq < seqOf[f])
    <3> SUFFICES ASSUME lifecycle # "down", lastIngestedSeq < seqOf[f] PROVE FALSE
      OBVIOUS
    <3>1. /\ checkpoint.lastIngestedSeq <= lastIngestedSeq
          /\ checkpoint \in Checkpoint /\ seqOf[f] \in Nat /\ lastIngestedSeq \in Nat
      BY <2>1, CoverTypes DEF LogsAgree, TypeOK, StoresTyped
    <3>2. checkpoint.lastIngestedSeq \in Nat
      BY <3>1 DEF Checkpoint
    <3> QED
      BY <3>1, <3>2 DEF Covered
  <2>5. CASE Ready
    <3>1. Tracked(f)
      BY <2>1, <2>5 DEF TracksTheLog
    <3> QED
      BY <2>2, <2>3, <2>4, <2>5, <3>1 DEF Tracked, Ready
  <2>6. CASE ~Ready
    <3>1. Awaited(f)
      BY <2>1, <2>6 DEF TracksTheLog
    <3> QED
      BY <2>2, <2>3, <3>1 DEF Awaited
  <2> QED
    BY <2>5, <2>6
<1> QED
  BY <1>1, <1>2, <1>3, PTL DEF Spec

----------------------------------------------------------------------------
(* What the consumer is shown. *)

\* The signals whose event is written when they are handled.
Counted(x) == x.kind \in {"message", "local"}

\* The signal a continuation holds whose event it has still to write.
InHand(w) ==
  IF pc[w] \in BeforeAccept THEN <<[kind |-> job[w].kind, fact |-> job[w].fact]>> ELSE <<>>

\* The signals left to the h-th of the retry passes of w, counted from the outermost.
Layer(w, h) ==
  IF h = Len(frames[w]) THEN stream[w]
  ELSE IF h < Len(frames[w]) THEN frames[w][Len(frames[w]) - h].stream ELSE <<>>

\* The places a signal may be in: the queue and the buffer, the hand of each
\* continuation (0) and the layers of its passes (1, 2, ...).
Place == ({"queue", "buffer"} \X {0}) \union (Worker \X Nat)

\* What each place holds.
Lines ==
  [p \in Place |-> CASE p[1] = "queue" -> serialQueue
                     [] p[1] = "buffer" -> liveBuffer
                     [] p[1] \in Worker /\ p[2] = 0 -> InHand(p[1])
                     [] p[1] \in Worker /\ p[2] # 0 -> Layer(p[1], p[2] - 1)]

\* No counted signal is in two places, or twice in one.
Distinct(L) ==
  \A p, q \in Place : \A i \in DOMAIN L[p], j \in DOMAIN L[q] :
    Counted(L[p][i]) /\ L[p][i] = L[q][j] => p = q /\ i = j

\* All signals of the lines L.
InLines(L) == UNION {Entries(L[p]) : p \in Place}

\* The ratchet has decrypted the envelope, or the user has dispatched the edit.
Used(s) == s \in consumed \/ (s \in Local /\ copies[s] # 0)

\* A counted signal comes from one use of its source, whose event is not yet written.
SignalsNew ==
  \A x \in InLines(Lines) : Counted(x) =>
    /\ Used(x.fact) /\ (x.kind = "message" <=> x.fact \in Fact)
    /\ EventOf[x.fact] \notin AcceptedEvents

\* The accepted log holds events of sources that have been used.
LogIsUsed ==
  \A i \in DOMAIN accepted :
    accepted[i].ev = EventOf[accepted[i].fact] /\ Used(accepted[i].fact)

\* Only a counted signal is written, and only a message is unparked.
WritesCounted ==
  \A w \in Worker : /\ pc[w] = "accept" => job[w].kind \in {"message", "local"}
                    /\ pc[w] \in {"acceptDeferred", "unpark"} => job[w].kind = "message"

\* Continuation w has written its event and not yet emitted it.
Owes(w) ==
  pc[w] = "unpark" \/ (pc[w] = "save" /\ job[w].kind = "message" /\ ~job[w].retry)

\* How many events are written and not yet shown.
Owed == (IF Owes("chain") THEN 1 ELSE 0) + (IF Owes("cutover") THEN 1 ELSE 0)

\* What is written is shown, or about to be, and nothing twice.
ShownOrOwed ==
  lifecycle # "down" =>
    /\ Len(accepted) = Len(projection) + Owed
    /\ \A e \in AcceptedEvents :
         \/ \E i \in DOMAIN projection : projection[i] = e
         \/ \E w \in Worker : Owes(w) /\ EventOf[job[w].fact] = e

\* All of it; kept as long as the steps are regular.
Showing == Distinct(Lines) /\ SignalsNew /\ LogIsUsed /\ WritesCounted /\ ShownOrOwed

\* No write has failed, and no local edit was dispatched twice.
Regular == failures = 0 /\ \A s \in Local : copies[s] <= 1

ShowInv == LossInv /\ ParkInv /\ (Regular => Showing)

\* What a queued signal, or one in hand, is.
Post == [kind : IngestKind \union {"local"}, fact : Source]

\* A line that loses its head, or all it has, gains nothing.
LEMMA LosesEntries ==
  ASSUME NEW s \in Seq(Post), NEW t, t = s \/ t = <<>> \/ (s # <<>> /\ t = Tail(s))
  PROVE Entries(t) \subseteq Entries(s)
BY EntriesRest, EntriesFew

\* Where a counted signal is, it is the only one.
LEMMA OnePlace ==
  ASSUME NEW L, Distinct(L), NEW p \in Place, NEW q \in Place,
         NEW i \in DOMAIN L[p], NEW j \in DOMAIN L[q], Counted(L[p][i]), L[p][i] = L[q][j]
  PROVE p = q /\ i = j
BY DEF Distinct

\* From L to M a line may lose its head or all it has.
Loses(L, M) ==
  \A p \in Place : M[p] = L[p] \/ M[p] = <<>> \/ (L[p] # <<>> /\ M[p] = Tail(L[p]))

\* Distinct signals stay so when lines only lose some.
LEMMA DistinctLoses ==
  ASSUME NEW L \in [Place -> Seq(Post)], NEW M, Distinct(L), Loses(L, M)
  PROVE Distinct(M) /\ InLines(M) \subseteq InLines(L)
<1>1. ASSUME NEW p \in Place
      PROVE \/ M[p] = L[p]
            \/ DOMAIN M[p] = {}
            \/ \A i \in DOMAIN M[p] : i \in Nat /\ i + 1 \in DOMAIN L[p] /\ M[p][i] = L[p][i + 1]
  <2>1. L[p] \in Seq(Post)
    OBVIOUS
  <2>2. CASE M[p] = <<>>
    BY <2>2
  <2>3. CASE L[p] # <<>> /\ M[p] = Tail(L[p])
    <3> DEFINE s == L[p]
    <3>1. s \in Seq(Post) /\ s # <<>> /\ M[p] = Tail(s)
      BY <2>1, <2>3
    <3> HIDE DEF s
    <3>2. \A i \in DOMAIN Tail(s) : i \in Nat /\ i + 1 \in DOMAIN s /\ Tail(s)[i] = s[i + 1]
      BY <3>1, RestOf
    <3> QED
      BY <3>1, <3>2 DEF s
  <2> QED
    BY <2>2, <2>3 DEF Loses
<1>2. ASSUME NEW p \in Place, NEW q \in Place, NEW i \in DOMAIN M[p], NEW j \in DOMAIN M[q],
             Counted(M[p][i]), M[p][i] = M[q][j]
      PROVE p = q /\ i = j
  <2>1. CASE M[p] = L[p] /\ M[q] = L[q]
    BY <1>2, <2>1 DEF Distinct
  <2>2. CASE M[p] = L[p] /\ M[q] # L[q]
    <3>1. j \in Nat /\ j + 1 \in DOMAIN L[q] /\ M[q][j] = L[q][j + 1]
      BY <1>1, <2>2
    <3>2. p = q
      BY <1>2, <2>2, <3>1 DEF Distinct
    <3> QED
      BY <2>2, <3>2
  <2>3. CASE M[p] # L[p] /\ M[q] = L[q]
    <3>1. i \in Nat /\ i + 1 \in DOMAIN L[p] /\ M[p][i] = L[p][i + 1]
      BY <1>1, <2>3
    <3>2. p = q
      BY <1>2, <2>3, <3>1 DEF Distinct
    <3> QED
      BY <2>3, <3>2
  <2>4. CASE M[p] # L[p] /\ M[q] # L[q]
    <3>1. i \in Nat /\ i + 1 \in DOMAIN L[p] /\ M[p][i] = L[p][i + 1]
      BY <1>1, <2>4
    <3>2. j \in Nat /\ j + 1 \in DOMAIN L[q] /\ M[q][j] = L[q][j + 1]
      BY <1>1, <2>4
    <3>3. Counted(L[p][i + 1]) /\ L[p][i + 1] = L[q][j + 1]
      BY <1>2, <3>1, <3>2
    <3>4. p = q /\ i + 1 = j + 1
      BY <3>1, <3>2, <3>3, OnePlace
    <3> QED
      BY <3>1, <3>2, <3>4
  <2> QED
    BY <2>1, <2>2, <2>3, <2>4
<1>3. \A p \in Place : Entries(M[p]) \subseteq Entries(L[p])
  BY LosesEntries DEF Loses
<1>4. Distinct(M)
  BY <1>2 DEF Distinct
<1>5. InLines(M) \subseteq InLines(L)
  BY <1>3 DEF InLines
<1> QED
  BY <1>4, <1>5

\* The head of line q goes to the end of line r.
Moves(L, M, q, r) ==
  /\ q # r /\ L[q] # <<>> /\ M[q] = Tail(L[q]) /\ M[r] = Append(L[r], Head(L[q]))
  /\ \A p \in Place \ {q, r} : M[p] = L[p]

\* And when one goes from the head of a line to the end of another.
LEMMA DistinctMoves ==
  ASSUME NEW L \in [Place -> Seq(Post)], NEW M, NEW q \in Place, NEW r \in Place,
         Distinct(L), Moves(L, M, q, r)
  PROVE Distinct(M) /\ InLines(M) \subseteq InLines(L)
<1>1. /\ Head(L[q]) \in Post
      /\ \A i \in DOMAIN M[q] : i \in Nat /\ i + 1 \in DOMAIN L[q] /\ M[q][i] = L[q][i + 1]
      /\ 1 \in DOMAIN L[q] /\ Head(L[q]) = L[q][1]
      /\ Entries(L[q]) = {Head(L[q])} \union Entries(M[q])
  <2> DEFINE s == L[q]
  <2>1. s \in Seq(Post) /\ s # <<>> /\ M[q] = Tail(s)
    BY DEF Moves
  <2> HIDE DEF s
  <2>2. /\ Head(s) \in Post /\ Entries(s) = {Head(s)} \union Entries(Tail(s))
        /\ \A i \in DOMAIN Tail(s) : i \in Nat /\ i + 1 \in DOMAIN s /\ Tail(s)[i] = s[i + 1]
        /\ 1 \in DOMAIN s /\ Head(s) = s[1]
    BY <2>1, RestOf, EntriesRest
  <2> QED
    BY <2>1, <2>2 DEF s
<1>2. /\ \A i \in DOMAIN M[r] : \/ i \in DOMAIN L[r] /\ M[r][i] = L[r][i]
                                \/ i = Len(L[r]) + 1 /\ M[r][i] = L[q][1]
      /\ Entries(M[r]) = Entries(L[r]) \union {Head(L[q])}
  <2> DEFINE s == L[r]
             x == Head(L[q])
  <2>1. s \in Seq(Post) /\ x \in Post /\ M[r] = Append(s, x)
    BY <1>1 DEF Moves
  <2> HIDE DEF s, x
  <2>2. /\ Entries(Append(s, x)) = Entries(s) \union {x}
        /\ \A i \in DOMAIN Append(s, x) : \/ i \in DOMAIN s /\ Append(s, x)[i] = s[i]
                                          \/ i = Len(s) + 1 /\ Append(s, x)[i] = x
    BY <2>1, EntriesAppended, AppendProperties, LenProperties
  <2> QED
    BY <1>1, <2>1, <2>2 DEF s, x
<1>3. ASSUME NEW p \in Place, NEW i \in DOMAIN M[p]
      PROVE \/ p # q /\ i \in DOMAIN L[p] /\ M[p][i] = L[p][i]
            \/ p = q /\ i \in Nat /\ i + 1 \in DOMAIN L[q] /\ i + 1 # 1 /\ M[p][i] = L[q][i + 1]
            \/ p = r /\ i = Len(L[r]) + 1 /\ M[p][i] = L[q][1]
  <2>1. CASE p = q
    <3>1. i # 0
      <4>1. M[q] = Tail(L[q]) /\ L[q] \in Seq(Post) /\ L[q] # <<>>
        BY DEF Moves
      <4>2. DOMAIN M[q] = 1..Len(M[q])
        BY <4>1, RestOf
      <4> QED
        BY <2>1, <4>2
    <3> QED
      BY <1>1, <2>1, <3>1
  <2>2. CASE p = r
    BY <1>2, <2>2 DEF Moves
  <2>3. CASE p \notin {q, r}
    BY <2>3 DEF Moves
  <2> QED
    BY <2>1, <2>2, <2>3
<1>4. ASSUME NEW p \in Place, NEW p2 \in Place, NEW i \in DOMAIN M[p], NEW j \in DOMAIN M[p2],
             Counted(M[p][i]), M[p][i] = M[p2][j]
      PROVE p = p2 /\ i = j
  <2>1. CASE p # q /\ i \in DOMAIN L[p] /\ M[p][i] = L[p][i]
    <3>1. CASE p2 # q /\ j \in DOMAIN L[p2] /\ M[p2][j] = L[p2][j]
      <4>1. Counted(L[p][i]) /\ L[p][i] = L[p2][j]
        BY <1>4, <2>1, <3>1
      <4> QED
        BY <2>1, <3>1, <4>1 DEF Distinct
    <3>2. CASE p2 = q /\ j + 1 \in DOMAIN L[q] /\ M[p2][j] = L[q][j + 1]
      BY <1>4, <2>1, <3>2 DEF Distinct
    <3>3. CASE p2 = r /\ M[p2][j] = L[q][1]
      BY <1>1, <1>4, <2>1, <3>3 DEF Distinct
    <3> QED
      BY <1>3, <3>1, <3>2, <3>3
  <2>2. CASE p = q /\ i \in Nat /\ i + 1 \in DOMAIN L[q] /\ i + 1 # 1 /\ M[p][i] = L[q][i + 1]
    <3>1. CASE p2 # q /\ j \in DOMAIN L[p2] /\ M[p2][j] = L[p2][j]
      BY <1>4, <2>2, <3>1 DEF Distinct
    <3>2. CASE p2 = q /\ j \in Nat /\ j + 1 \in DOMAIN L[q] /\ M[p2][j] = L[q][j + 1]
      <4>1. i + 1 = j + 1
        BY <1>4, <2>2, <3>2 DEF Distinct
      <4> QED
        BY <2>2, <3>2, <4>1
    <3>3. CASE p2 = r /\ M[p2][j] = L[q][1]
      BY <1>1, <1>4, <2>2, <3>3 DEF Distinct
    <3> QED
      BY <1>3, <3>1, <3>2, <3>3
  <2>3. CASE p = r /\ i = Len(L[r]) + 1 /\ M[p][i] = L[q][1]
    <3>1. CASE p2 # q /\ j \in DOMAIN L[p2] /\ M[p2][j] = L[p2][j]
      BY <1>1, <1>4, <2>3, <3>1 DEF Distinct
    <3>2. CASE p2 = q /\ j + 1 \in DOMAIN L[q] /\ j + 1 # 1 /\ M[p2][j] = L[q][j + 1]
      BY <1>1, <1>4, <2>3, <3>2 DEF Distinct
    <3>3. CASE p2 = r /\ j = Len(L[r]) + 1
      BY <2>3, <3>3
    <3> QED
      BY <1>3, <3>1, <3>2, <3>3
  <2> QED
    BY <1>3, <2>1, <2>2, <2>3
<1>5. ASSUME NEW p \in Place PROVE Entries(M[p]) \subseteq InLines(L)
  <2>1. \A o \in Place : Entries(L[o]) \subseteq InLines(L)
    BY DEF InLines
  <2>2. Entries(M[p]) \subseteq Entries(L[p]) \union {Head(L[q])}
    BY <1>1, <1>2 DEF Moves
  <2> QED
    BY <1>1, <2>1, <2>2
<1>6. Distinct(M)
  BY <1>4 DEF Distinct
<1>7. InLines(M) \subseteq InLines(L)
  BY <1>5 DEF InLines
<1> QED
  BY <1>6, <1>7

\* Signal x is added to line r.
Adds(L, M, r, x) == M[r] = Append(L[r], x) /\ \A p \in Place \ {r} : M[p] = L[p]

\* And when one is added that, if counted, is nowhere yet.
LEMMA DistinctAdds ==
  ASSUME NEW L \in [Place -> Seq(Post)], NEW M, NEW r \in Place, NEW x \in Post,
         Distinct(L), Adds(L, M, r, x), Counted(x) => x \notin InLines(L)
  PROVE Distinct(M) /\ InLines(M) \subseteq InLines(L) \union {x}
<1>1. /\ \A i \in DOMAIN M[r] : \/ i \in DOMAIN L[r] /\ M[r][i] = L[r][i]
                                \/ i = Len(L[r]) + 1 /\ M[r][i] = x
      /\ Entries(M[r]) = Entries(L[r]) \union {x}
  <2> DEFINE s == L[r]
  <2>1. s \in Seq(Post) /\ M[r] = Append(s, x)
    BY DEF Adds
  <2> HIDE DEF s
  <2>2. /\ Entries(Append(s, x)) = Entries(s) \union {x}
        /\ \A i \in DOMAIN Append(s, x) : \/ i \in DOMAIN s /\ Append(s, x)[i] = s[i]
                                          \/ i = Len(s) + 1 /\ Append(s, x)[i] = x
    BY <2>1, EntriesAppended, AppendProperties, LenProperties
  <2> QED
    BY <2>1, <2>2 DEF s
<1>2. ASSUME NEW p \in Place, NEW i \in DOMAIN M[p]
      PROVE \/ i \in DOMAIN L[p] /\ M[p][i] = L[p][i]
            \/ p = r /\ i = Len(L[r]) + 1 /\ M[p][i] = x
  BY <1>1 DEF Adds
<1>3. Counted(x) => \A p \in Place : \A i \in DOMAIN L[p] : L[p][i] # x
  BY DEF InLines, Entries
<1>4. ASSUME NEW p \in Place, NEW q \in Place, NEW i \in DOMAIN M[p], NEW j \in DOMAIN M[q],
             Counted(M[p][i]), M[p][i] = M[q][j]
      PROVE p = q /\ i = j
  <2>1. CASE i \in DOMAIN L[p] /\ M[p][i] = L[p][i]
    <3>1. CASE j \in DOMAIN L[q] /\ M[q][j] = L[q][j]
      <4>1. Counted(L[p][i]) /\ L[p][i] = L[q][j]
        BY <1>4, <2>1, <3>1
      <4> QED
        BY <2>1, <3>1, <4>1 DEF Distinct
    <3>2. CASE q = r /\ j = Len(L[r]) + 1 /\ M[q][j] = x
      BY <1>3, <1>4, <2>1, <3>2
    <3> QED
      BY <1>2, <3>1, <3>2
  <2>2. CASE p = r /\ i = Len(L[r]) + 1 /\ M[p][i] = x
    <3>1. CASE j \in DOMAIN L[q] /\ M[q][j] = L[q][j]
      BY <1>3, <1>4, <2>2, <3>1
    <3>2. CASE q = r /\ j = Len(L[r]) + 1 /\ M[q][j] = x
      BY <2>2, <3>2
    <3> QED
      BY <1>2, <3>1, <3>2
  <2> QED
    BY <1>2, <2>1, <2>2
<1>5. Distinct(M)
  BY <1>4 DEF Distinct
<1>6. ASSUME NEW p \in Place PROVE Entries(M[p]) \subseteq InLines(L) \union {x}
  <2>1. Entries(L[p]) \subseteq InLines(L)
    BY DEF InLines
  <2>2. Entries(M[p]) \subseteq Entries(L[p]) \union {x}
    BY <1>1 DEF Adds
  <2> QED
    BY <2>1, <2>2
<1>7. InLines(M) \subseteq InLines(L) \union {x}
  BY <1>6 DEF InLines
<1> QED
  BY <1>5, <1>7

----------------------------------------------------------------------------
(* The lines of the engine and how its steps change them. *)

\* The signals of the FIFO and of a batch are posts.
LEMMA PostSignals == Signal \subseteq Post /\ IngestSignal \subseteq Post
BY DEF Signal, IngestSignal, Post, Source

\* The kinds of places.
LEMMA PlaceIs ==
  /\ <<"queue", 0>> \in Place /\ <<"buffer", 0>> \in Place
  /\ \A w \in Worker, n \in Nat : <<w, n>> \in Place
  /\ \A p \in Place : \/ p = <<"queue", 0>> \/ p = <<"buffer", 0>>
                      \/ \E w \in Worker : p = <<w, 0>>
                      \/ \E w \in Worker, n \in Nat \ {0} : p = <<w, n>>
BY DEF Place

\* The line of each place.
LEMMA LinesAre ==
  /\ Lines[<<"queue", 0>>] = serialQueue /\ Lines[<<"buffer", 0>>] = liveBuffer
  /\ \A w \in Worker : Lines[<<w, 0>>] = InHand(w)
  /\ \A w \in Worker, n \in Nat \ {0} : Lines[<<w, n>>] = Layer(w, n - 1)
BY PlaceIs DEF Lines, Worker

\* And in the next state.
LEMMA LinesAreNext ==
  /\ Lines'[<<"queue", 0>>] = serialQueue' /\ Lines'[<<"buffer", 0>>] = liveBuffer'
  /\ \A w \in Worker : Lines'[<<w, 0>>] = InHand(w)'
  /\ \A w \in Worker, n \in Nat \ {0} : Lines'[<<w, n>>] = Layer(w, n - 1)'
BY PlaceIs DEF Lines, Worker

\* Each line is a sequence of posts.
LEMMA LinesTyped == ASSUME TypeOK PROVE Lines \in [Place -> Seq(Post)]
<1>1. /\ serialQueue \in Seq(Post) /\ liveBuffer \in Seq(Post)
      /\ \A w \in Worker : stream[w] \in Seq(Post)
  BY PostSignals, SeqMonotonic DEF TypeOK, ControlTyped, PassTyped
<1>2. ASSUME NEW w \in Worker PROVE InHand(w) \in Seq(Post)
  <2>1. [kind |-> job[w].kind, fact |-> job[w].fact] \in Post
    BY DEF TypeOK, ControlTyped, Job, Post, Source
  <2> QED
    BY <2>1 DEF InHand
<1>3. ASSUME NEW w \in Worker, NEW h \in Nat PROVE Layer(w, h) \in Seq(Post)
  <2> DEFINE fs == frames[w]
  <2>1. fs \in Seq(Frame)
    BY DEF TypeOK, PassTyped
  <2>2. Len(fs) \in Nat
    BY <2>1, LenProperties
  <2>3. ASSUME h < Len(fs) PROVE fs[Len(fs) - h].stream \in Seq(Post)
    <3>1. Len(fs) - h \in 1..Len(fs)
      BY <2>2, <2>3
    <3> HIDE DEF fs
    <3>2. fs[Len(fs) - h] \in Frame
      BY <2>1, <3>1, ElementOfSeq
    <3>3. fs[Len(fs) - h].stream \in Seq(IngestSignal)
      BY <3>2 DEF Frame
    <3> QED
      BY <3>3, PostSignals, SeqMonotonic
  <2> QED
    BY <1>1, <2>3 DEF Layer
<1>4. ASSUME NEW p \in Place PROVE Lines[p] \in Seq(Post)
  <2>1. CASE p = <<"queue", 0>> \/ p = <<"buffer", 0>>
    BY <1>1, <2>1, LinesAre
  <2>2. ASSUME NEW w \in Worker, p = <<w, 0>> PROVE Lines[p] \in Seq(Post)
    BY <1>2, <2>2, LinesAre
  <2>3. ASSUME NEW w \in Worker, NEW n \in Nat \ {0}, p = <<w, n>> PROVE Lines[p] \in Seq(Post)
    <3>1. n - 1 \in Nat
      OBVIOUS
    <3> QED
      BY <1>3, <2>3, <3>1, LinesAre
  <2> QED
    BY <2>1, <2>2, <2>3, PlaceIs
<1> QED
  BY <1>4 DEF Lines

\* A line changes only with what it is made of.
LEMMA LinesStay ==
  ASSUME NEW p \in Place
  PROVE /\ p = <<"queue", 0>> /\ serialQueue' = serialQueue => Lines'[p] = Lines[p]
        /\ p = <<"buffer", 0>> /\ liveBuffer' = liveBuffer => Lines'[p] = Lines[p]
        /\ \A w \in Worker :
             p = <<w, 0>> /\ pc'[w] = pc[w] /\ job'[w] = job[w] => Lines'[p] = Lines[p]
        /\ \A w \in Worker, n \in Nat \ {0} :
             p = <<w, n>> /\ stream'[w] = stream[w] /\ frames'[w] = frames[w]
               => Lines'[p] = Lines[p]
<1>1. \A w \in Worker : pc'[w] = pc[w] /\ job'[w] = job[w] => InHand(w)' = InHand(w)
  BY DEF InHand
<1>2. \A w \in Worker, n \in Nat \ {0} :
        stream'[w] = stream[w] /\ frames'[w] = frames[w] => Layer(w, n - 1)' = Layer(w, n - 1)
  BY DEF Layer
<1> QED
  BY <1>1, <1>2, LinesAre, LinesAreNext

\* A step of w that touches neither queue nor buffer nor streams, and leaves w with the
\* signal it held or with none.
LEMMA HandLoses ==
  ASSUME NEW w \in Worker, UNCHANGED <<serialQueue, liveBuffer, stream, frames>>,
         \A v \in Worker \ {w} : pc'[v] = pc[v] /\ job'[v] = job[v],
         pc'[w] \notin BeforeAccept \/ (pc[w] \in BeforeAccept /\ job'[w] = job[w])
  PROVE Loses(Lines, Lines') /\ \A p \in Place \ {<<w, 0>>} : Lines'[p] = Lines[p]
<1>1. InHand(w)' = InHand(w) \/ InHand(w)' = <<>>
  BY DEF InHand
<1>2. Lines'[<<w, 0>>] = Lines[<<w, 0>>] \/ Lines'[<<w, 0>>] = <<>>
  BY <1>1, LinesAre, LinesAreNext
<1>3. ASSUME NEW p \in Place, p # <<w, 0>> PROVE Lines'[p] = Lines[p]
  BY <1>3, LinesStay, PlaceIs
<1> QED
  BY <1>2, <1>3 DEF Loses

----------------------------------------------------------------------------
(* Steps that neither write nor emit. *)

\* No use of a source is forgotten.
UsedGrows == consumed \subseteq consumed' /\ \A s \in Local : copies[s] # 0 => copies'[s] # 0

\* What is owed stays owed, and nothing else is.
OwesKept ==
  /\ lifecycle' # "down" => lifecycle # "down"
  /\ \A w \in Worker : /\ Owes(w)' <=> Owes(w)
                       /\ Owes(w) => job'[w].fact = job[w].fact

\* What SignalsNew asks of a signal that a step adds.
NewSignal(x) ==
  Counted(x) => /\ Used(x.fact)' /\ (x.kind = "message" <=> x.fact \in Fact)
                /\ EventOf[x.fact] \notin AcceptedEvents

\* A step that neither writes nor emits keeps the invariant if the lines stay distinct and
\* what they gain is new.
LEMMA ShowKept ==
  ASSUME Showing, UNCHANGED <<accepted, projection>>, UsedGrows, OwesKept, WritesCounted',
         Distinct(Lines'), \A x \in InLines(Lines') : x \in InLines(Lines) \/ NewSignal(x)
  PROVE Showing'
<1>1. AcceptedEvents' = AcceptedEvents /\ \A s : Used(s) => Used(s)'
  BY DEF AcceptedEvents, UsedGrows, Used
<1>2. SignalsNew'
  <2> SUFFICES ASSUME NEW x \in InLines(Lines'), Counted(x)
               PROVE /\ Used(x.fact)' /\ (x.kind = "message" <=> x.fact \in Fact)
                     /\ EventOf[x.fact] \notin AcceptedEvents'
    BY DEF SignalsNew
  <2> QED
    BY <1>1 DEF Showing, SignalsNew, NewSignal
<1>3. LogIsUsed'
  BY <1>1 DEF Showing, LogIsUsed
<1>4. ShownOrOwed'
  <2>1. Owed' = Owed
    BY Workers DEF OwesKept, Owed
  <2> QED
    BY <1>1, <2>1 DEF Showing, ShownOrOwed, OwesKept
<1> QED
  BY <1>2, <1>3, <1>4 DEF Showing

\* And the lines at most lose some.
LEMMA ShowLoses ==
  ASSUME TypeOK, Showing, UNCHANGED <<accepted, projection>>, UsedGrows, OwesKept,
         WritesCounted', Loses(Lines, Lines')
  PROVE Showing'
<1>1. Distinct(Lines') /\ InLines(Lines') \subseteq InLines(Lines)
  <2> DEFINE L == Lines
             M == Lines'
  <2>1. L \in [Place -> Seq(Post)] /\ Distinct(L) /\ Loses(L, M)
    BY LinesTyped DEF Showing
  <2> HIDE DEF L, M
  <2>2. Distinct(M) /\ InLines(M) \subseteq InLines(L)
    BY <2>1, DistinctLoses
  <2> QED
    BY <2>2 DEF L, M
<1> QED
  BY <1>1, ShowKept

\* A continuation that handles no signal goes on handling none.
LEMMA ShowStill ==
  ASSUME TypeOK, Showing, NEW w \in Worker,
         UNCHANGED <<accepted, projection, consumed, serialQueue, liveBuffer, job, stream,
                     frames>>,
         \A s \in Local : copies[s] # 0 => copies'[s] # 0,
         lifecycle' # "down" => lifecycle # "down",
         \A v \in Worker \ {w} : pc'[v] = pc[v],
         pc'[w] = pc[w] \/ (pc[w] \notin Handler /\ pc'[w] \notin Handler)
  PROVE Showing'
<1>1. \A v \in Worker : pc'[v] = pc[v] \/ (pc[v] \notin Handler /\ pc'[v] \notin Handler)
  OBVIOUS
<1>2. OwesKept
  BY <1>1 DEF OwesKept, Owes, Handler
<1>3. WritesCounted'
  BY <1>1 DEF Showing, WritesCounted, Handler
<1>4. \A v \in Worker : InHand(v)' = InHand(v)
  BY <1>1 DEF InHand, BeforeAccept, Handler
<1>5. Loses(Lines, Lines')
  <2> SUFFICES ASSUME NEW p \in Place PROVE Lines'[p] = Lines[p]
    BY DEF Loses
  <2> QED
    BY <1>4, LinesAre, LinesAreNext, LinesStay, PlaceIs
<1> QED
  BY <1>2, <1>3, <1>5, ShowLoses DEF UsedGrows

\* The steps of a retry pass around its batch.
LEMMA ShowPass ==
  ASSUME LedgerInv, Showing, NEW w \in Worker,
         \/ PruneExpired(w) \/ EnterRetrying(w) \/ ChargeBatch(w) \/ RemoveExhausted(w)
         \/ SaveRemoval(w)
  PROVE Showing'
<1>1. TypeOK /\ pc \in [Worker -> PC] /\ lifecycle # "down"
  <2>1. TypeOK /\ pc \in [Worker -> PC]
    BY DEF LedgerInv, DurableInv, TypeOK, ControlTyped
  <2> QED
    BY <2>1 DEF LedgerInv, DownIsIdle, PruneExpired, EnterRetrying, ChargeBatch, RemoveExhausted,
       SaveRemoval, ReportRemoved
<1>2. CASE PruneExpired(w) \/ EnterRetrying(w)
  BY <1>1, <1>2, ShowStill DEF PruneExpired, EnterRetrying, IssueSave, Await, Handler
<1>3. CASE ChargeBatch(w) \/ RemoveExhausted(w) \/ SaveRemoval(w)
  BY <1>1, <1>3, ShowStill DEF ChargeBatch, RemoveExhausted, SaveRemoval, ReportRemoved,
     IssueSave, Await, Handler
<1> QED
  BY <1>2, <1>3

\* The steps of the cutover that move no signal, and the checkpoint's.
LEMMA ShowCutover ==
  ASSUME LedgerInv, Showing,
         \/ Rebuild \/ EnterCatchingUp \/ CatchUp \/ EnterBufferingLive \/ EnterLive
         \/ SaveCheckpoint \/ LateBootstrap \/ ConsumeLatch
  PROVE Showing'
<1>1. TypeOK /\ pc \in [Worker -> PC] /\ lifecycle # "down" /\ "cutover" \in Worker
  <2>1. TypeOK /\ pc \in [Worker -> PC] /\ "cutover" \in Worker
    BY Workers DEF LedgerInv, DurableInv, TypeOK, ControlTyped
  <2>2. lifecycle # "down"
    BY SessionStepRuns DEF SessionStep, LedgerInv, DurableInv
  <2> QED
    BY <2>1, <2>2
<1>2. CASE Rebuild \/ EnterCatchingUp
  BY <1>1, <1>2, ShowStill DEF Rebuild, EnterCatchingUp, Await, Handler
<1>3. CASE CatchUp
  <2>1. \A s \in Local : copies[s] # 0 => copies'[s] # 0
    BY <1>1, <1>3 DEF CatchUp, TypeOK, GroupTyped, Source
  <2> QED
    BY <1>1, <1>3, <2>1, ShowStill DEF CatchUp, Await, Handler
<1>4. CASE EnterBufferingLive \/ EnterLive
  BY <1>1, <1>4, ShowStill DEF EnterBufferingLive, EnterLive, Await, Handler
<1>5. CASE SaveCheckpoint \/ LateBootstrap
  BY <1>1, <1>5, ShowStill DEF SaveCheckpoint, LateBootstrap
<1>6. CASE ConsumeLatch
  <2>1. frames' = frames
    <3>1. frames \in [Worker -> Seq(Frame)] /\ <<>> \o frames["cutover"] = frames["cutover"]
      BY <1>1, ConcatEmptySeq DEF TypeOK, PassTyped
    <3> QED
      BY <1>1, <1>6, <3>1 DEF ConsumeLatch, EnterPass
  <2> QED
    BY <1>1, <1>6, <2>1, ShowStill DEF ConsumeLatch, EnterPass, Await, Handler
<1> QED
  BY <1>2, <1>3, <1>4, <1>5, <1>6

\* The handlers, up to the write of the event.
LEMMA ShowHandler ==
  ASSUME LedgerInv, Showing, NEW w \in Worker,
         \/ HandleMessage(w) \/ HandleDeferred(w) \/ HandleSkipped(w) \/ HandleMalformed(w)
  PROVE Showing'
<1>1. /\ TypeOK /\ pc \in [Worker -> PC] /\ job \in [Worker -> Job]
      /\ lifecycle # "down" /\ WritesCounted
  <2>1. TypeOK /\ pc \in [Worker -> PC] /\ job \in [Worker -> Job] /\ DownIsIdle
    BY DEF LedgerInv, DurableInv, TypeOK, ControlTyped
  <2>2. pc[w] = "append"
    BY DEF HandleMessage, HandleDeferred, HandleSkipped, HandleMalformed, Handling
  <2> QED
    BY <2>1, <2>2 DEF DownIsIdle, Showing
<1>2. /\ UNCHANGED <<accepted, projection, consumed, copies, serialQueue, liveBuffer, stream,
                     frames>>
      /\ lifecycle' = lifecycle
      /\ pc[w] = "append" /\ job[w].kind \in {"message", "deferred", "skipped", "malformed"}
      /\ \/ pc'[w] \in {"pass", "idle"}
         \/ /\ job' = job
            /\ \/ pc'[w] = "save" /\ (job[w].kind # "message" \/ job[w].retry)
               \/ pc'[w] \in {"accept", "acceptDeferred"} /\ job[w].kind = "message"
      /\ \A v \in Worker \ {w} : pc'[v] = pc[v] /\ job'[v] = job[v]
  <2>1. CASE HandleMessage(w)
    BY <1>1, <2>1 DEF HandleMessage, Handling, Return, IssueSave, Await
  <2>2. CASE HandleDeferred(w)
    BY <1>1, <2>2 DEF HandleDeferred, Handling, Return, IssueSave, Await
  <2>3. CASE HandleSkipped(w) \/ HandleMalformed(w)
    BY <1>1, <2>3 DEF HandleSkipped, HandleMalformed, Handling, Return, IssueSave, Await
  <2> QED
    BY <2>1, <2>2, <2>3
<1>3. OwesKept
  BY <1>1, <1>2 DEF OwesKept, Owes
<1>4. WritesCounted'
  BY <1>1, <1>2 DEF WritesCounted
<1>5. Loses(Lines, Lines')
  BY <1>2, HandLoses DEF BeforeAccept
<1> QED
  BY <1>1, <1>2, <1>3, <1>4, <1>5, ShowLoses DEF UsedGrows

\* The accepted log gains the event, unless it is there.
LEMMA AcceptsOne ==
  ASSUME TypeOK, NEW s \in Source, AppendAcceptedEvent(s), EventOf[s] \notin AcceptedEvents
  PROVE /\ Len(accepted') = Len(accepted) + 1 /\ DOMAIN accepted' = 1..(Len(accepted) + 1)
        /\ \A i \in DOMAIN accepted : accepted'[i] = accepted[i]
        /\ accepted'[Len(accepted) + 1] = [ev |-> EventOf[s], fact |-> s]
        /\ AcceptedEvents' = AcceptedEvents \union {EventOf[s]}
<1> DEFINE entry == [ev |-> EventOf[s], fact |-> s]
           Entry == [ev : Event, fact : Source]
<1>1. accepted \in Seq(Entry) /\ entry \in Entry /\ accepted' = Append(accepted, entry)
  BY SourceAssumption DEF TypeOK, StoresTyped, AppendAcceptedEvent
<1>2. entry.ev = EventOf[s]
  OBVIOUS
<1> HIDE DEF entry, Entry
<1>3. /\ Len(accepted) \in Nat /\ DOMAIN accepted = 1..Len(accepted)
      /\ Len(accepted') = Len(accepted) + 1 /\ DOMAIN accepted' = 1..(Len(accepted) + 1)
      /\ \A i \in 1..Len(accepted) : accepted'[i] = accepted[i]
      /\ accepted'[Len(accepted) + 1] = entry
  BY <1>1, AppendProperties, LenProperties
<1>4. AcceptedEvents' = AcceptedEvents \union {EventOf[s]}
  <2>1. ASSUME NEW i \in DOMAIN accepted'
        PROVE accepted'[i].ev \in AcceptedEvents \union {EventOf[s]}
    <3>1. CASE i \in 1..Len(accepted)
      BY <1>3, <3>1 DEF AcceptedEvents
    <3>2. CASE i = Len(accepted) + 1
      BY <1>2, <1>3, <3>2
    <3> QED
      BY <1>3, <3>1, <3>2
  <2>2. \A i \in DOMAIN accepted : i \in DOMAIN accepted' /\ accepted'[i].ev = accepted[i].ev
    BY <1>3
  <2>3. \E i \in DOMAIN accepted' : accepted'[i].ev = EventOf[s]
    <3>1. Len(accepted) + 1 \in DOMAIN accepted'
      BY <1>3
    <3> QED
      BY <1>2, <1>3, <3>1
  <2>4. AcceptedEvents' = {accepted'[i].ev : i \in DOMAIN accepted'}
    BY DEF AcceptedEvents
  <2> QED
    BY <2>1, <2>2, <2>3, <2>4 DEF AcceptedEvents
<1> QED
  BY <1>3, <1>4 DEF entry

----------------------------------------------------------------------------
(* The writes and the emissions. *)

\* Each envelope and each local edit is an event of its own.
OneEventEach == \A s, t \in Source : EventOf[s] = EventOf[t] => s = t

\* What a step of w does to other continuations.
OnlyMoves(w) == \A v \in Worker \ {w} : pc'[v] = pc[v] /\ job'[v] = job[v]

\* What is written is new, and no signal that is left has the same event.
LEMMA WritesNew ==
  ASSUME OneEventEach, TypeOK, Showing, NEW w \in Worker, AppendAcceptedEvent(job[w].fact),
         pc[w] \in {"accept", "acceptDeferred"}, pc'[w] \notin BeforeAccept, OnlyMoves(w),
         UNCHANGED <<consumed, copies, serialQueue, liveBuffer, stream, frames>>
  PROVE /\ EventOf[job[w].fact] \notin AcceptedEvents
        /\ Distinct(Lines') /\ SignalsNew' /\ LogIsUsed'
<1> DEFINE x == [kind |-> job[w].kind, fact |-> job[w].fact]
           L == Lines
           M == Lines'
           hand == <<w, 0>>
<1>1. L \in [Place -> Seq(Post)] /\ Distinct(L) /\ SignalsNew /\ LogIsUsed /\ hand \in Place
  BY LinesTyped, PlaceIs DEF Showing
<1>2. /\ Loses(L, M) /\ M[hand] = <<>> /\ L[hand] = <<x>>
      /\ \A p \in Place \ {hand} : M[p] = L[p]
  <2>1. InHand(w) = <<x>> /\ InHand(w)' = <<>>
    BY DEF InHand, BeforeAccept
  <2> QED
    BY <2>1, HandLoses, LinesAre, LinesAreNext DEF OnlyMoves
<1>3. Distinct(M) /\ InLines(M) \subseteq InLines(L)
  <2> HIDE DEF L, M, hand
  <2> QED
    BY <1>1, <1>2, DistinctLoses
<1>4. /\ Counted(x) /\ x \in InLines(L) /\ 1 \in DOMAIN L[hand] /\ L[hand][1] = x
      /\ x.fact = job[w].fact /\ x.fact \in Source
  <2>1. Counted(x) /\ x.fact = job[w].fact /\ x.fact \in Source
    BY JobSource DEF Showing, WritesCounted, Counted
  <2> HIDE DEF L, x, hand
  <2>2. 1 \in DOMAIN L[hand] /\ L[hand][1] = x
    BY <1>2
  <2>3. x \in InLines(L)
    BY <1>1, <2>2 DEF InLines, Entries
  <2> QED
    BY <2>1, <2>2, <2>3
<1>5. /\ Used(x.fact) /\ (x.kind = "message" <=> x.fact \in Fact)
      /\ EventOf[x.fact] \notin AcceptedEvents
  BY <1>1, <1>4 DEF SignalsNew
<1>6. AcceptedEvents' = AcceptedEvents \union {EventOf[x.fact]}
  BY <1>4, <1>5, AcceptsOne
<1>7. ASSUME NEW y \in InLines(M), Counted(y)
      PROVE /\ Used(y.fact)' /\ (y.kind = "message" <=> y.fact \in Fact)
            /\ EventOf[y.fact] \notin AcceptedEvents'
  <2>1. /\ Used(y.fact) /\ (y.kind = "message" <=> y.fact \in Fact)
        /\ EventOf[y.fact] \notin AcceptedEvents
    BY <1>1, <1>3, <1>7 DEF SignalsNew
  <2>2. PICK p \in Place : \E i \in DOMAIN M[p] : M[p][i] = y
    BY <1>7 DEF InLines, Entries
  <2>3. PICK i \in DOMAIN M[p] : M[p][i] = y
    BY <2>2
  <2>4. p # hand /\ M[p] = L[p]
    BY <1>2, <2>3
  <2>5. y # x
    BY <1>1, <1>4, <1>7, <2>3, <2>4 DEF Distinct
  <2>6. y \in Post /\ x \in Post
    <3> DEFINE s == L[p]
    <3>1. s \in Seq(Post) /\ i \in DOMAIN s /\ s[i] = y
      BY <1>1, <2>3, <2>4
    <3>2. x \in Post
      BY <1>4 DEF Post, Counted, IngestKind
    <3> HIDE DEF s
    <3>3. s[i] \in Post
      BY <3>1, LenProperties, ElementOfSeq
    <3> QED
      BY <3>1, <3>2, <3>3
  <2>7. y.fact # x.fact
    <3> SUFFICES ASSUME y.fact = x.fact PROVE FALSE
      OBVIOUS
    <3>1. y.kind = x.kind
      BY <1>4, <1>5, <1>7, <2>1 DEF Counted
    <3> QED
      BY <2>5, <2>6, <3>1 DEF Post
  <2>8. EventOf[y.fact] # EventOf[x.fact]
    BY <1>4, <2>6, <2>7 DEF OneEventEach, Post
  <2> QED
    BY <1>6, <2>1, <2>8 DEF Used
<1>8. SignalsNew'
  BY <1>7 DEF SignalsNew
<1>9. LogIsUsed'
  <2> HIDE DEF x
  <2>1. /\ DOMAIN accepted' = 1..(Len(accepted) + 1)
        /\ \A i \in DOMAIN accepted : accepted'[i] = accepted[i]
        /\ accepted'[Len(accepted) + 1] = [ev |-> EventOf[x.fact], fact |-> x.fact]
    BY <1>4, <1>5, AcceptsOne
  <2>2. DOMAIN accepted = 1..Len(accepted) /\ Len(accepted) \in Nat
    BY AcceptedTyped
  <2>3. \A t : Used(t) => Used(t)'
    BY DEF Used
  <2>4. ASSUME NEW i \in DOMAIN accepted'
        PROVE (accepted[i].ev = EventOf[accepted[i].fact] /\ Used(accepted[i].fact))'
    <3>1. CASE i \in DOMAIN accepted
      BY <1>1, <2>1, <2>3, <3>1 DEF LogIsUsed
    <3>2. CASE i = Len(accepted) + 1
      BY <1>5, <2>1, <2>3, <3>2
    <3> QED
      BY <2>1, <2>2, <3>1, <3>2
  <2> QED
    BY <2>4 DEF LogIsUsed
<1> QED
  BY <1>3, <1>4, <1>5, <1>8, <1>9

\* How the debt changes with the step of one continuation.
LEMMA OwedIs ==
  ASSUME NEW w \in Worker, OnlyMoves(w)
  PROVE /\ Owed \in Nat /\ Owed' \in Nat
        /\ Owes(w) /\ Owes(w)' => Owed' = Owed
        /\ ~Owes(w) /\ ~Owes(w)' => Owed' = Owed
        /\ ~Owes(w) /\ Owes(w)' => Owed' = Owed + 1
        /\ Owes(w) /\ ~Owes(w)' => Owed = Owed' + 1
<1>1. \A v \in Worker \ {w} : Owes(v)' <=> Owes(v)
  BY DEF OnlyMoves, Owes
<1>2. w = "chain" \/ w = "cutover"
  BY DEF Worker
<1>3. w # "chain" => (Owes("chain")' <=> Owes("chain"))
  BY <1>1, Workers
<1>4. w # "cutover" => (Owes("cutover")' <=> Owes("cutover"))
  BY <1>1, Workers
<1> QED
  BY <1>2, <1>3, <1>4 DEF Owed

\* An emission makes one longer what is shown.
LEMMA EmitsOne ==
  ASSUME TypeOK, NEW s \in Source, EmitAccepted(s)
  PROVE /\ Len(projection) \in Nat /\ Len(projection') = Len(projection) + 1
        /\ \A e : (\E i \in DOMAIN projection : projection[i] = e) \/ e = EventOf[s]
                  => \E i \in DOMAIN projection' : projection'[i] = e
<1>1. /\ projection \in Seq(Event) /\ EventOf[s] \in Event
      /\ projection' = Append(projection, EventOf[s])
  BY SourceAssumption DEF TypeOK, OutputsTyped, EmitAccepted
<1>2. /\ Len(projection) \in Nat /\ DOMAIN projection = 1..Len(projection)
      /\ Len(projection') = Len(projection) + 1 /\ DOMAIN projection' = 1..(Len(projection) + 1)
      /\ \A i \in 1..Len(projection) : projection'[i] = projection[i]
      /\ projection'[Len(projection) + 1] = EventOf[s]
  BY <1>1, AppendProperties, LenProperties
<1>3. Len(projection) + 1 \in DOMAIN projection'
  BY <1>2
<1>4. \A i \in DOMAIN projection : i \in DOMAIN projection' /\ projection'[i] = projection[i]
  BY <1>2
<1> QED
  BY <1>2, <1>3, <1>4

\* What the invariant says of the control state.
LEMMA ShowTypes ==
  ASSUME LedgerInv
  PROVE /\ TypeOK /\ DownIsIdle /\ pc \in [Worker -> PC] /\ job \in [Worker -> Job]
        /\ stream \in [Worker -> Seq(IngestSignal)] /\ frames \in [Worker -> Seq(Frame)]
        /\ serialQueue \in Seq(Signal) /\ liveBuffer \in Seq(IngestSignal)
        /\ consumed \in SUBSET Fact /\ copies \in [Source -> Nat]
BY DEF LedgerInv, DurableInv, TypeOK, ControlTyped, PassTyped, GroupTyped

\* The write of an event that was not parked emits it in the same step.
LEMMA ShowAcceptEvent ==
  ASSUME OneEventEach, LedgerInv, Showing, NEW w \in Worker, AcceptEvent(w)
  PROVE Showing'
<1>1. /\ TypeOK /\ lifecycle # "down" /\ pc[w] = "accept" /\ pc'[w] \in {"pass", "idle"}
      /\ OnlyMoves(w) /\ job[w].fact \in Source
      /\ AppendAcceptedEvent(job[w].fact) /\ EmitAccepted(job[w].fact)
      /\ UNCHANGED <<consumed, copies, serialQueue, liveBuffer, stream, frames, lifecycle>>
  BY ShowTypes, JobSource DEF AcceptEvent, Return, Await, DownIsIdle, OnlyMoves
<1>2. /\ EventOf[job[w].fact] \notin AcceptedEvents
      /\ Distinct(Lines') /\ SignalsNew' /\ LogIsUsed'
  BY <1>1, WritesNew DEF BeforeAccept
<1>3. WritesCounted'
  BY <1>1 DEF Showing, WritesCounted, OnlyMoves
<1>4. /\ Len(accepted') = Len(accepted) + 1
      /\ AcceptedEvents' = AcceptedEvents \union {EventOf[job[w].fact]}
  BY <1>1, <1>2, AcceptsOne
<1>5. /\ Len(projection) \in Nat /\ Len(projection') = Len(projection) + 1
      /\ \A e : (\E i \in DOMAIN projection : projection[i] = e) \/ e = EventOf[job[w].fact]
                => \E i \in DOMAIN projection' : projection'[i] = e
  BY <1>1, EmitsOne
<1>6. ~Owes(w) /\ ~Owes(w)'
  BY <1>1 DEF Owes
<1>7. Owed' = Owed /\ Owed \in Nat
  BY <1>1, <1>6, OwedIs
<1>8. \A v \in Worker : Owes(v) => Owes(v)' /\ job'[v] = job[v]
  BY <1>1, <1>6 DEF OnlyMoves, Owes
<1>9. ShownOrOwed'
  <2>1. Len(accepted') = Len(projection') + Owed'
    BY <1>1, <1>4, <1>5, <1>7 DEF Showing, ShownOrOwed
  <2>2. ASSUME NEW e \in AcceptedEvents'
        PROVE \/ \E i \in DOMAIN projection' : projection'[i] = e
              \/ \E v \in Worker : Owes(v)' /\ EventOf[job'[v].fact] = e
    BY <1>1, <1>4, <1>5, <1>8 DEF Showing, ShownOrOwed
  <2> QED
    BY <2>1, <2>2 DEF ShownOrOwed
<1> QED
  BY <1>2, <1>3, <1>9 DEF Showing

\* The write of an event that was parked leaves it owed.
LEMMA ShowAcceptDeferredAppend ==
  ASSUME OneEventEach, LedgerInv, Showing, NEW w \in Worker, AcceptDeferredAppend(w)
  PROVE Showing'
<1>1. /\ TypeOK /\ lifecycle # "down" /\ pc[w] = "acceptDeferred" /\ pc'[w] = "unpark"
      /\ OnlyMoves(w) /\ job[w].fact \in Source /\ AppendAcceptedEvent(job[w].fact)
      /\ UNCHANGED <<consumed, copies, serialQueue, liveBuffer, stream, frames, lifecycle, job,
                     projection>>
  BY ShowTypes, JobSource DEF AcceptDeferredAppend, Await, DownIsIdle, OnlyMoves
<1>2. /\ EventOf[job[w].fact] \notin AcceptedEvents
      /\ Distinct(Lines') /\ SignalsNew' /\ LogIsUsed'
  BY <1>1, WritesNew DEF BeforeAccept
<1>3. WritesCounted'
  BY <1>1 DEF Showing, WritesCounted, OnlyMoves
<1>4. /\ Len(accepted') = Len(accepted) + 1
      /\ AcceptedEvents' = AcceptedEvents \union {EventOf[job[w].fact]}
  BY <1>1, <1>2, AcceptsOne
<1>5. Len(projection) \in Nat
  BY <1>1, LenProperties DEF TypeOK, OutputsTyped
<1>6. ~Owes(w) /\ Owes(w)'
  BY <1>1 DEF Owes
<1>7. Owed' = Owed + 1 /\ Owed \in Nat
  BY <1>1, <1>6, OwedIs
<1>8. \A v \in Worker : Owes(v) => Owes(v)'
  BY <1>1, <1>6 DEF OnlyMoves, Owes
<1>9. ShownOrOwed'
  <2>1. Len(accepted') = Len(projection') + Owed'
    BY <1>1, <1>4, <1>5, <1>7 DEF Showing, ShownOrOwed
  <2>2. ASSUME NEW e \in AcceptedEvents'
        PROVE \/ \E i \in DOMAIN projection' : projection'[i] = e
              \/ \E v \in Worker : Owes(v)' /\ EventOf[job'[v].fact] = e
    BY <1>1, <1>4, <1>6, <1>8 DEF Showing, ShownOrOwed
  <2> QED
    BY <2>1, <2>2 DEF ShownOrOwed
<1> QED
  BY <1>2, <1>3, <1>9 DEF Showing

\* A debt is paid by an emission.
LEMMA ShowPays ==
  ASSUME TypeOK, Showing, NEW w \in Worker, OnlyMoves(w), lifecycle # "down",
         Owes(w), ~Owes(w)', EmitAccepted(job[w].fact), WritesCounted', Loses(Lines, Lines'),
         UNCHANGED <<accepted, consumed, copies>>
  PROVE Showing'
<1>1. Distinct(Lines') /\ InLines(Lines') \subseteq InLines(Lines)
  <2> DEFINE L == Lines
             M == Lines'
  <2>1. L \in [Place -> Seq(Post)] /\ Distinct(L) /\ Loses(L, M)
    BY LinesTyped DEF Showing
  <2> HIDE DEF L, M
  <2>2. Distinct(M) /\ InLines(M) \subseteq InLines(L)
    BY <2>1, DistinctLoses
  <2> QED
    BY <2>2 DEF L, M
<1>2. AcceptedEvents' = AcceptedEvents /\ \A s : Used(s)' <=> Used(s)
  BY DEF AcceptedEvents, Used
<1>3. SignalsNew'
  BY <1>1, <1>2 DEF Showing, SignalsNew
<1>4. LogIsUsed'
  BY <1>2 DEF Showing, LogIsUsed
<1>5. /\ Len(projection) \in Nat /\ Len(projection') = Len(projection) + 1
      /\ \A e : (\E i \in DOMAIN projection : projection[i] = e) \/ e = EventOf[job[w].fact]
                => \E i \in DOMAIN projection' : projection'[i] = e
  BY JobSource, EmitsOne
<1>6. Owed = Owed' + 1 /\ Owed' \in Nat
  BY OwedIs
<1>7. \A v \in Worker \ {w} : Owes(v) => Owes(v)' /\ job'[v] = job[v]
  BY DEF OnlyMoves, Owes
<1>8. ShownOrOwed'
  <2>1. Len(accepted') = Len(projection') + Owed'
    BY <1>5, <1>6 DEF Showing, ShownOrOwed
  <2>2. ASSUME NEW e \in AcceptedEvents'
        PROVE \/ \E i \in DOMAIN projection' : projection'[i] = e
              \/ \E v \in Worker : Owes(v)' /\ EventOf[job'[v].fact] = e
    <3>1. CASE \E i \in DOMAIN projection : projection[i] = e
      BY <1>5, <3>1
    <3>2. ASSUME NEW v \in Worker, Owes(v), EventOf[job[v].fact] = e
          PROVE \/ \E i \in DOMAIN projection' : projection'[i] = e
                \/ \E u \in Worker : Owes(u)' /\ EventOf[job'[u].fact] = e
      BY <1>5, <1>7, <3>2
    <3> QED
      BY <1>2, <3>1, <3>2 DEF Showing, ShownOrOwed
  <2> QED
    BY <2>1, <2>2 DEF ShownOrOwed
<1> QED
  BY <1>1, <1>3, <1>4, <1>8 DEF Showing

\* A retry emits when it unparks, a fresh message once the save is over.
LEMMA ShowUnpark ==
  ASSUME LedgerInv, Showing, NEW w \in Worker, AcceptDeferredRemove(w)
  PROVE Showing'
<1>1. /\ TypeOK /\ lifecycle # "down" /\ pc[w] = "unpark" /\ pc'[w] = "save" /\ job' = job
      /\ OnlyMoves(w) /\ job[w].kind = "message"
      /\ UNCHANGED <<accepted, consumed, copies, serialQueue, liveBuffer, stream, frames,
                     lifecycle>>
  BY ShowTypes DEF AcceptDeferredRemove, IssueSave, Await, DownIsIdle, OnlyMoves, Showing,
     WritesCounted
<1>2. WritesCounted'
  BY <1>1 DEF Showing, WritesCounted, OnlyMoves
<1>3. Loses(Lines, Lines')
  BY <1>1, HandLoses DEF BeforeAccept, OnlyMoves
<1>4. CASE job[w].retry
  <2>1. EmitAccepted(job[w].fact) /\ Owes(w) /\ ~Owes(w)'
    BY <1>1, <1>4 DEF AcceptDeferredRemove, Owes
  <2> QED
    BY <1>1, <1>2, <1>3, <2>1, ShowPays
<1>5. CASE ~job[w].retry
  <2>1. projection' = projection /\ OwesKept
    BY <1>1, <1>5 DEF AcceptDeferredRemove, NothingAccepted, OwesKept, Owes, OnlyMoves
  <2> QED
    BY <1>1, <1>2, <1>3, <2>1, ShowLoses DEF UsedGrows
<1> QED
  BY <1>4, <1>5

\* The end of the save emits what is still owed.
LEMMA ShowSave ==
  ASSUME LedgerInv, Showing, NEW w \in Worker, SaveDeferredIds(w)
  PROVE Showing'
<1>1. /\ TypeOK /\ lifecycle # "down" /\ pc[w] = "save" /\ pc'[w] \in {"pass", "idle"}
      /\ OnlyMoves(w)
      /\ UNCHANGED <<accepted, consumed, copies, serialQueue, liveBuffer, stream, frames,
                     lifecycle>>
  BY ShowTypes DEF SaveDeferredIds, AfterSave, Return, Await, DownIsIdle, OnlyMoves
<1>2. WritesCounted'
  BY <1>1 DEF Showing, WritesCounted, OnlyMoves
<1>3. Loses(Lines, Lines')
  BY <1>1, HandLoses DEF BeforeAccept, OnlyMoves
<1>4. CASE job[w].kind = "message" /\ ~job[w].retry
  <2>1. EmitAccepted(job[w].fact) /\ Owes(w) /\ ~Owes(w)'
    BY <1>1, <1>4 DEF SaveDeferredIds, AfterSave, Owes
  <2> QED
    BY <1>1, <1>2, <1>3, <2>1, ShowPays
<1>5. CASE ~(job[w].kind = "message" /\ ~job[w].retry)
  <2>1. projection' = projection
    BY <1>5 DEF SaveDeferredIds, AfterSave, NothingAccepted
  <2>2. OwesKept
    BY <1>1, <1>5 DEF OwesKept, Owes, OnlyMoves
  <2> QED
    BY <1>1, <1>2, <1>3, <2>1, <2>2, ShowLoses DEF UsedGrows
<1> QED
  BY <1>4, <1>5

----------------------------------------------------------------------------
(* The steps that move signals. *)

\* A signal goes from one line to another.
LEMMA ShowMoves ==
  ASSUME TypeOK, Showing, UNCHANGED <<accepted, projection>>, UsedGrows, OwesKept,
         WritesCounted', NEW q \in Place, NEW r \in Place, Moves(Lines, Lines', q, r)
  PROVE Showing'
<1>1. Distinct(Lines') /\ InLines(Lines') \subseteq InLines(Lines)
  <2> DEFINE L == Lines
             M == Lines'
  <2>1. L \in [Place -> Seq(Post)] /\ Distinct(L) /\ Moves(L, M, q, r)
    BY LinesTyped DEF Showing
  <2> HIDE DEF L, M
  <2>2. Distinct(M) /\ InLines(M) \subseteq InLines(L)
    BY <2>1, DistinctMoves
  <2> QED
    BY <2>2 DEF L, M
<1> QED
  BY <1>1, ShowKept

\* A source not used yet has its event written nowhere, and no signal carries it.
LEMMA UnusedIsNew ==
  ASSUME OneEventEach, TypeOK, Showing, NEW s \in Source, ~Used(s)
  PROVE /\ EventOf[s] \notin AcceptedEvents
        /\ \A x \in InLines(Lines) : Counted(x) => x.fact # s
<1>1. ASSUME NEW i \in DOMAIN accepted PROVE accepted[i].ev # EventOf[s]
  <2>1. accepted[i].ev = EventOf[accepted[i].fact] /\ accepted[i].fact # s
    BY DEF Showing, LogIsUsed
  <2>2. accepted[i].fact \in Source
    BY AcceptedTyped
  <2> QED
    BY <2>1, <2>2 DEF OneEventEach
<1> QED
  BY <1>1 DEF AcceptedEvents, Showing, SignalsNew

\* A source not used before gives rise to a signal.
LEMMA ShowAdds ==
  ASSUME OneEventEach, TypeOK, Showing, UNCHANGED <<accepted, projection>>, UsedGrows, OwesKept,
         WritesCounted', NEW r \in Place, NEW x \in Post, Adds(Lines, Lines', r, x),
         Counted(x) => ~Used(x.fact) /\ Used(x.fact)' /\ (x.kind = "message" <=> x.fact \in Fact)
  PROVE Showing'
<1>1. x.fact \in Source
  BY DEF Post
<1>2. NewSignal(x) /\ (Counted(x) => x \notin InLines(Lines))
  BY <1>1, UnusedIsNew DEF NewSignal
<1>3. Distinct(Lines') /\ InLines(Lines') \subseteq InLines(Lines) \union {x}
  <2> DEFINE L == Lines
             M == Lines'
  <2>1. L \in [Place -> Seq(Post)] /\ Distinct(L) /\ Adds(L, M, r, x)
    BY LinesTyped DEF Showing
  <2>2. Counted(x) => x \notin InLines(L)
    BY <1>2
  <2> HIDE DEF L, M
  <2>3. Distinct(M) /\ InLines(M) \subseteq InLines(L) \union {x}
    BY <2>1, <2>2, DistinctAdds
  <2> QED
    BY <2>3 DEF L, M
<1> QED
  BY <1>2, <1>3, ShowKept

\* No continuation moves, or one that handles no signal to where it handles none.
LEMMA RestsOf ==
  ASSUME Showing, NEW w \in Worker, UNCHANGED job, lifecycle' # "down" => lifecycle # "down",
         \A v \in Worker \ {w} : pc'[v] = pc[v],
         pc'[w] = pc[w] \/ (pc[w] \notin Handler /\ pc'[w] \notin Handler)
  PROVE OwesKept /\ WritesCounted'
<1>1. \A v \in Worker : pc'[v] = pc[v] \/ (pc[v] \notin Handler /\ pc'[v] \notin Handler)
  OBVIOUS
<1>2. OwesKept
  BY <1>1 DEF OwesKept, Owes, Handler
<1> QED
  BY <1>1, <1>2 DEF Showing, WritesCounted, Handler

\* An append to nothing.
LEMMA AppendedToNone == ASSUME NEW x PROVE Append(<<>>, x) = <<x>>
OBVIOUS

\* The stream of a continuation is the layer of its innermost pass.
LEMMA TopLayer ==
  ASSUME TypeOK, NEW w \in Worker, frames'[w] = frames[w],
         NEW n \in Nat, n = Len(frames[w]) + 1
  PROVE /\ <<w, n>> \in Place /\ n # 0
        /\ Lines[<<w, n>>] = stream[w] /\ Lines'[<<w, n>>] = stream'[w]
        /\ \A m \in Nat \ {0} : m # n => Lines'[<<w, m>>] = Lines[<<w, m>>]
<1>1. Len(frames[w]) \in Nat /\ Len(frames'[w]) = Len(frames[w])
  BY LenProperties DEF TypeOK, PassTyped
<1>2. n # 0 /\ n - 1 = Len(frames[w]) /\ n - 1 = Len(frames'[w])
  BY <1>1
<1>3. Layer(w, n - 1) = stream[w] /\ Layer(w, n - 1)' = stream'[w]
  BY <1>2 DEF Layer
<1>4. ASSUME NEW m \in Nat \ {0}, m # n PROVE Lines'[<<w, m>>] = Lines[<<w, m>>]
  <2>1. m - 1 # Len(frames[w])
    BY <1>1, <1>4
  <2>2. Layer(w, m - 1)' = Layer(w, m - 1)
    BY <2>1 DEF Layer
  <2> QED
    BY <2>2, LinesAre, LinesAreNext
<1> QED
  BY <1>2, <1>3, <1>4, LinesAre, LinesAreNext, PlaceIs

\* One signal of the stream or the buffer at a time goes into the queue.
LEMMA ShowDrain ==
  ASSUME LedgerInv, Showing, DrainNext \/ DrainBuffered
  PROVE Showing'
<1>1. TypeOK /\ lifecycle # "down" /\ "cutover" \in Worker /\ frames \in [Worker -> Seq(Frame)]
      /\ stream \in [Worker -> Seq(IngestSignal)]
  <2>1. TypeOK /\ "cutover" \in Worker
    BY ShowTypes, Workers
  <2> QED
    BY <2>1, ShowTypes, SessionStepRuns DEF SessionStep
<1>2. /\ OwesKept /\ WritesCounted' /\ UsedGrows
      /\ UNCHANGED <<accepted, projection, pc, job, frames>>
      /\ serialQueue = <<>>
  <2>1. UNCHANGED <<accepted, projection, pc, job, frames, consumed, copies, lifecycle>>
    BY DEF DrainNext, DrainBuffered
  <2>2. serialQueue = <<>>
    BY DEF DrainNext, DrainBuffered, Drained
  <2> QED
    BY <1>1, <2>1, <2>2, RestsOf DEF UsedGrows
<1>3. CASE DrainNext
  <2>0. PICK n \in Nat : n = Len(frames["cutover"]) + 1
    BY <1>1, LenProperties
  <2> DEFINE q == <<"cutover", n>>
             r == <<"queue", 0>>
  <2>1. /\ n # 0 /\ q \in Place /\ r \in Place /\ q # r
        /\ Lines[q] = stream["cutover"] /\ Lines'[q] = stream'["cutover"]
        /\ \A m \in Nat \ {0} : m # n => Lines'[<<"cutover", m>>] = Lines[<<"cutover", m>>]
    <3>1. frames'["cutover"] = frames["cutover"]
      BY <1>2
    <3> QED
      BY <1>1, <2>0, <3>1, TopLayer, PlaceIs
  <2>2. /\ Lines'[q] = Tail(Lines[q]) /\ Lines[q] # <<>>
        /\ Lines[r] = <<>> /\ Lines'[r] = <<Head(Lines[q])>>
    <3>1. stream'["cutover"] = Tail(stream["cutover"]) /\ stream["cutover"] # <<>>
      BY <1>1, <1>3 DEF DrainNext
    <3> QED
      BY <1>2, <1>3, <2>1, <3>1, LinesAre, LinesAreNext DEF DrainNext
  <2>3. ASSUME NEW p \in Place \ {q, r} PROVE Lines'[p] = Lines[p]
    <3>1. ASSUME NEW w \in Worker, NEW m \in Nat \ {0}, p = <<w, m>> PROVE Lines'[p] = Lines[p]
      <4>1. CASE w = "cutover"
        BY <2>1, <2>3, <3>1, <4>1
      <4>2. CASE w # "cutover"
        BY <1>1, <1>2, <1>3, <3>1, <4>2, LinesStay DEF DrainNext
      <4> QED
        BY <4>1, <4>2
    <3> QED
      BY <1>2, <1>3, <2>3, <3>1, LinesStay, PlaceIs DEF DrainNext
  <2>4. Moves(Lines, Lines', q, r)
    <3> HIDE DEF q, r
    <3> QED
      BY <2>1, <2>2, <2>3, AppendedToNone DEF Moves
  <2> HIDE DEF q, r
  <2> QED
    BY <1>1, <1>2, <2>1, <2>4, ShowMoves
<1>4. CASE DrainBuffered
  <2> DEFINE q == <<"buffer", 0>>
             r == <<"queue", 0>>
  <2>1. q \in Place /\ r \in Place /\ q # r
    BY PlaceIs
  <2>2. /\ Lines[q] = liveBuffer /\ Lines'[q] = Tail(liveBuffer)
        /\ Lines[r] = <<>> /\ Lines'[r] = <<Head(liveBuffer)>>
        /\ liveBuffer # <<>>
    BY <1>2, <1>4, LinesAre, LinesAreNext DEF DrainBuffered
  <2>3. ASSUME NEW p \in Place \ {q, r} PROVE Lines'[p] = Lines[p]
    BY <1>2, <1>4, <2>3, LinesStay, PlaceIs DEF DrainBuffered
  <2>4. Moves(Lines, Lines', q, r)
    <3> HIDE DEF q, r
    <3> QED
      BY <2>1, <2>2, <2>3, AppendedToNone DEF Moves
  <2> HIDE DEF q, r
  <2> QED
    BY <1>1, <1>2, <2>1, <2>4, ShowMoves
<1> QED
  BY <1>3, <1>4

\* A signal taken into the hand of a continuation.
LEMMA TakenInHand ==
  ASSUME NEW w \in Worker, NEW s \in Post, pc'[w] \in BeforeAccept,
         job'[w].kind = s.kind, job'[w].fact = s.fact
  PROVE Lines'[<<w, 0>>] = <<s>>
<1>1. [kind |-> s.kind, fact |-> s.fact] = s
  BY DEF Post
<1>2. InHand(w)' = <<[kind |-> job'[w].kind, fact |-> job'[w].fact]>>
  BY DEF InHand
<1> QED
  BY <1>1, <1>2, LinesAreNext

\* The FIFO takes its head.
LEMMA ShowStartJob == ASSUME LedgerInv, Showing, StartJob PROVE Showing'
<1>1. /\ TypeOK /\ lifecycle # "down" /\ "chain" \in Worker /\ frames \in [Worker -> Seq(Frame)]
      /\ pc \in [Worker -> PC] /\ job \in [Worker -> Job] /\ serialQueue \in Seq(Signal)
  <2>1. TypeOK /\ "chain" \in Worker
    BY ShowTypes, Workers
  <2> QED
    BY <2>1, ShowTypes, SessionStepRuns DEF SessionStep
<1>2. /\ pc["chain"] = "idle" /\ serialQueue # <<>> /\ serialQueue' = Tail(serialQueue)
      /\ UNCHANGED <<accepted, projection, consumed, copies, lifecycle, liveBuffer, stream>>
      /\ \A v \in Worker \ {"chain"} : pc'[v] = pc[v] /\ job'[v] = job[v]
  BY <1>1 DEF StartJob, HandleEpochAdvanced, EnterPass, Await
<1>3. frames' = frames
  <2>1. <<>> \o frames["chain"] = frames["chain"]
    BY <1>1, ConcatEmptySeq
  <2> QED
    BY <1>1, <2>1 DEF StartJob, HandleEpochAdvanced, EnterPass
<1>4. Head(serialQueue) \in Signal /\ Head(serialQueue) \in Post
  BY <1>1, <1>2, EntriesRest, PostSignals
<1> DEFINE s == Head(serialQueue)
           hand == <<"chain", 0>>
           queue == <<"queue", 0>>
<1>5. /\ hand \in Place /\ queue \in Place /\ hand # queue
      /\ Lines[hand] = <<>> /\ Lines[queue] = serialQueue /\ Lines'[queue] = Tail(serialQueue)
      /\ \A p \in Place \ {hand, queue} : Lines'[p] = Lines[p]
  <2>1. InHand("chain") = <<>>
    BY <1>2 DEF InHand, BeforeAccept
  <2>2. ASSUME NEW p \in Place \ {hand, queue} PROVE Lines'[p] = Lines[p]
    BY <1>2, <1>3, <2>2, LinesStay, PlaceIs
  <2> QED
    BY <1>1, <1>2, <2>1, <2>2, LinesAre, LinesAreNext, PlaceIs
<1>6. CASE \/ pc'["chain"] = "append" /\ s.kind \notin {"epoch_advanced", "local"}
           \/ pc'["chain"] = "accept" /\ s.kind = "local"
  <2>1. job'["chain"].kind = s.kind /\ job'["chain"].fact = s.fact
    BY <1>1, <1>6 DEF StartJob, Await, HandleEpochAdvanced, EnterPass
  <2>2. Lines'[hand] = <<s>>
    BY <1>1, <1>4, <1>6, <2>1, TakenInHand DEF BeforeAccept
  <2>3. Moves(Lines, Lines', queue, hand)
    <3>1. Append(<<>>, s) = <<s>>
      BY AppendedToNone
    <3> HIDE DEF hand, queue
    <3> QED
      BY <1>2, <1>5, <2>2, <3>1 DEF Moves
  <2>4. OwesKept
    BY <1>2, <1>6 DEF OwesKept, Owes
  <2>5. WritesCounted'
    BY <1>2, <1>6, <2>1 DEF Showing, WritesCounted
  <2> HIDE DEF hand, queue
  <2> QED
    BY <1>1, <1>2, <1>5, <2>3, <2>4, <2>5, ShowMoves DEF UsedGrows
<1>7. CASE pc'["chain"] \in {"idle", "prune"}
  <2>1. job' = job
    BY <1>1, <1>7 DEF StartJob, Await
  <2>2. InHand("chain")' = <<>>
    BY <1>7 DEF InHand, BeforeAccept
  <2>3. Lines'[hand] = <<>>
    BY <1>1, <2>2, LinesAreNext
  <2>4. Loses(Lines, Lines')
    <3> HIDE DEF hand, queue
    <3> QED
      BY <1>2, <1>5, <2>3 DEF Loses
  <2>5. OwesKept /\ WritesCounted'
    BY <1>1, <1>2, <1>7, <2>1, RestsOf DEF Handler
  <2> QED
    BY <1>1, <1>2, <2>4, <2>5, ShowLoses DEF UsedGrows
<1>8. \/ pc'["chain"] = "append" /\ s.kind \notin {"epoch_advanced", "local"}
      \/ pc'["chain"] = "accept" /\ s.kind = "local"
      \/ pc'["chain"] \in {"idle", "prune"}
  BY <1>1, <1>2 DEF StartJob, Await, HandleEpochAdvanced, EnterPass
<1> QED
  BY <1>6, <1>7, <1>8

\* What is ingested is decrypted for the first time, or not counted.
LEMMA IngestsNew ==
  ASSUME TypeOK, NEW f \in Fact, Ingest(f)
  PROVE /\ Ingested(f) \in Post /\ Ingested(f) \in IngestSignal /\ consumed \subseteq consumed'
        /\ Counted(Ingested(f)) => /\ Ingested(f).kind = "message" /\ Ingested(f).fact = f
                                   /\ f \notin consumed /\ f \in consumed'
<1>1. Ingested(f).kind = Classify(f) /\ Ingested(f).fact = f
  BY DEF Ingested
<1>2. Classify(f) \in IngestKind
  BY DEF Classify, Content, IngestKind
<1>3. consumed \subseteq consumed' /\ (Classify(f) # "deferred" => f \in consumed')
  BY DEF Ingest
<1>4. Classify(f) = "message" => f \notin consumed
  BY DEF Classify, Content, Stale
<1>5. Classify(f) # "local"
  BY <1>2 DEF IngestKind
<1>6. Ingested(f) \in IngestSignal
  BY <1>2 DEF Ingested, IngestSignal
<1> QED
  BY <1>1, <1>3, <1>4, <1>5, <1>6, PostSignals DEF Counted

\* Envelopes are not local edits, so they are used once decrypted.
LEMMA FactIsNotLocal ==
  ASSUME NEW f \in Fact, TypeOK
  PROVE f \notin Local /\ consumed \subseteq Fact
BY SourceAssumption DEF TypeOK, GroupTyped

\* What Used says of an envelope.
LEMMA UsedFact ==
  ASSUME TypeOK, NEW f \in Fact
  PROVE (Used(f) <=> f \in consumed) /\ (Used(f)' <=> f \in consumed')
BY FactIsNotLocal DEF Used

\* A batch decrypts one envelope and yields its signal.
LEMMA ShowIngestBatch ==
  ASSUME OneEventEach, LedgerInv, Showing, NEW w \in Worker, IngestBatch(w)
  PROVE Showing'
<1>1. /\ TypeOK /\ lifecycle # "down" /\ pc \in [Worker -> PC] /\ frames \in [Worker -> Seq(Frame)]
      /\ stream \in [Worker -> Seq(IngestSignal)]
  <2>1. TypeOK
    BY ShowTypes
  <2> QED
    BY <2>1, ShowTypes, SessionStepRuns DEF SessionStep, Resume
<1>2. CASE batch[w] = {} /\ UNCHANGED <<stream, consumed>>
  BY <1>1, <1>2, ShowStill DEF IngestBatch, Await, Handler
<1>3. ASSUME NEW f \in NextOfBatch(w), Ingest(f), UNCHANGED pc,
             stream' = [stream EXCEPT ![w] = Append(@, Ingested(f))]
      PROVE Showing'
  <2>1. f \in Fact
    BY <1>1, <1>3 DEF NextOfBatch, TypeOK, PassTyped
  <2>2. PICK x \in Post : /\ x = Ingested(f) /\ consumed \subseteq consumed'
                          /\ Counted(x) => /\ x.kind = "message" /\ x.fact = f
                                           /\ f \notin consumed /\ f \in consumed'
    BY <1>1, <1>3, <2>1, IngestsNew
  <2>3. UNCHANGED <<accepted, projection, copies, lifecycle, serialQueue, liveBuffer, job, frames,
                    pc>>
    BY <1>3 DEF IngestBatch
  <2>4. OwesKept /\ WritesCounted' /\ UsedGrows
    BY <1>1, <2>2, <2>3, RestsOf DEF UsedGrows
  <2>5. Counted(x) => ~Used(x.fact) /\ Used(x.fact)' /\ (x.kind = "message" <=> x.fact \in Fact)
    BY <1>1, <2>1, <2>2, UsedFact
  <2>6. PICK n \in Nat : n = Len(frames[w]) + 1
    BY <1>1, LenProperties
  <2> DEFINE r == <<w, n>>
  <2>7. /\ r \in Place /\ n # 0 /\ Lines[r] = stream[w] /\ Lines'[r] = stream'[w]
        /\ \A m \in Nat \ {0} : m # n => Lines'[<<w, m>>] = Lines[<<w, m>>]
    BY <1>1, <2>3, <2>6, TopLayer
  <2>8. ASSUME NEW p \in Place \ {r} PROVE Lines'[p] = Lines[p]
    <3>1. ASSUME NEW v \in Worker, NEW m \in Nat \ {0}, p = <<v, m>> PROVE Lines'[p] = Lines[p]
      <4>1. CASE v = w
        BY <2>7, <2>8, <3>1, <4>1
      <4>2. CASE v # w
        BY <1>1, <1>3, <2>3, <3>1, <4>2, LinesStay
      <4> QED
        BY <4>1, <4>2
    <3> QED
      BY <2>3, <2>8, <3>1, LinesStay, PlaceIs
  <2>9. Adds(Lines, Lines', r, x)
    <3>1. stream'[w] = Append(stream[w], x)
      BY <1>1, <1>3, <2>2
    <3> HIDE DEF r
    <3> QED
      BY <2>7, <2>8, <3>1 DEF Adds
  <2> HIDE DEF r
  <2> QED
    BY <1>1, <2>2, <2>3, <2>4, <2>5, <2>7, <2>9, ShowAdds
<1> QED
  BY <1>2, <1>3 DEF IngestBatch

\* A live push decrypts one envelope and queues or buffers its signal.
LEMMA ShowDeliverLive ==
  ASSUME OneEventEach, LedgerInv, Showing, NEW f \in Fact, DeliverLive(f)
  PROVE Showing'
<1>1. TypeOK /\ lifecycle # "down" /\ copies \in [Source -> Nat]
  BY ShowTypes DEF DeliverLive
<1>2. PICK x \in Post : /\ x = Ingested(f) /\ consumed \subseteq consumed'
                        /\ Counted(x) => /\ x.kind = "message" /\ x.fact = f
                                         /\ f \notin consumed /\ f \in consumed'
  BY <1>1, IngestsNew DEF DeliverLive
<1>3. UNCHANGED <<accepted, projection, lifecycle, stream, job, frames, pc>>
  BY DEF DeliverLive
<1>4. \A s \in Local : copies'[s] = copies[s]
  BY <1>1, SourceAssumption DEF DeliverLive, Source
<1>5. OwesKept /\ WritesCounted' /\ UsedGrows
  BY <1>1, <1>2, <1>3, <1>4, RestsOf, Workers DEF UsedGrows
<1>6. Counted(x) => ~Used(x.fact) /\ Used(x.fact)' /\ (x.kind = "message" <=> x.fact \in Fact)
  BY <1>1, <1>2, UsedFact
<1>7. PICK r \in {<<"queue", 0>>, <<"buffer", 0>>} : Adds(Lines, Lines', r, x)
  <2>1. CASE serialQueue' = Append(serialQueue, x) /\ liveBuffer' = liveBuffer
    <3>1. \A p \in Place \ {<<"queue", 0>>} : Lines'[p] = Lines[p]
      BY <1>3, <2>1, LinesStay, PlaceIs
    <3> QED
      BY <2>1, <3>1, LinesAre, LinesAreNext DEF Adds
  <2>2. CASE liveBuffer' = Append(liveBuffer, x) /\ serialQueue' = serialQueue
    <3>1. \A p \in Place \ {<<"buffer", 0>>} : Lines'[p] = Lines[p]
      BY <1>3, <2>2, LinesStay, PlaceIs
    <3> QED
      BY <2>2, <3>1, LinesAre, LinesAreNext DEF Adds
  <2> QED
    BY <1>2, <2>1, <2>2 DEF DeliverLive
<1>8. r \in Place
  BY PlaceIs
<1> QED
  BY <1>1, <1>2, <1>3, <1>5, <1>6, <1>7, <1>8, ShowAdds

\* A local edit is dispatched, for the first time.
LEMMA ShowAcceptLocal ==
  ASSUME OneEventEach, LedgerInv, Showing, NEW s \in Local, AcceptLocal(s), copies'[s] <= 1
  PROVE Showing'
<1>1. TypeOK /\ lifecycle # "down" /\ copies \in [Source -> Nat] /\ s \in Source /\ s \notin Fact
  BY ShowTypes, SourceAssumption DEF AcceptLocal, Source
<1> DEFINE x == [kind |-> "local", fact |-> s]
<1>2. UNCHANGED <<accepted, projection, lifecycle, stream, job, frames, pc, liveBuffer, consumed>>
  BY DEF AcceptLocal
<1>3. /\ copies[s] = 0 /\ copies'[s] # 0
      /\ \A t \in Local : copies[t] # 0 => copies'[t] # 0
  BY <1>1 DEF AcceptLocal, Source
<1>4. OwesKept /\ WritesCounted' /\ UsedGrows
  BY <1>1, <1>2, <1>3, RestsOf, Workers DEF UsedGrows
<1>5. ~Used(s) /\ Used(s)'
  BY <1>1, <1>3, FactIsNotLocal, ShowTypes DEF Used
<1>6. x \in Post /\ x.fact = s /\ x.kind = "local"
  BY <1>1 DEF Post
<1>7. Adds(Lines, Lines', <<"queue", 0>>, x)
  <2>1. \A p \in Place \ {<<"queue", 0>>} : Lines'[p] = Lines[p]
    BY <1>2, LinesStay, PlaceIs
  <2> QED
    BY <2>1, LinesAre, LinesAreNext DEF Adds, AcceptLocal
<1>8. <<"queue", 0>> \in Place
  BY PlaceIs
<1> HIDE DEF x
<1> QED
  BY <1>1, <1>2, <1>4, <1>5, <1>6, <1>7, <1>8, ShowAdds

\* The suspended passes after a push and after a pop.
LEMMA FramesAt ==
  ASSUME NEW S, NEW fs \in Seq(S), NEW fr \in S
  PROVE /\ Len(fs) \in Nat /\ Len(<<fr>> \o fs) = Len(fs) + 1 /\ (<<fr>> \o fs)[1] = fr
        /\ \A i \in 1..Len(fs) : (<<fr>> \o fs)[i + 1] = fs[i]
<1>1. Len(fs) \in Nat /\ <<fr>> \in Seq(S) /\ Len(<<fr>>) = 1 /\ <<fr>>[1] = fr
  BY LenProperties
<1> QED
  BY <1>1, ConcatProperties, LenProperties

\* And what a pop leaves.
LEMMA FramesRest ==
  ASSUME NEW S, NEW fs \in Seq(S), fs # <<>>
  PROVE /\ Len(fs) \in Nat \ {0} /\ Len(Tail(fs)) = Len(fs) - 1 /\ Head(fs) = fs[1]
        /\ \A i \in 1..(Len(fs) - 1) : Tail(fs)[i] = fs[i + 1]
BY HeadTailProperties, LenProperties, EmptySeq

\* A pass that starts within another suspends what the outer has left.
LEMMA LayersPushed ==
  ASSUME TypeOK, NEW w \in Worker, NEW fr \in Frame, fr.stream = Tail(stream[w]),
         frames'[w] = <<fr>> \o frames[w], stream'[w] = <<>>,
         NEW n \in Nat, n = Len(frames[w])
  PROVE /\ <<w, n + 1>> \in Place
        /\ Lines[<<w, n + 1>>] = stream[w] /\ Lines'[<<w, n + 1>>] = Tail(stream[w])
        /\ \A m \in Nat \ {0} : m # n + 1 => Lines'[<<w, m>>] = Lines[<<w, m>>]
<1>1. /\ Len(frames'[w]) = n + 1 /\ frames'[w][1] = fr
      /\ \A i \in 1..n : frames'[w][i + 1] = frames[w][i]
  <2>1. frames[w] \in Seq(Frame)
    BY DEF TypeOK, PassTyped
  <2> QED
    BY <2>1, FramesAt
<1>2. Layer(w, n) = stream[w] /\ Layer(w, n)' = Tail(stream[w])
  BY <1>1 DEF Layer
<1>3. ASSUME NEW h \in Nat, h # n PROVE Layer(w, h)' = Layer(w, h)
  <2>1. CASE h < n
    <3>1. n - h \in 1..n /\ (n + 1) - h = (n - h) + 1 /\ h # n + 1 /\ h < n + 1
      BY <2>1
    <3>2. frames'[w][(n + 1) - h] = frames[w][n - h]
      BY <1>1, <3>1
    <3>3. Layer(w, h) = frames[w][n - h].stream
      BY <2>1, <3>1 DEF Layer
    <3>4. Layer(w, h)' = frames'[w][(n + 1) - h].stream
      BY <1>1, <3>1 DEF Layer
    <3> QED
      BY <3>2, <3>3, <3>4
  <2>2. CASE h = n + 1
    BY <1>1, <2>2 DEF Layer
  <2>3. CASE n + 1 < h
    BY <1>1, <2>3 DEF Layer
  <2> QED
    BY <1>3, <2>1, <2>2, <2>3
<1>4. ASSUME NEW m \in Nat \ {0}, m # n + 1 PROVE Lines'[<<w, m>>] = Lines[<<w, m>>]
  <2>1. m - 1 \in Nat /\ m - 1 # n
    BY <1>4
  <2> QED
    BY <1>3, <2>1, LinesAre, LinesAreNext
<1>5. n + 1 \in Nat \ {0} /\ (n + 1) - 1 = n
  OBVIOUS
<1> QED
  BY <1>2, <1>4, <1>5, LinesAre, LinesAreNext, PlaceIs

\* A pass that ends within another gives the outer its stream back.
LEMMA LayersPopped ==
  ASSUME TypeOK, NEW w \in Worker, stream[w] = <<>>, frames[w] # <<>>,
         frames'[w] = Tail(frames[w]), stream'[w] = Head(frames[w]).stream
  PROVE \A m \in Nat \ {0} : Lines'[<<w, m>>] = Lines[<<w, m>>]
<1>1. PICK n \in Nat \ {0} :
        /\ n = Len(frames[w]) /\ Len(frames'[w]) = n - 1 /\ Head(frames[w]) = frames[w][1]
        /\ \A i \in 1..(n - 1) : frames'[w][i] = frames[w][i + 1]
  <2>1. frames[w] \in Seq(Frame)
    BY DEF TypeOK, PassTyped
  <2> QED
    BY <2>1, FramesRest
<1>2. ASSUME NEW h \in Nat PROVE Layer(w, h)' = Layer(w, h)
  <2>1. CASE h < n - 1
    <3>1. /\ (n - 1) - h \in 1..(n - 1) /\ n - h = ((n - 1) - h) + 1 /\ h # n - 1 /\ h # n
          /\ h < n
      BY <2>1
    <3>2. frames'[w][(n - 1) - h] = frames[w][n - h]
      BY <1>1, <3>1
    <3>3. Layer(w, h) = frames[w][n - h].stream
      BY <1>1, <3>1 DEF Layer
    <3>4. Layer(w, h)' = frames'[w][(n - 1) - h].stream
      BY <1>1, <2>1, <3>1 DEF Layer
    <3> QED
      BY <3>2, <3>3, <3>4
  <2>2. CASE h = n - 1
    <3>1. n - h = 1 /\ h # n /\ h < n
      BY <2>2
    <3> QED
      BY <1>1, <2>2, <3>1 DEF Layer
  <2>3. CASE h = n \/ n < h
    <3>1. h # n - 1 /\ ~(h < n - 1)
      BY <2>3
    <3>2. Layer(w, h) = <<>>
      BY <1>1, <2>3 DEF Layer
    <3> QED
      BY <1>1, <3>1, <3>2 DEF Layer
  <2> QED
    BY <2>1, <2>2, <2>3
<1>3. ASSUME NEW m \in Nat \ {0} PROVE Lines'[<<w, m>>] = Lines[<<w, m>>]
  <2>1. m - 1 \in Nat
    OBVIOUS
  <2> QED
    BY <1>2, <2>1, LinesAre, LinesAreNext
<1> QED
  BY <1>3

\* A pass takes its next signal in hand, starts a nested pass, or ends.
LEMMA ShowNextRetried ==
  ASSUME LedgerInv, Showing, NEW w \in Worker, NextRetried(w)
  PROVE Showing'
<1>1. /\ TypeOK /\ lifecycle # "down" /\ pc \in [Worker -> PC] /\ job \in [Worker -> Job]
      /\ stream \in [Worker -> Seq(IngestSignal)] /\ frames \in [Worker -> Seq(Frame)]
      /\ pc[w] = "pass"
  <2>1. TypeOK
    BY ShowTypes
  <2> QED
    BY <2>1, ShowTypes, SessionStepRuns DEF SessionStep, Resume, NextRetried
<1>2. /\ UNCHANGED <<accepted, projection, consumed, copies, lifecycle, serialQueue, liveBuffer>>
      /\ \A v \in Worker \ {w} : /\ pc'[v] = pc[v] /\ job'[v] = job[v]
                                 /\ stream'[v] = stream[v] /\ frames'[v] = frames[v]
  BY <1>1 DEF NextRetried, HandleEpochAdvanced, EnterPass, Await
<1>3. CASE stream[w] = <<>>
  BY <1>1, <1>2, <1>3, ShowStill DEF NextRetried, Await, Handler
<1>4. PICK n \in Nat : n = Len(frames[w])
  BY <1>1, LenProperties
<1> DEFINE q == <<w, n + 1>>
           r == <<w, 0>>
<1>5. /\ q \in Place /\ r \in Place /\ q # r
      /\ \A p \in Place \ {q, r} :
           (\A m \in Nat \ {0} : m # n + 1 => Lines'[<<w, m>>] = Lines[<<w, m>>])
             => Lines'[p] = Lines[p]
  <2>1. n + 1 \in Nat /\ n + 1 # 0
    OBVIOUS
  <2>2. q \in Place /\ r \in Place /\ q # r
    BY <2>1, PlaceIs
  <2>3. ASSUME NEW p \in Place \ {q, r},
               \A m \in Nat \ {0} : m # n + 1 => Lines'[<<w, m>>] = Lines[<<w, m>>]
        PROVE Lines'[p] = Lines[p]
    <3>1. CASE p = <<"queue", 0>> \/ p = <<"buffer", 0>>
      BY <1>2, <3>1, LinesStay
    <3>2. ASSUME NEW v \in Worker, p = <<v, 0>> PROVE Lines'[p] = Lines[p]
      BY <1>2, <2>3, <3>2, LinesStay
    <3>3. ASSUME NEW v \in Worker, NEW m \in Nat \ {0}, p = <<v, m>> PROVE Lines'[p] = Lines[p]
      BY <1>2, <2>3, <3>3, LinesStay
    <3> QED
      BY <3>1, <3>2, <3>3, PlaceIs
  <2> QED
    BY <2>2, <2>3
<1>6. Lines[r] = <<>>
  BY <1>1, LinesAre DEF InHand, BeforeAccept
<1>7. CASE stream[w] # <<>> /\ Head(stream[w]).kind # "epoch_advanced"
  <2>1. PICK s \in Post : s = Head(stream[w])
    BY <1>1, <1>7, EntriesRest, PostSignals
  <2>2. /\ stream'[w] = Tail(stream[w]) /\ frames'[w] = frames[w]
        /\ pc'[w] = "append"
        /\ job'[w].kind = s.kind /\ job'[w].fact = s.fact
    BY <1>1, <1>7, <2>1 DEF NextRetried, Await
  <2>3. Lines'[r] = <<s>>
    BY <2>2, TakenInHand DEF BeforeAccept
  <2>4. /\ Lines[q] = stream[w] /\ Lines'[q] = Tail(stream[w])
        /\ \A m \in Nat \ {0} : m # n + 1 => Lines'[<<w, m>>] = Lines[<<w, m>>]
    <3>1. PICK k \in Nat : k = n + 1
      OBVIOUS
    <3>2. k = Len(frames[w]) + 1
      BY <1>4, <3>1
    <3>3. /\ Lines[<<w, k>>] = stream[w] /\ Lines'[<<w, k>>] = stream'[w]
          /\ \A m \in Nat \ {0} : m # k => Lines'[<<w, m>>] = Lines[<<w, m>>]
      BY <1>1, <2>2, <3>2, TopLayer
    <3> QED
      BY <2>2, <3>1, <3>3
  <2>5. Moves(Lines, Lines', q, r)
    <3>1. \A p \in Place \ {q, r} : Lines'[p] = Lines[p]
      BY <1>5, <2>4
    <3> HIDE DEF q, r
    <3> QED
      BY <1>5, <1>6, <1>7, <2>1, <2>3, <2>4, <3>1, AppendedToNone DEF Moves
  <2>6. OwesKept /\ WritesCounted'
    <3>1. OwesKept
      BY <1>1, <1>2, <2>2 DEF OwesKept, Owes
    <3>2. WritesCounted'
      BY <1>2, <2>2 DEF Showing, WritesCounted
    <3> QED
      BY <3>1, <3>2
  <2> HIDE DEF q, r
  <2> QED
    BY <1>1, <1>2, <1>5, <2>5, <2>6, ShowMoves DEF UsedGrows
<1>8. CASE stream[w] # <<>> /\ Head(stream[w]).kind = "epoch_advanced"
  <2> DEFINE fr == [stream |-> Tail(stream[w]), entered |-> entered[w]]
  <2>1. PICK f \in Frame : f = fr
    BY <1>1, <1>8, EntriesRest DEF Frame, TypeOK, PassTyped
  <2>2. job' = job /\ pc'[w] \in {"pass", "prune"}
    BY <1>1, <1>8 DEF NextRetried, HandleEpochAdvanced, EnterPass, Await
  <2>3. Lines'[r] = <<>>
    BY <2>2, LinesAreNext DEF InHand, BeforeAccept
  <2>4. /\ Lines[q] = stream[w] /\ Lines'[q] = Tail(stream[w])
        /\ \A m \in Nat \ {0} : m # n + 1 => Lines'[<<w, m>>] = Lines[<<w, m>>]
    <3>1. CASE frames' = frames
      <4>1. stream'[w] = Tail(stream[w])
        BY <1>1, <1>8, <3>1 DEF NextRetried
      <4>2. PICK k \in Nat : k = n + 1
        OBVIOUS
      <4>3. k = Len(frames[w]) + 1
        BY <1>4, <4>2
      <4>4. /\ Lines[<<w, k>>] = stream[w] /\ Lines'[<<w, k>>] = stream'[w]
            /\ \A m \in Nat \ {0} : m # k => Lines'[<<w, m>>] = Lines[<<w, m>>]
        BY <1>1, <3>1, <4>3, TopLayer
      <4> QED
        BY <4>1, <4>2, <4>4
    <3>2. CASE frames' # frames
      <4>1. stream'[w] = <<>> /\ frames'[w] = <<f>> \o frames[w]
        BY <1>1, <1>8, <2>1, <3>2 DEF NextRetried, HandleEpochAdvanced, EnterPass
      <4>2. f.stream = Tail(stream[w])
        BY <2>1
      <4> QED
        BY <1>1, <1>4, <4>1, <4>2, LayersPushed
    <3> QED
      BY <3>1, <3>2
  <2>5. Loses(Lines, Lines')
    <3>1. \A p \in Place \ {q, r} : Lines'[p] = Lines[p]
      BY <1>5, <2>4
    <3> HIDE DEF q, r
    <3> QED
      BY <1>5, <1>8, <2>3, <2>4, <3>1 DEF Loses
  <2>6. OwesKept /\ WritesCounted'
    BY <1>1, <1>2, <2>2, RestsOf DEF Handler
  <2> HIDE DEF q, r
  <2> QED
    BY <1>1, <1>2, <2>5, <2>6, ShowLoses DEF UsedGrows
<1> QED
  BY <1>3, <1>7, <1>8

\* A pass that ends leaves no signal behind.
LEMMA ShowEndOfPass ==
  ASSUME LedgerInv, StreamsHeld, Showing, NEW w \in Worker, EndOfPass(w)
  PROVE Showing'
<1>1. /\ TypeOK /\ lifecycle # "down" /\ pc \in [Worker -> PC] /\ pc[w] = "loop"
      /\ stream \in [Worker -> Seq(IngestSignal)] /\ frames \in [Worker -> Seq(Frame)]
  <2>1. TypeOK
    BY ShowTypes
  <2> QED
    BY <2>1, ShowTypes, SessionStepRuns DEF SessionStep, Resume, EndOfPass
<1>2. stream[w] = <<>>
  BY <1>1 DEF StreamsHeld, Handler
<1>3. /\ UNCHANGED <<accepted, projection, consumed, copies, serialQueue, liveBuffer, job>>
      /\ \A v \in Worker \ {w} : /\ pc'[v] = pc[v]
                                 /\ stream'[v] = stream[v] /\ frames'[v] = frames[v]
      /\ pc'[w] \in {"prune", "idle", "pass"}
  BY <1>1 DEF EndOfPass, LeavePass, Await, TransitionTo
<1>4. CASE stream' = stream /\ frames' = frames
  BY <1>1, <1>3, <1>4, ShowStill DEF Handler
<1>5. CASE /\ frames[w] # <<>> /\ frames'[w] = Tail(frames[w])
           /\ stream'[w] = Head(frames[w]).stream
  <2>1. \A m \in Nat \ {0} : Lines'[<<w, m>>] = Lines[<<w, m>>]
    BY <1>1, <1>2, <1>5, LayersPopped
  <2>2. \A v \in Worker : InHand(v)' = InHand(v)
    BY <1>1, <1>3 DEF InHand, BeforeAccept
  <2>3. ASSUME NEW p \in Place PROVE Lines'[p] = Lines[p]
    <3>1. CASE p = <<"queue", 0>> \/ p = <<"buffer", 0>>
      BY <1>3, <3>1, LinesStay
    <3>2. ASSUME NEW v \in Worker, p = <<v, 0>> PROVE Lines'[p] = Lines[p]
      BY <2>2, <3>2, LinesAre, LinesAreNext
    <3>3. ASSUME NEW v \in Worker, NEW m \in Nat \ {0}, p = <<v, m>> PROVE Lines'[p] = Lines[p]
      BY <1>3, <2>1, <3>3, LinesStay
    <3> QED
      BY <3>1, <3>2, <3>3, PlaceIs
  <2>4. OwesKept /\ WritesCounted'
    BY <1>1, <1>3, RestsOf DEF Handler
  <2> QED
    BY <1>1, <1>3, <2>3, <2>4, ShowLoses DEF UsedGrows, Loses
<1> QED
  BY <1>1, <1>4, <1>5 DEF EndOfPass, LeavePass

----------------------------------------------------------------------------
(* Sessions that begin and end, and the theorem. *)

\* A start shows what the log holds.
LEMMA ShowStart == ASSUME LedgerInv, Showing, Start PROVE Showing'
<1>1. /\ TypeOK /\ DownIsIdle /\ lifecycle = "down" /\ pc \in [Worker -> PC]
      /\ "chain" \in Worker /\ "cutover" \in Worker
  BY ShowTypes, Workers DEF Start
<1>2. /\ UNCHANGED <<accepted, consumed, copies, serialQueue, liveBuffer, job, stream, frames>>
      /\ projection' = LogOf
      /\ \A w \in Worker : pc[w] = "idle" /\ pc'[w] \in {"idle", "rebuild", "bootstrap"}
  BY <1>1 DEF Start, LogOf, Await, DownIsIdle
<1>3. AcceptedEvents' = AcceptedEvents /\ \A s : Used(s)' <=> Used(s)
  BY <1>2 DEF AcceptedEvents, Used
<1>4. Distinct(Lines') /\ InLines(Lines') \subseteq InLines(Lines)
  <2>1. \A v \in Worker : InHand(v)' = InHand(v)
    BY <1>2 DEF InHand, BeforeAccept
  <2>2. ASSUME NEW p \in Place PROVE Lines'[p] = Lines[p]
    BY <1>2, <2>1, LinesAre, LinesAreNext, LinesStay, PlaceIs
  <2> QED
    BY <2>2 DEF Showing, Distinct, InLines
<1>5. SignalsNew'
  BY <1>3, <1>4 DEF Showing, SignalsNew
<1>6. LogIsUsed'
  BY <1>2, <1>3 DEF Showing, LogIsUsed
<1>7. WritesCounted'
  BY <1>2 DEF WritesCounted
<1>8. ShownOrOwed'
  <2>1. Owed' = 0
    BY <1>1, <1>2 DEF Owed, Owes
  <2>2. Len(projection') = Len(accepted') /\ Len(accepted') \in Nat
    BY <1>1, <1>2, LogOfEntries, AcceptedTyped, LenProperties
  <2>3. \A e \in AcceptedEvents' : \E i \in DOMAIN projection' : projection'[i] = e
    <3>1. DOMAIN LogOf = DOMAIN accepted
      BY DEF LogOf
    <3> QED
      BY <1>2, <1>3, <3>1 DEF LogOf, AcceptedEvents
  <2> QED
    BY <2>1, <2>2, <2>3 DEF ShownOrOwed
<1> QED
  BY <1>4, <1>5, <1>6, <1>7, <1>8 DEF Showing

\* With its memory an engine loses every signal.
LEMMA ShowLost == ASSUME LedgerInv, Showing, LoseMemory PROVE Showing'
<1>1. /\ TypeOK /\ lifecycle' = "down" /\ UNCHANGED <<accepted, projection, consumed, copies>>
      /\ serialQueue' = <<>> /\ liveBuffer' = <<>>
      /\ \A w \in Worker : pc'[w] = "idle" /\ stream'[w] = <<>> /\ frames'[w] = <<>>
  BY ShowTypes DEF LoseMemory
<1>2. ASSUME NEW p \in Place PROVE Lines'[p] = <<>>
  <2>1. \A w \in Worker : InHand(w)' = <<>>
    BY <1>1 DEF InHand, BeforeAccept
  <2>2. \A w \in Worker, h \in Nat : Layer(w, h)' = <<>>
    BY <1>1, EmptySeq DEF Layer
  <2>3. \A n \in Nat \ {0} : n - 1 \in Nat
    OBVIOUS
  <2> QED
    BY <1>1, <2>1, <2>2, <2>3, LinesAreNext, PlaceIs
<1>3. AcceptedEvents' = AcceptedEvents /\ \A s : Used(s)' <=> Used(s)
  BY <1>1 DEF AcceptedEvents, Used
<1>4. Distinct(Lines') /\ InLines(Lines') = {}
  <2>1. DOMAIN <<>> = {}
    OBVIOUS
  <2>2. Distinct(Lines')
    BY <1>2, <2>1 DEF Distinct
  <2>3. InLines(Lines') = {}
    <3>1. Entries(<<>>) = {}
      BY EntriesFew
    <3>2. \A p \in Place : Entries(Lines'[p]) = {}
      BY <1>2, <3>1
    <3> QED
      BY <3>2 DEF InLines
  <2> QED
    BY <2>2, <2>3
<1>5. LogIsUsed'
  BY <1>1, <1>3 DEF Showing, LogIsUsed
<1> QED
  BY <1>1, <1>4, <1>5 DEF Showing, SignalsNew, WritesCounted, ShownOrOwed

\* The first start finds nothing.
LEMMA ShowInit == Init => ShowInv
<1> SUFFICES ASSUME Init PROVE Showing
  BY LossInit, ParkInit DEF ShowInv
<1>1. TypeOK
  BY LossInit DEF LossInv, LedgerInv, DurableInv
<1>2. ASSUME NEW p \in Place PROVE Lines[p] = <<>>
  <2>1. \A w \in Worker : InHand(w) = <<>>
    BY DEF Init, InHand, BeforeAccept
  <2>2. \A w \in Worker, h \in Nat : Layer(w, h) = <<>>
    BY EmptySeq DEF Init, Layer
  <2>3. \A n \in Nat \ {0} : n - 1 \in Nat
    OBVIOUS
  <2> QED
    BY <2>1, <2>2, <2>3, LinesAre, PlaceIs DEF Init
<1>3. Distinct(Lines) /\ InLines(Lines) = {}
  <2>1. DOMAIN <<>> = {}
    OBVIOUS
  <2>2. Distinct(Lines)
    BY <1>2, <2>1 DEF Distinct
  <2>3. InLines(Lines) = {}
    <3>1. Entries(<<>>) = {}
      BY EntriesFew
    <3>2. \A p \in Place : Entries(Lines[p]) = {}
      BY <1>2, <3>1
    <3> QED
      BY <3>2 DEF InLines
  <2> QED
    BY <2>2, <2>3
<1>4. LogIsUsed
  <2>1. accepted = <<>> /\ DOMAIN <<>> = {}
    BY DEF Init
  <2> QED
    BY <2>1 DEF LogIsUsed
<1>5. WritesCounted /\ ShownOrOwed
  BY DEF Init, WritesCounted, ShownOrOwed
<1> QED
  BY <1>3, <1>4, <1>5 DEF Showing, SignalsNew

\* Nothing happens.
LEMMA ShowStutter == ASSUME Showing, UNCHANGED vars PROVE Showing'
<1> USE DEF vars
<1>1. \A p \in Place : Lines'[p] = Lines[p]
  <2>1. \A w \in Worker : InHand(w)' = InHand(w)
    BY DEF InHand
  <2>2. ASSUME NEW p \in Place PROVE Lines'[p] = Lines[p]
    BY <2>1, LinesAre, LinesAreNext, LinesStay, PlaceIs
  <2> QED
    BY <2>2
<1>2. Distinct(Lines') /\ InLines(Lines') = InLines(Lines)
  BY <1>1 DEF Showing, Distinct, InLines
<1>3. AcceptedEvents' = AcceptedEvents /\ \A s : Used(s)' <=> Used(s)
  BY DEF AcceptedEvents, Used
<1>4. SignalsNew' /\ LogIsUsed' /\ WritesCounted'
  BY <1>2, <1>3 DEF Showing, SignalsNew, LogIsUsed, WritesCounted
<1>5. Owed' = Owed /\ \A w \in Worker : Owes(w)' <=> Owes(w)
  BY DEF Owed, Owes
<1>6. ShownOrOwed'
  BY <1>3, <1>5 DEF Showing, ShownOrOwed
<1> QED
  BY <1>2, <1>4, <1>6 DEF Showing

\* How often an edit was dispatched only grows.
LEMMA CopiesGrow ==
  ASSUME TypeOK, [Next]_vars, NEW s \in Source
  PROVE copies[s] \in Nat /\ copies'[s] \in Nat /\ copies[s] <= copies'[s]
<1>1. copies \in [Source -> Nat]
  BY DEF TypeOK, GroupTyped
<1>2. CASE copies' = copies
  BY <1>1, <1>2
<1>3. CASE CatchUp
  <2>1. PICK answer \in SUBSET Fact :
          copies' = [t \in Source |-> IF t \in answer THEN copies[t] + 1 ELSE copies[t]]
    BY <1>3 DEF CatchUp
  <2> QED
    BY <1>1, <2>1
<1>4. ASSUME NEW t \in Source, copies' = [copies EXCEPT ![t] = @ + 1]
      PROVE copies[s] \in Nat /\ copies'[s] \in Nat /\ copies[s] <= copies'[s]
  BY <1>1, <1>4
<1>5. CASE \/ \E f \in Fact : DeliverLive(f)
           \/ (\E f \in Fact : DeliverLiveThrows(f))
           \/ \E t \in Local : AcceptLocal(t)
  BY <1>4, <1>5 DEF DeliverLive, DeliverLiveThrows, AcceptLocal, Source
<1>6. CASE UNCHANGED vars
  BY <1>2, <1>6 DEF vars
<1>7. CASE Failure
  BY <1>2, <1>7 DEF Failure, GiveUpSignal, GiveUpSave, GiveUpRemoval,
     RetrySave, ReportRemoved, AfterSave, LoadThrows, IngestThrows
<1>8. CASE \/ Start \/ Rebuild \/ EnterCatchingUp \/ EnterBufferingLive \/ EnterLive
           \/ LateBootstrap \/ Rejoin \/ Reopen
  BY <1>2, <1>8 DEF Start, Rebuild, EnterCatchingUp, EnterBufferingLive, EnterLive, LateBootstrap,
     Rejoin, Reopen
<1>9. CASE \/ DrainNext \/ DrainBuffered \/ ConsumeLatch \/ StartJob
           \/ SaveCheckpoint \/ Crash \/ Stop
  BY <1>2, <1>9 DEF DrainNext, DrainBuffered, ConsumeLatch, StartJob, SaveCheckpoint, Crash, Stop,
     LoseMemory
<1>10. ASSUME NEW w \in Worker, Resume(w) PROVE copies' = copies
  <2>1. CASE HandleMessage(w) \/ HandleDeferred(w)
    BY <2>1 DEF HandleMessage, HandleDeferred
  <2>3. CASE HandleSkipped(w) \/ HandleMalformed(w)
    BY <2>3 DEF HandleSkipped, HandleMalformed
  <2>4. CASE AcceptEvent(w) \/ AcceptDeferredAppend(w)
    BY <2>4 DEF AcceptEvent, AcceptDeferredAppend
  <2>5. CASE AcceptDeferredRemove(w) \/ SaveDeferredIds(w)
    BY <2>5 DEF AcceptDeferredRemove, SaveDeferredIds, AfterSave
  <2>2. CASE \/ PruneExpired(w) \/ EnterRetrying(w) \/ ChargeBatch(w) \/ IngestBatch(w)
             \/ NextRetried(w) \/ RemoveExhausted(w) \/ SaveRemoval(w) \/ EndOfPass(w)
    BY <2>2 DEF PruneExpired, EnterRetrying, ChargeBatch, IngestBatch, NextRetried,
       RemoveExhausted, SaveRemoval, ReportRemoved, EndOfPass
  <2> QED
    BY <1>10, <2>1, <2>2, <2>3, <2>4, <2>5 DEF Resume
<1> QED
  BY <1>2, <1>3, <1>5, <1>6, <1>7, <1>8, <1>9, <1>10 DEF Next, Cutover, Environment

\* Every step keeps the invariant.
LEMMA ShowStep == OneEventEach /\ ShowInv /\ [Next]_vars => ShowInv'
<1> SUFFICES ASSUME OneEventEach, ShowInv, [Next]_vars, Regular' PROVE Showing'
  BY LossStep, ParkStep DEF ShowInv
<1>1. LossInv /\ LossInv' /\ LedgerInv /\ StreamsHeld /\ TypeOK /\ TypeOK'
  <2>1. LossInv /\ LossInv'
    BY LossStep DEF ShowInv
  <2> QED
    BY <2>1 DEF LossInv, LedgerInv, DurableInv
<1>2. failures' = 0 /\ \A s \in Local : copies'[s] <= 1
  BY DEF Regular
<1>3. Showing
  <2>1. failures = 0
    BY <1>1, <1>2, FailuresGrow
  <2>2. ASSUME NEW s \in Local PROVE copies[s] <= 1
    <3>1. s \in Source
      BY DEF Source
    <3>2. copies[s] \in Nat /\ copies'[s] \in Nat /\ copies[s] <= copies'[s] /\ copies'[s] <= 1
      BY <1>1, <1>2, <3>1, CopiesGrow
    <3> QED
      BY <3>2
  <2> QED
    BY <2>1, <2>2 DEF ShowInv, Regular
<1>4. CASE UNCHANGED vars
  BY <1>3, <1>4, ShowStutter
<1>5. CASE Failure
  BY <1>1, <1>2, <1>5, GiveUpCounts DEF Failure, GiveUpSignal, GiveUpSave, GiveUpRemoval, RetrySave,
     LoadThrows, IngestThrows
<1>6. CASE StartJob
  BY <1>1, <1>3, <1>6, ShowStartJob
<1>7. CASE Cutover
  <2>1. CASE \/ Rebuild \/ EnterCatchingUp \/ CatchUp \/ EnterBufferingLive \/ EnterLive
             \/ ConsumeLatch
    BY <1>1, <1>3, <2>1, ShowCutover
  <2>2. CASE Start
    BY <1>1, <1>3, <2>2, ShowStart
  <2>3. CASE DrainNext \/ DrainBuffered
    BY <1>1, <1>3, <2>3, ShowDrain
  <2>4. ~Rejoin /\ ~Reopen
    BY <1>1, <1>2, FailuresGrow, NoneRejoins DEF ShowInv, ParkInv
  <2> QED
    BY <1>7, <2>1, <2>2, <2>3, <2>4 DEF Cutover
<1>8. CASE Environment
  <2>1. CASE SaveCheckpoint \/ LateBootstrap
    BY <1>1, <1>3, <2>1, ShowCutover
  <2>2. CASE Crash \/ Stop
    BY <1>1, <1>3, <2>2, ShowLost DEF Crash, Stop
  <2>3. CASE \E f \in Fact : DeliverLive(f)
    BY <1>1, <1>3, <2>3, ShowDeliverLive
  <2>4. CASE \E s \in Local : AcceptLocal(s)
    BY <1>1, <1>2, <1>3, <2>4, ShowAcceptLocal
  <2>5. ~\E f \in Fact : DeliverLiveThrows(f)
    BY <1>1, <1>2, GiveUpCounts DEF DeliverLiveThrows
  <2> QED
    BY <1>8, <2>1, <2>2, <2>3, <2>4, <2>5 DEF Environment
<1>9. ASSUME NEW w \in Worker, Resume(w) PROVE Showing'
  <2>1. CASE \/ HandleMessage(w) \/ HandleDeferred(w) \/ HandleSkipped(w) \/ HandleMalformed(w)
    BY <1>1, <1>3, <2>1, ShowHandler
  <2>2. CASE AcceptEvent(w) \/ AcceptDeferredAppend(w)
    BY <1>1, <1>3, <2>2, ShowAcceptEvent, ShowAcceptDeferredAppend
  <2>3. CASE AcceptDeferredRemove(w)
    BY <1>1, <1>3, <2>3, ShowUnpark
  <2>4. CASE SaveDeferredIds(w)
    BY <1>1, <1>3, <2>4, ShowSave
  <2>5. CASE \/ PruneExpired(w) \/ EnterRetrying(w) \/ ChargeBatch(w) \/ RemoveExhausted(w)
             \/ SaveRemoval(w)
    BY <1>1, <1>3, <2>5, ShowPass
  <2>6. CASE IngestBatch(w) \/ NextRetried(w) \/ EndOfPass(w)
    BY <1>1, <1>3, <2>6, ShowIngestBatch, ShowNextRetried, ShowEndOfPass
  <2> QED
    BY <1>9, <2>1, <2>2, <2>3, <2>4, <2>5, <2>6 DEF Resume
<1> QED
  BY <1>4, <1>5, <1>6, <1>7, <1>8, <1>9 DEF Next

\* receive-engine.ts 753-827, 1000-1039, 1676-1710: at rest the consumer has been given
\* every accepted event, and each one once, whatever retry passes, crashes and restarts
\* came between.  Proved where each source carries an event of its own, up to the first write
\* that fails and the first local edit dispatched a second time: the check of processed
\* and the write it guards are two steps, and two of them can overlap.
THEOREM EachEventIsShownOnce ==
  ASSUME OneEventEach
  PROVE Spec => [](Regular => ProjectionComplete)
<1>1. Init => ShowInv
  BY ShowInit
<1>2. ShowInv /\ [Next]_vars => ShowInv'
  BY ShowStep
<1>3. ShowInv => (Regular => ProjectionComplete)
  <2> SUFFICES ASSUME ShowInv, Regular, Quiet
               PROVE /\ {projection[i] : i \in DOMAIN projection} = AcceptedEvents
                     /\ Len(projection) = Len(accepted)
    BY DEF ProjectionComplete
  <2>1. TypeOK /\ EmittedIsDurable /\ ShownOrOwed /\ lifecycle # "down"
    BY DEF ShowInv, LossInv, LedgerInv, DurableInv, Showing, Quiet
  <2>2. \A w \in Worker : ~Owes(w)
    BY DEF Quiet, Drained, Owes, Worker
  <2>3. Owed = 0
    BY <2>2, Workers DEF Owed
  <2>4. Len(projection) \in Nat
    BY <2>1, LenProperties DEF TypeOK, OutputsTyped
  <2> QED
    BY <2>1, <2>2, <2>3, <2>4 DEF ShownOrOwed, EmittedIsDurable
<1> QED
  BY <1>1, <1>2, <1>3, PTL DEF Spec

=============================================================================
