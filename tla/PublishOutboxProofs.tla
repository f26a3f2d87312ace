------------------------- MODULE PublishOutboxProofs -------------------------
(* What TLAPS proves of PublishOutbox, for every set of edits and every bound: *)
(* types, the local accept before the send, the attribution of envelopes, the  *)
(* marks of unconfirmed edits, and the agreement of registry and store.        *)
EXTENDS PublishOutbox, FiniteSetTheorems, SequenceTheorems, TLAPS

USE DEF durable, session, window, io, history, budget

----------------------------------------------------------------------------
(* Types. *)

Registries == UNION {[S -> Entry] : S \in SUBSET Edit}
Transaction == {Get} \union [op : {"put"}, edit : Edit, entry : Entry]

DurableTyped ==
  /\ accepted \in SUBSET Edit /\ gaveUp \in SUBSET Edit /\ unheard \in SUBSET Edit
  /\ published \in SUBSET Edit /\ stored \in Registries

SessionTyped ==
  /\ bridge \in {"none", "mounted", "stale"} /\ outbox \in {"none", "loading", "ready"}
  /\ entries \in Registries /\ pending \in SUBSET Edit
  /\ createdAt \in [Edit -> Nat] /\ pc \in [Edit -> PC] /\ lock \in Seq(Edit)

WindowTyped ==
  /\ inFlight \in Nat /\ count \in Nat /\ firstEventId \in Edit \union {Commit, NoEnvelope}
  /\ expected \in Seq(Edit)

IoTyped == disk \in Seq(Transaction) /\ loads \in Seq(Registries)

BookTyped ==
  /\ evicted \in SUBSET Edit /\ astray \in SUBSET Edit
  /\ commits \in Nat /\ turns \in Nat /\ failures \in Nat

TypeInv == DurableTyped /\ SessionTyped /\ WindowTyped /\ IoTyped /\ BookTyped

LEMMA RegistryIs ==
  ASSUME NEW f \in Registries
  PROVE DOMAIN f \subseteq Edit /\ \A e \in DOMAIN f : f[e] \in Entry
BY DEF Registries

LEMMA RegistryFrom ==
  ASSUME NEW S \in SUBSET Edit, NEW f \in [S -> Entry]
  PROVE f \in Registries
BY DEF Registries

LEMMA TypesAreOK == TypeInv => TypeOK
<1> SUFFICES ASSUME TypeInv PROVE TypeOK
  OBVIOUS
<1>1. DOMAIN stored \subseteq Edit /\ \A e \in DOMAIN stored : stored[e] \in Entry
  BY RegistryIs DEF TypeInv, DurableTyped
<1>2. Tracked \subseteq Edit /\ \A e \in Tracked : entries[e] \in Entry
  BY RegistryIs DEF TypeInv, SessionTyped, Tracked
<1>3. \A i \in DOMAIN disk :
        disk[i] = Get \/ disk[i] \in [op : {"put"}, edit : Edit, entry : Entry]
  <2>1. \A i \in DOMAIN disk : disk[i] \in Transaction
    BY LenProperties DEF TypeInv, IoTyped
  <2> QED
    BY <2>1 DEF Transaction
<1>4. \A i \in DOMAIN loads :
        DOMAIN loads[i] \subseteq Edit /\ \A e \in DOMAIN loads[i] : loads[i][e] \in Entry
  <2>1. \A i \in DOMAIN loads : loads[i] \in Registries
    BY LenProperties DEF TypeInv, IoTyped
  <2> QED
    BY <2>1, RegistryIs
<1> QED
  BY <1>1, <1>2, <1>3, <1>4
     DEF TypeInv, TypeOK, DurableTyped, SessionTyped, WindowTyped, BookTyped

LEMMA WithTyped ==
  ASSUME NEW f \in Registries, NEW e \in Edit, NEW x \in Entry
  PROVE With(f, e, x) \in Registries
<1>1. DOMAIN f \union {e} \in SUBSET Edit
  BY RegistryIs
<1>2. With(f, e, x) \in [DOMAIN f \union {e} -> Entry]
  BY RegistryIs DEF With
<1> QED
  BY <1>1, <1>2, RegistryFrom

LEMMA KeepTyped ==
  ASSUME NEW f \in Registries, NEW S
  PROVE /\ Keep(f, S) \in Registries /\ DOMAIN Keep(f, S) = DOMAIN f \intersect S
        /\ \A d \in DOMAIN f \intersect S : Keep(f, S)[d] = f[d]
<1>1. Keep(f, S) \in [DOMAIN f \intersect S -> Entry] /\ DOMAIN f \intersect S \subseteq Edit
  BY RegistryIs DEF Keep
<1> QED
  BY <1>1, RegistryFrom DEF Keep

LEMMA NewEntryIs == NewEntry \in Entry /\ NewEntry.status = "pending" /\ NewEntry.sentEventId = NoEnvelope
BY DEF NewEntry, Entry

LEMMA EntryIs ==
  ASSUME NEW x \in Entry
  PROVE /\ x.status \in {"pending", "sent", "reconciled", "failed"}
        /\ x.sentEventId \in Edit \union {Commit, NoEnvelope}
BY DEF Entry

LEMMA PutIs ==
  ASSUME NEW e \in Edit, NEW x \in Entry
  PROVE /\ Put(e, x) \in Transaction /\ Put(e, x) # Get /\ Get \in Transaction
        /\ Put(e, x).op = "put" /\ Put(e, x).edit = e /\ Put(e, x).entry = x
BY DEF Put, Get, Transaction

\* A transaction that is no read is a write of an entry.
LEMMA TransactionIs ==
  ASSUME NEW t \in Transaction, t # Get
  PROVE t.op = "put" /\ t.edit \in Edit /\ t.entry \in Entry /\ t = Put(t.edit, t.entry)
<1>1. t \in [op : {"put"}, edit : Edit, entry : Entry]
  BY DEF Transaction
<1>2. t = [op |-> t.op, edit |-> t.edit, entry |-> t.entry]
  BY <1>1
<1> QED
  BY <1>1, <1>2 DEF Put

LEMMA GetIsNoPut == Get.op # "put"
BY DEF Get


----------------------------------------------------------------------------
(* The transactions of the outbox store. *)

\* Transaction i is a write of e.
PutOf(i, e) == disk[i].op = "put" /\ disk[i].edit = e

\* With an outbox to report it, a write of x for e is added, or takes the place of
\* those queued since the last read.
LEMMA HookedPersists ==
  ASSUME disk \in Seq(Transaction), NEW e \in Edit, NEW x \in Entry, Persist(e, x), Hooked
  PROVE /\ disk' \in Seq(Transaction) /\ DOMAIN disk \subseteq DOMAIN disk'
        /\ \A i \in DOMAIN disk' : disk'[i] = Put(e, x) \/ (i \in DOMAIN disk /\ disk'[i] = disk[i])
        /\ \A i \in DOMAIN disk : disk'[i] = disk[i] \/ (PutOf(i, e) /\ disk'[i] = Put(e, x))
        /\ \E i \in DOMAIN disk' : disk'[i] = Put(e, x)
        /\ \A i \in DOMAIN disk' :
             PutOf(i, e)' /\ (\A j \in DOMAIN disk' : j > i => ~PutOf(j, e)') => disk'[i] = Put(e, x)
<1> DEFINE queued == QueuedWrites(e)
           p == Put(e, x)
<1>0. /\ Len(disk) \in Nat /\ DOMAIN disk = 1..Len(disk) /\ \A i \in DOMAIN disk : disk[i] \in Transaction
      /\ p \in Transaction /\ p.op = "put" /\ p.edit = e
  BY LenProperties, PutIs
<1>1. CASE queued = {}
  <2>1. disk' = Append(disk, p)
    BY <1>1 DEF Persist
  <2> HIDE DEF queued
  <2>2. /\ disk' \in Seq(Transaction) /\ DOMAIN disk' = 1..(Len(disk) + 1)
        /\ \A i \in 1..Len(disk) : disk'[i] = disk[i]
        /\ disk'[Len(disk) + 1] = p
    BY <1>0, <2>1, AppendProperties, LenProperties
  <2> HIDE DEF p
  <2>0. PICK n \in Nat : n = Len(disk) + 1
    BY <1>0
  <2>3. PutOf(n, e)' /\ n \in DOMAIN disk'
    BY <1>0, <2>0, <2>2 DEF PutOf
  <2>4. \A i \in DOMAIN disk' : i = n \/ (i \in DOMAIN disk /\ n > i)
    BY <1>0, <2>0, <2>2
  <2>5. \A i \in DOMAIN disk' :
          PutOf(i, e)' /\ (\A j \in DOMAIN disk' : j > i => ~PutOf(j, e)') => disk'[i] = p
    BY <2>0, <2>2, <2>3, <2>4
  <2> QED
    BY <1>0, <2>0, <2>2, <2>3, <2>4, <2>5 DEF p
<1>2. CASE queued # {}
  <2>1. disk' = [i \in DOMAIN disk |-> IF i \in queued THEN p ELSE disk[i]]
    BY <1>2 DEF Persist
  <2> HIDE DEF p
  <2>2. disk' \in [1..Len(disk) -> Transaction]
    BY <1>0, <2>1
  <2>3. disk' \in Seq(Transaction) /\ DOMAIN disk' = DOMAIN disk
    BY <1>0, <2>1, <2>2, SeqDef
  <2>4. PICK k \in DOMAIN disk : k \in queued
    BY <1>2 DEF QueuedWrites
  <2>5. ASSUME NEW i \in DOMAIN disk, PutOf(i, e)', \A j \in DOMAIN disk : j > i => ~PutOf(j, e)'
        PROVE disk'[i] = p
    <3>1. CASE i \in queued
      BY <2>1, <3>1
    <3>2. CASE i \notin queued
      <4>1. disk'[k] = p /\ PutOf(k, e)'
        BY <1>0, <2>1, <2>4 DEF PutOf, QueuedWrites
      <4>2. ~(k > i)
        BY <2>4, <2>5, <4>1
      <4>3. disk'[i] = disk[i] /\ PutOf(i, e)
        BY <2>1, <2>5, <3>2 DEF PutOf
      <4>4. \A j \in i .. Len(disk) : j \in k .. Len(disk)
        BY <1>0, <2>4, <4>2
      <4>5. i \in queued
        BY <2>4, <4>3, <4>4 DEF PutOf, QueuedWrites
      <4> QED
        BY <3>2, <4>5
    <3> QED
      BY <3>1, <3>2
  <2>6. \A i \in DOMAIN disk : disk'[i] = disk[i] \/ (PutOf(i, e) /\ disk'[i] = p)
    BY <2>1 DEF PutOf, QueuedWrites
  <2>7. \E i \in DOMAIN disk' : disk'[i] = p
    BY <2>1, <2>3, <2>4
  <2> QED
    BY <2>3, <2>5, <2>6, <2>7 DEF p
<1> QED
  BY <1>1, <1>2

\* Hooked or not: no other write is issued, and what is not written is astray.
LEMMA PersistDoes ==
  ASSUME disk \in Seq(Transaction), NEW e \in Edit, NEW x \in Entry, Persist(e, x)
  PROVE /\ disk' \in Seq(Transaction)
        /\ \A i \in DOMAIN disk' : disk'[i] = Put(e, x) \/ (i \in DOMAIN disk /\ disk'[i] = disk[i])
        /\ astray' = IF Hooked THEN astray ELSE astray \union {e}
        /\ ~Hooked => disk' = disk
<1>1. astray' = (IF Hooked THEN astray ELSE astray \union {e}) /\ (~Hooked => disk' = disk)
  BY DEF Persist
<1> QED
  BY <1>1, HookedPersists

\* The transaction at the head runs.
LEMMA RestOf ==
  ASSUME NEW S, NEW s \in Seq(S), s # <<>>
  PROVE /\ Len(s) \in Nat \ {0} /\ DOMAIN s = 1..Len(s) /\ Head(s) = s[1] /\ Head(s) \in S
        /\ Tail(s) \in Seq(S)
        /\ Len(Tail(s)) = Len(s) - 1 /\ DOMAIN Tail(s) = 1..Len(Tail(s))
        /\ \A i \in 1..Len(Tail(s)) : Tail(s)[i] = s[i + 1]
BY HeadTailProperties, LenProperties, EmptySeq

----------------------------------------------------------------------------
(* The publish lock and the attribution window. *)

InLock(e) == \E i \in DOMAIN lock : lock[i] = e

\* The lock holds the dispatches that wait for it and, at its head, the one that sends.
LockIsFair ==
  /\ \A e \in Edit : InLock(e) <=> pc[e] \in {"lock", "sending"}
  /\ \A i, j \in DOMAIN lock : lock[i] = lock[j] => i = j
  /\ \A e \in Edit : pc[e] = "sending" => lock[1] = e

\* A window is open exactly while one sends, for that one.
WindowIsSenders ==
  /\ \A e \in Edit : pc[e] = "sending" => inFlight = 1 /\ expected = <<e>>
  /\ (\A e \in Edit : pc[e] # "sending") =>
       inFlight = 0 /\ expected = <<>> /\ count = 0 /\ firstEventId = NoEnvelope

BeforeSend == {"new", "localGate", "accepting", "acceptingLeft", "outboxGate", "notifying",
               "notifyingLeft", "lock"}

\* What the window has seen: commits, and the envelope of its sender once it is out.
WindowCounts ==
  \A e \in Edit :
    /\ pc[e] \in BeforeSend => e \notin published
    /\ pc[e] = "sending" /\ e \in published => count # 0 /\ (count = 1 => firstEventId = e)

SendInv == TypeInv /\ LockIsFair /\ WindowIsSenders /\ WindowCounts

----------------------------------------------------------------------------
(* Each action keeps the types, the lock and the window. *)

\* What leaves lock, window and network alone, and moves, or loses, dispatches
\* before the lock only.
LEMMA SendKept ==
  ASSUME SendInv, TypeInv',
         UNCHANGED <<lock, inFlight, expected, count, firstEventId, published>>,
         \A e \in Edit : \/ pc'[e] = pc[e]
                        \/ /\ pc[e] \in BeforeSend \ {"lock"}
                           /\ pc'[e] \in (BeforeSend \union {"lost"}) \ {"lock"}
  PROVE SendInv'
<1>1. \A e \in Edit : /\ pc'[e] \in {"lock", "sending"} <=> pc[e] \in {"lock", "sending"}
                      /\ pc'[e] = "sending" <=> pc[e] = "sending"
                      /\ pc'[e] \in BeforeSend => pc[e] \in BeforeSend
  BY DEF BeforeSend
<1>2. LockIsFair'
  BY <1>1 DEF SendInv, LockIsFair, InLock
<1>3. WindowIsSenders'
  BY <1>1 DEF SendInv, WindowIsSenders
<1>4. WindowCounts'
  BY <1>1 DEF SendInv, WindowCounts
<1> QED
  BY <1>2, <1>3, <1>4 DEF SendInv

\* dispatch() up to the registration.
AtGate(e) ==
  \/ Dispatch(e) \/ DispatchLocal(e) \/ AcceptLocal(e) \/ AcceptLeft(e) \/ Publish(e)
  \/ CarriedOff(e)

LEMMA GateMoves ==
  ASSUME NEW e \in Edit, pc \in [Edit -> PC], AtGate(e)
  PROVE /\ pc' \in [Edit -> PC] /\ \A d \in Edit : d # e => pc'[d] = pc[d]
        /\ pc[e] \in {"new", "localGate", "accepting", "acceptingLeft", "outboxGate"}
        /\ pc'[e] \in {"localGate", "accepting", "outboxGate", "notifying", "notifyingLeft", "lost"}
        /\ UNCHANGED <<bridge, outbox, entries, stored, published, lock, window, io, history,
                       commits, turns>>
<1>1. CASE Dispatch(e)
  BY <1>1 DEF Dispatch, Await, PC
<1>2. CASE DispatchLocal(e)
  BY <1>2 DEF DispatchLocal, Await, PC
<1>3. CASE AcceptLocal(e)
  BY <1>3 DEF AcceptLocal, Await, PC
<1>4. CASE AcceptLeft(e)
  BY <1>4 DEF AcceptLeft, Await, PC
<1>5. CASE Publish(e)
  BY <1>5 DEF Publish, Await, PC
<1>6. CASE CarriedOff(e)
  BY <1>6 DEF CarriedOff, Await, PC
<1> QED
  BY <1>1, <1>2, <1>3, <1>4, <1>5, <1>6 DEF AtGate

LEMMA SendGates ==
  ASSUME SendInv, NEW e \in Edit, AtGate(e)
  PROVE SendInv'
<1>1. pc \in [Edit -> PC] /\ createdAt \in [Edit -> Nat] /\ pending \in SUBSET Edit
  BY DEF SendInv, TypeInv, SessionTyped
<1>2. Cardinality({d \in Edit : createdAt[d] # 0}) \in Nat
  BY OutboxAssumption, FS_Subset, FS_CardinalityType
<1>3. /\ pc' \in [Edit -> PC] /\ \A d \in Edit : d # e => pc'[d] = pc[d]
      /\ pc[e] \in {"new", "localGate", "accepting", "acceptingLeft", "outboxGate"}
      /\ pc'[e] \in {"localGate", "accepting", "outboxGate", "notifying", "notifyingLeft", "lost"}
      /\ UNCHANGED <<bridge, outbox, entries, stored, published, lock, window, io, history,
                     commits, turns>>
  BY <1>1, GateMoves
<1>4. createdAt' \in [Edit -> Nat] /\ pending' \in SUBSET Edit
  BY <1>1, <1>2 DEF AtGate, Dispatch, DispatchLocal, AcceptLocal, AcceptLeft, Publish, CarriedOff
<1>5. DurableTyped' /\ failures' \in Nat
  BY DEF SendInv, TypeInv, DurableTyped, BookTyped, AtGate, Dispatch, DispatchLocal, AcceptLocal,
     AcceptLeft, Publish, CarriedOff, EngineAccepts, GiveUp
<1>6. SessionTyped'
  BY <1>3, <1>4 DEF SendInv, TypeInv, SessionTyped
<1>7. TypeInv'
  BY <1>3, <1>5, <1>6 DEF SendInv, TypeInv, WindowTyped, IoTyped, BookTyped
<1>8. \A d \in Edit : \/ pc'[d] = pc[d]
                      \/ /\ pc[d] \in BeforeSend \ {"lock"}
                         /\ pc'[d] \in (BeforeSend \union {"lost"}) \ {"lock"}
  BY <1>3 DEF BeforeSend
<1> QED
  BY <1>3, <1>7, <1>8, SendKept

\* The registry f, cut by the cap, is a registry.
LEMMA CapTyped ==
  ASSUME TypeInv, NEW f \in Registries, NEW marks \in SUBSET Edit, EnforceCap(f, marks)
  PROVE /\ entries' \in Registries /\ pending' \in SUBSET Edit /\ evicted' \in SUBSET Edit
        /\ Tracked' \subseteq DOMAIN f /\ \A d \in Tracked' : entries'[d] = f[d]
        /\ evicted' = evicted \union (DOMAIN f \ Tracked')
        /\ pending' = marks \ (DOMAIN f \ Tracked')
<1>1. /\ DOMAIN f \subseteq Edit /\ evicted \in SUBSET Edit
      /\ DOMAIN Keep(f, Newest(f)) = DOMAIN f \intersect Newest(f)
      /\ Keep(f, Newest(f)) \in Registries
      /\ \A d \in DOMAIN f \intersect Newest(f) : Keep(f, Newest(f))[d] = f[d]
  BY RegistryIs, KeepTyped DEF TypeInv, BookTyped
<1> QED
  BY <1>1 DEF EnforceCap, Tracked

\* Registration, whether the board is still the edit's or has been left.
Registers(e) == Register(e) \/ RegisterLeft(e)

LEMMA RegistersBy ==
  ASSUME TypeInv, NEW e \in Edit, Registers(e)
  PROVE \E marks \in SUBSET Edit :
          /\ marks \subseteq pending \union {e}
          /\ EnforceCap(With(entries, e, NewEntry), marks) /\ Persist(e, NewEntry)
<1>1. pending \in SUBSET Edit
  BY DEF TypeInv, SessionTyped
<1>2. CASE Register(e)
  <2>1. Enter(e, pending \union {e})
    BY <1>2 DEF Register
  <2>2. EnforceCap(With(entries, e, NewEntry), pending \union {e}) /\ Persist(e, NewEntry)
    BY <2>1 DEF Enter
  <2> QED
    BY <1>1, <2>2
<1>3. CASE RegisterLeft(e)
  <2>1. Enter(e, pending)
    BY <1>3 DEF RegisterLeft
  <2>2. EnforceCap(With(entries, e, NewEntry), pending) /\ Persist(e, NewEntry)
    BY <2>1 DEF Enter
  <2> QED
    BY <1>1, <2>2
<1> QED
  BY <1>2, <1>3 DEF Registers

LEMMA SendRegister ==
  ASSUME SendInv, NEW e \in Edit, Registers(e)
  PROVE SendInv'
<1>1. /\ pc \in [Edit -> PC] /\ lock \in Seq(Edit) /\ entries \in Registries
      /\ disk \in Seq(Transaction) /\ pending \in SUBSET Edit /\ astray \in SUBSET Edit
  BY DEF SendInv, TypeInv, SessionTyped, IoTyped, BookTyped
<1>2. With(entries, e, NewEntry) \in Registries
  BY <1>1, WithTyped, NewEntryIs
<1>0. PICK marks \in SUBSET Edit :
        EnforceCap(With(entries, e, NewEntry), marks) /\ Persist(e, NewEntry)
  BY RegistersBy DEF SendInv
<1>3. entries' \in Registries /\ pending' \in SUBSET Edit /\ evicted' \in SUBSET Edit
  BY <1>0, <1>2, CapTyped DEF SendInv
<1>4. disk' \in Seq(Transaction) /\ astray' \in SUBSET Edit
  BY <1>0, <1>1, NewEntryIs, PersistDoes
<1>5. /\ lock' \in Seq(Edit) /\ pc' = [pc EXCEPT ![e] = "lock"]
      /\ pc[e] \in {"notifying", "notifyingLeft"}
      /\ Len(lock) \in Nat /\ DOMAIN lock = 1..Len(lock) /\ DOMAIN lock' = 1..(Len(lock) + 1)
      /\ \A i \in 1..Len(lock) : lock'[i] = lock[i]
      /\ lock'[Len(lock) + 1] = e
  <2>1. /\ lock' = Append(lock, e) /\ pc' = [pc EXCEPT ![e] = "lock"]
        /\ pc[e] \in {"notifying", "notifyingLeft"}
    BY DEF Registers, Register, RegisterLeft, Enter, Await
  <2> QED
    BY <1>1, <2>1, AppendProperties, LenProperties
<1>6. DurableTyped' /\ failures' \in Nat
  BY DEF SendInv, TypeInv, DurableTyped, BookTyped, Registers, Register, RegisterLeft,
     EngineAccepts, GiveUp
<1>13. UNCHANGED <<bridge, outbox, createdAt, window, loads, published, commits, turns>>
  BY DEF Registers, Register, RegisterLeft
<1>7. SessionTyped'
  BY <1>1, <1>3, <1>5, <1>13 DEF SendInv, TypeInv, SessionTyped, PC
<1>8. TypeInv'
  BY <1>3, <1>4, <1>6, <1>7, <1>13 DEF SendInv, TypeInv, WindowTyped, IoTyped, BookTyped
<1>9. \A d \in Edit : d # e => pc'[d] = pc[d]
  BY <1>1, <1>5
<1>10. pc'[e] = "lock" /\ ~InLock(e) /\ e \notin published
  BY <1>1, <1>5 DEF SendInv, LockIsFair, WindowCounts, BeforeSend
<1>11. LockIsFair'
  <2>1. \A d \in Edit : InLock(d)' <=> (InLock(d) \/ d = e)
    BY <1>5 DEF InLock
  <2>2. \A i, j \in DOMAIN lock' : lock'[i] = lock'[j] => i = j
    BY <1>5, <1>10 DEF InLock, SendInv, LockIsFair
  <2>3. \A d \in Edit : pc'[d] = "sending" => lock'[1] = d
    <3> SUFFICES ASSUME NEW d \in Edit, pc'[d] = "sending" PROVE lock'[1] = d
      OBVIOUS
    <3>1. pc[d] = "sending" /\ InLock(d) /\ lock[1] = d
      BY <1>9, <1>10 DEF SendInv, LockIsFair
    <3>2. 1 \in 1..Len(lock)
      BY <1>5, <3>1 DEF InLock
    <3> QED
      BY <1>5, <3>1, <3>2
  <2> QED
    BY <2>1, <2>2, <2>3, <1>9, <1>10 DEF SendInv, LockIsFair
<1>12. WindowIsSenders' /\ WindowCounts'
  BY <1>5, <1>9, <1>10, <1>13 DEF SendInv, WindowIsSenders, WindowCounts, BeforeSend
<1> QED
  BY <1>8, <1>11, <1>12 DEF SendInv

\* The sender, if there is one: what the lock and the window say of it.
LEMMA SenderIs ==
  ASSUME SendInv, NEW e \in Edit, pc[e] = "sending"
  PROVE /\ lock \in Seq(Edit) /\ lock # <<>> /\ lock[1] = e /\ Len(lock) \in Nat \ {0}
        /\ DOMAIN lock = 1..Len(lock)
        /\ inFlight = 1 /\ expected = <<e>>
        /\ \A d \in Edit : pc[d] = "sending" => d = e
<1>1. InLock(e) /\ lock \in Seq(Edit) /\ lock[1] = e
  BY DEF SendInv, LockIsFair, TypeInv, SessionTyped
<1>2. DOMAIN lock = 1..Len(lock) /\ Len(lock) \in Nat
  BY <1>1, LenProperties
<1> QED
  BY <1>1, <1>2 DEF InLock, SendInv, LockIsFair, WindowIsSenders

LEMMA SendStarts ==
  ASSUME SendInv, NEW e \in Edit, StartAttempt(e)
  PROVE SendInv'
<1>1. /\ pc \in [Edit -> PC] /\ lock \in Seq(Edit) /\ pc[e] = "lock" /\ disk \in Seq(Transaction)
      /\ pc' = [pc EXCEPT ![e] = "sending"] /\ entries \in Registries /\ astray \in SUBSET Edit
  BY DEF SendInv, TypeInv, SessionTyped, IoTyped, BookTyped, StartAttempt, Await
<1>2. lock # <<>> /\ lock[1] = e
  <2>1. InLock(e)
    BY <1>1 DEF SendInv, LockIsFair
  <2>2. lock # <<>>
    BY <1>1, <2>1, LenProperties DEF InLock
  <2> QED
    BY <1>1, <2>2, RestOf DEF StartAttempt
<1>3. \A d \in Edit : pc[d] # "sending"
  BY <1>1, <1>2 DEF SendInv, LockIsFair
<1>4. inFlight' = 1 /\ expected' = <<e>> /\ count = 0
  <2>1. inFlight = 0 /\ expected = <<>> /\ count = 0
    BY <1>3 DEF SendInv, WindowIsSenders
  <2>2. Append(<<>>, e) = <<e>>
    OBVIOUS
  <2> QED
    BY <2>1, <2>2 DEF StartAttempt
<1>5. disk' \in Seq(Transaction) /\ astray' \in SUBSET Edit
  <2>1. CASE e \in Tracked
    <3>1. entries[e] \in Entry /\ Persist(e, entries[e])
      BY <1>1, <2>1, RegistryIs DEF StartAttempt, Tracked
    <3> QED
      BY <1>1, <3>1, PersistDoes
  <2>2. CASE e \notin Tracked
    BY <1>1, <2>2 DEF StartAttempt
  <2> QED
    BY <2>1, <2>2
<1>6. TypeInv'
  BY <1>1, <1>4, <1>5 DEF SendInv, TypeInv, DurableTyped, SessionTyped, WindowTyped, IoTyped,
     BookTyped, StartAttempt, PC
<1>7. \A d \in Edit : IF d = e THEN pc'[d] = "sending" ELSE pc'[d] = pc[d]
  BY <1>1
<1>8. LockIsFair'
  BY <1>1, <1>2, <1>3, <1>7 DEF SendInv, LockIsFair, InLock, StartAttempt
<1>9. WindowIsSenders'
  BY <1>3, <1>4, <1>7 DEF WindowIsSenders
<1>10. WindowCounts'
  BY <1>1, <1>3, <1>7 DEF SendInv, WindowCounts, StartAttempt, BeforeSend
<1> QED
  BY <1>6, <1>8, <1>9, <1>10 DEF SendInv

LEMMA SendPublishes ==
  ASSUME SendInv, PublishCommit \/ \E e \in Edit : NetworkPublish(e)
  PROVE SendInv'
<1>1. CASE PublishCommit
  <2>1. TypeInv'
    BY <1>1 DEF SendInv, TypeInv, DurableTyped, SessionTyped, WindowTyped, IoTyped, BookTyped,
       PublishCommit, Observe
  <2>2. LockIsFair'
    BY <1>1 DEF SendInv, LockIsFair, InLock, PublishCommit
  <2>3. WindowIsSenders'
    BY <1>1 DEF SendInv, WindowIsSenders, PublishCommit
  <2>4. WindowCounts'
    BY <1>1 DEF SendInv, WindowCounts, PublishCommit, Observe, TypeInv, WindowTyped
  <2> QED
    BY <2>1, <2>2, <2>3, <2>4 DEF SendInv
<1>2. ASSUME NEW e \in Edit, NetworkPublish(e) PROVE SendInv'
  <2>1. TypeInv'
    BY <1>2 DEF SendInv, TypeInv, DurableTyped, SessionTyped, WindowTyped, IoTyped, BookTyped,
       NetworkPublish, Observe
  <2>2. LockIsFair'
    BY <1>2 DEF SendInv, LockIsFair, InLock, NetworkPublish
  <2>3. pc[e] = "sending" /\ e \notin published /\ \A d \in Edit : pc[d] = "sending" => d = e
    BY <1>2, SenderIs DEF NetworkPublish
  <2>4. WindowIsSenders'
    BY <1>2, <2>3 DEF SendInv, WindowIsSenders, NetworkPublish
  <2>5. WindowCounts'
    BY <1>2, <2>3 DEF SendInv, WindowCounts, NetworkPublish, Observe, TypeInv, WindowTyped, BeforeSend
  <2> QED
    BY <2>1, <2>2, <2>4, <2>5 DEF SendInv
<1> QED
  BY <1>1, <1>2

\* What the end of a send does to lock and window, whatever becomes of the entry.
LEMMA SendOver ==
  ASSUME SendInv, NEW e \in Edit, pc[e] = "sending", Settle(e), TypeInv',
         inFlight' = 0, expected' = <<>>, count' = 0, firstEventId' = NoEnvelope,
         published' = published
  PROVE SendInv'
<1>1. /\ lock \in Seq(Edit) /\ lock # <<>> /\ lock[1] = e /\ pc \in [Edit -> PC]
      /\ \A d \in Edit : pc[d] = "sending" => d = e
  BY SenderIs DEF SendInv, TypeInv, SessionTyped
<1>2. \A d \in Edit : IF d = e THEN pc'[d] = "done" ELSE pc'[d] = pc[d]
  BY <1>1 DEF Settle, Await
<1>3. /\ Len(lock) \in Nat \ {0} /\ DOMAIN lock = 1..Len(lock)
      /\ DOMAIN lock' = 1..(Len(lock) - 1)
      /\ \A i \in 1..(Len(lock) - 1) : lock'[i] = lock[i + 1]
  <2>1. lock' = Tail(lock)
    BY DEF Settle
  <2> QED
    BY <1>1, <2>1, RestOf
<1>4. \A d \in Edit : InLock(d)' <=> (InLock(d) /\ d # e)
  <2>1. ASSUME NEW d \in Edit, InLock(d)' PROVE InLock(d) /\ d # e
    <3>1. PICK i \in 1..(Len(lock) - 1) : lock[i + 1] = d
      BY <1>3, <2>1 DEF InLock
    <3>2. i + 1 \in DOMAIN lock /\ i + 1 # 1 /\ 1 \in DOMAIN lock
      BY <1>3
    <3> QED
      BY <1>1, <3>1, <3>2 DEF InLock, SendInv, LockIsFair
  <2>2. ASSUME NEW d \in Edit, InLock(d), d # e PROVE InLock(d)'
    <3>1. PICK i \in DOMAIN lock : lock[i] = d
      BY <2>2 DEF InLock
    <3>2. i \in 1..Len(lock) /\ i # 1
      BY <1>1, <1>3, <2>2, <3>1
    <3>. DEFINE j == i - 1
    <3>0. j \in 1..(Len(lock) - 1) /\ j + 1 = i
      BY <1>3, <3>2
    <3>3. PICK k \in 1..(Len(lock) - 1) : k + 1 = i
      BY <3>0
    <3>4. k \in DOMAIN lock' /\ lock'[k] = d
      BY <1>3, <3>1, <3>3
    <3> QED
      BY <3>4 DEF InLock
  <2> QED
    BY <2>1, <2>2
<1>5. \A i, j \in DOMAIN lock' : lock'[i] = lock'[j] => i = j
  <2> SUFFICES ASSUME NEW i \in 1..(Len(lock) - 1), NEW j \in 1..(Len(lock) - 1),
                      lock'[i] = lock'[j]
               PROVE i = j
    BY <1>3
  <2>1. i + 1 \in DOMAIN lock /\ j + 1 \in DOMAIN lock /\ lock[i + 1] = lock[j + 1]
    BY <1>3
  <2>2. i + 1 = j + 1
    BY <2>1 DEF SendInv, LockIsFair
  <2> QED
    BY <1>3, <2>2
<1>6. LockIsFair'
  BY <1>1, <1>2, <1>4, <1>5 DEF SendInv, LockIsFair
<1>7. WindowIsSenders' /\ WindowCounts'
  BY <1>1, <1>2 DEF SendInv, WindowIsSenders, WindowCounts, BeforeSend
<1> QED
  BY <1>6, <1>7 DEF SendInv

----------------------------------------------------------------------------
(* The outcome of a send. *)

Unresolved == {"pending", "sent"}

LEMMA SentIs ==
  ASSUME NEW f \in Registries, NEW e \in Edit, NEW v \in Edit \union {Commit, NoEnvelope}
  PROVE /\ Sent(f, e, v) \in Registries /\ DOMAIN Sent(f, e, v) = DOMAIN f
        /\ \A d \in DOMAIN f \ {e} : Sent(f, e, v)[d] = f[d]
        /\ e \in DOMAIN f =>
             \/ Sent(f, e, v)[e] = f[e]
             \/ /\ f[e].status = "pending" /\ Sent(f, e, v)[e].status = "sent"
                /\ Sent(f, e, v)[e].sentEventId = v
<1>1. CASE e \in DOMAIN f /\ f[e].status = "pending"
  <2> DEFINE x == [status |-> "sent", sentEventId |-> v]
  <2>1. x \in Entry /\ x.status = "sent" /\ x.sentEventId = v
    BY DEF Entry
  <2> HIDE DEF x
  <2>0. DOMAIN f \union {e} = DOMAIN f
    BY <1>1
  <2>2. /\ With(f, e, x) \in Registries /\ DOMAIN With(f, e, x) = DOMAIN f
        /\ With(f, e, x)[e] = x /\ \A d \in DOMAIN f \ {e} : With(f, e, x)[d] = f[d]
    <3>1. With(f, e, x) \in Registries
      BY <2>1, WithTyped
    <3>2. DOMAIN With(f, e, x) = DOMAIN f
      BY <2>0 DEF With
    <3>3. With(f, e, x)[e] = x
      BY DEF With
    <3>4. \A d \in DOMAIN f \ {e} : With(f, e, x)[d] = f[d]
      BY DEF With
    <3> QED
      BY <3>1, <3>2, <3>3, <3>4
  <2>3. Sent(f, e, v) = With(f, e, x)
    BY <1>1 DEF Sent, x
  <2> QED
    BY <1>1, <2>1, <2>2, <2>3
<1>2. CASE ~(e \in DOMAIN f /\ f[e].status = "pending")
  BY <1>2 DEF Sent
<1> QED
  BY <1>1, <1>2

\* The entry of e after its send: the change that the registry and the store see.
Settles(e) ==
  /\ inFlight' = 0 /\ expected' = <<>> /\ count' = 0 /\ firstEventId' = NoEnvelope
  /\ entries' \in Registries /\ DOMAIN entries' = DOMAIN entries
  /\ \A d \in DOMAIN entries \ {e} : entries'[d] = entries[d]
  /\ e \notin DOMAIN entries => UNCHANGED <<disk, astray, pending>>
  /\ e \in DOMAIN entries =>
       /\ Persist(e, entries'[e])
       /\ entries'[e].sentEventId \in {e, entries[e].sentEventId}
       /\ \/ /\ pending' = pending
             /\ entries'[e].status = entries[e].status \/ entries'[e].status = "sent"
             /\ entries[e].status \notin Unresolved => entries'[e] = entries[e]
          \/ pending' = pending \ {e} /\ entries'[e].status = "failed"

LEMMA ResolvesOwn ==
  ASSUME SendInv, NEW e \in Edit, SendResolves(e)
  PROVE Settles(e)
<1>1. /\ pc[e] = "sending" /\ e \in published /\ inFlight = 1 /\ expected = <<e>>
      /\ entries \in Registries /\ (count = 1 => firstEventId = e)
  BY SenderIs DEF SendResolves, SendInv, WindowCounts, TypeInv, SessionTyped
<1>2. Head(expected) = e /\ Tail(expected) = <<>> /\ expected # <<>>
  BY <1>1
<1>3. inFlight' = 0 /\ expected' = <<>> /\ count' = 0 /\ firstEventId' = NoEnvelope
  BY <1>1, <1>2 DEF SendResolves, CloseWindow
<1> DEFINE f == Attributed(expected)
<1>4. /\ f \in Registries /\ DOMAIN f = DOMAIN entries
      /\ \A d \in DOMAIN entries \ {e} : f[d] = entries[d]
      /\ e \in DOMAIN entries =>
           f[e] = entries[e] \/ (/\ entries[e].status = "pending"
                                 /\ f[e].status = "sent" /\ f[e].sentEventId = e)
  <2>1. CASE count = 1
    <3>1. f = Sent(entries, e, e)
      BY <1>1, <1>2, <2>1 DEF Attributed
    <3> HIDE DEF f
    <3> QED
      BY <1>1, <3>1, SentIs
  <2>2. CASE count # 1
    BY <1>1, <2>2 DEF Attributed
  <2> QED
    BY <2>1, <2>2
<1>5. /\ pending' = pending
      /\ IF e \in DOMAIN f
         THEN entries' = Sent(f, e, f[e].sentEventId) /\ Persist(e, entries'[e])
         ELSE entries' = f /\ UNCHANGED <<disk, astray>>
  BY DEF SendResolves
<1> HIDE DEF f
<1>6. CASE e \in DOMAIN f
  <2>1. f[e] \in Entry /\ f[e].sentEventId \in Edit \union {Commit, NoEnvelope}
    BY <1>4, <1>6, RegistryIs, EntryIs
  <2> DEFINE g == Sent(f, e, f[e].sentEventId)
  <2>2. /\ g \in Registries /\ DOMAIN g = DOMAIN f /\ \A d \in DOMAIN f \ {e} : g[d] = f[d]
        /\ g[e] = f[e] \/ (/\ f[e].status = "pending" /\ g[e].status = "sent"
                           /\ g[e].sentEventId = f[e].sentEventId)
    BY <1>4, <1>6, <2>1, SentIs
  <2>3. entries' = g /\ Persist(e, entries'[e])
    BY <1>5, <1>6
  <2> HIDE DEF g
  <2> QED
    BY <1>3, <1>4, <1>5, <1>6, <2>2, <2>3 DEF Settles, Unresolved
<1>7. CASE e \notin DOMAIN f
  <2>1. entries' = f /\ UNCHANGED <<disk, astray>>
    BY <1>5, <1>7
  <2> QED
    BY <1>3, <1>4, <1>5, <1>7, <2>1 DEF Settles
<1> QED
  BY <1>6, <1>7

\* The one expectation is dropped.
LEMMA RemovesOnly == ASSUME NEW e PROVE RemoveFirst(<<e>>, e) = <<>>
<1> DEFINE I == {i \in 1..Len(<<e>>) : <<e>>[i] = e}
<1>1. I = {1}
  OBVIOUS
<1>2. Min(I) = 1
  BY <1>1 DEF Min
<1>3. RemoveAt(<<e>>, 1) = <<>>
  BY DEF RemoveAt
<1>4. RemoveFirst(<<e>>, e) = RemoveAt(<<e>>, IF I # {} THEN Min(I) ELSE 0)
  BY <1>1 DEF RemoveFirst, SelectInSeq
<1> HIDE DEF I
<1> QED
  BY <1>1, <1>2, <1>3, <1>4

LEMMA ThrowsOwn ==
  ASSUME SendInv, NEW e \in Edit, SendThrows(e)
  PROVE Settles(e)
<1>1. /\ pc[e] = "sending" /\ inFlight = 1 /\ expected = <<e>> /\ entries \in Registries
  BY SenderIs DEF SendThrows, SendInv, TypeInv, SessionTyped
<1>2. RemoveFirst(expected, e) = <<>>
  BY <1>1, RemovesOnly
<1>3. Attributed(<<>>) = entries
  BY DEF Attributed
<1>4. /\ CloseWindow(<<>>)
      /\ IF e \in DOMAIN entries
         THEN /\ entries' = With(entries, e, [entries[e] EXCEPT !.status = "failed"])
              /\ Persist(e, entries'[e])
              /\ pending' = pending \ {e}
         ELSE entries' = entries /\ UNCHANGED <<disk, astray, pending>>
  BY <1>2, <1>3 DEF SendThrows
<1>5. inFlight' = 0 /\ expected' = <<>> /\ count' = 0 /\ firstEventId' = NoEnvelope
  BY <1>1, <1>4 DEF CloseWindow
<1>6. CASE e \in DOMAIN entries
  <2> DEFINE x == [entries[e] EXCEPT !.status = "failed"]
  <2>1. x \in Entry /\ x.status = "failed" /\ x.sentEventId = entries[e].sentEventId
    BY <1>1, <1>6, RegistryIs DEF Entry
  <2>2. entries' = With(entries, e, x) /\ Persist(e, entries'[e]) /\ pending' = pending \ {e}
    BY <1>4, <1>6
  <2> HIDE DEF x
  <2>0. DOMAIN entries \union {e} = DOMAIN entries
    BY <1>6
  <2>3. /\ entries' \in Registries /\ DOMAIN entries' = DOMAIN entries /\ entries'[e] = x
        /\ \A d \in DOMAIN entries \ {e} : entries'[d] = entries[d]
    <3>1. entries' \in Registries
      BY <1>1, <2>1, <2>2, WithTyped
    <3>2. DOMAIN entries' = DOMAIN entries
      BY <2>0, <2>2 DEF With
    <3>3. entries'[e] = x
      BY <2>2 DEF With
    <3>4. \A d \in DOMAIN entries \ {e} : entries'[d] = entries[d]
      BY <2>2 DEF With
    <3> QED
      BY <3>1, <3>2, <3>3, <3>4
  <2> QED
    BY <1>5, <1>6, <2>1, <2>2, <2>3 DEF Settles
<1>7. CASE e \notin DOMAIN entries
  BY <1>1, <1>4, <1>5, <1>7 DEF Settles
<1> QED
  BY <1>6, <1>7

LEMMA SendEnds ==
  ASSUME SendInv, NEW e \in Edit, SendResolves(e) \/ SendThrows(e)
  PROVE SendInv'
<1>1. Settles(e)
  BY ResolvesOwn, ThrowsOwn
<1>2. /\ pc[e] = "sending" /\ Settle(e) /\ lock \in Seq(Edit) /\ lock # <<>>
      /\ pc \in [Edit -> PC] /\ disk \in Seq(Transaction) /\ pending \in SUBSET Edit
      /\ astray \in SUBSET Edit
  BY SenderIs DEF SendResolves, SendThrows, SendInv, TypeInv, SessionTyped, IoTyped, BookTyped
<1>3. disk' \in Seq(Transaction) /\ astray' \in SUBSET Edit
  <2>1. CASE e \in DOMAIN entries
    <3>1. entries'[e] \in Entry /\ Persist(e, entries'[e])
      BY <1>1, <2>1, RegistryIs DEF Settles
    <3> QED
      BY <1>2, <3>1, PersistDoes
  <2>2. CASE e \notin DOMAIN entries
    BY <1>1, <1>2, <2>2 DEF Settles
  <2> QED
    BY <2>1, <2>2
<1>4. pending' \in SUBSET Edit
  BY <1>1, <1>2 DEF Settles
<1>5. lock' \in Seq(Edit) /\ pc' \in [Edit -> PC]
  BY <1>2, RestOf DEF Settle, Await, PC
<1>6. /\ UNCHANGED <<durable, bridge, outbox, createdAt, loads, evicted, budget>>
      /\ entries' \in Registries
      /\ inFlight' = 0 /\ expected' = <<>> /\ count' = 0 /\ firstEventId' = NoEnvelope
  BY <1>1 DEF SendResolves, SendThrows, Settles
<1>7. expected' \in Seq(Edit)
  BY <1>6
<1>8. TypeInv'
  BY <1>3, <1>4, <1>5, <1>6, <1>7 DEF SendInv, TypeInv, DurableTyped, SessionTyped, WindowTyped,
     IoTyped, BookTyped
<1> QED
  BY <1>2, <1>6, <1>8, SendOver

----------------------------------------------------------------------------
(* The echo, the store, and the life of an outbox. *)

\* What an echo does to the entry it finds.
LEMMA EchoDoes ==
  ASSUME TypeInv, NEW v \in Edit, Echo(v)
  PROVE \E d \in Tracked :
          LET x == [entries[d] EXCEPT !.status = "reconciled"] IN
          /\ x \in Entry /\ x.status = "reconciled" /\ x.sentEventId = entries[d].sentEventId
          /\ Persist(d, x) /\ pending' = pending \ {d}
          /\ entries' \in Registries /\ Tracked' = Tracked \ {d}
          /\ \A c \in Tracked' : entries'[c] = entries[c]
<1>1. PICK d \in Tracked : /\ Persist(d, [entries[d] EXCEPT !.status = "reconciled"])
                           /\ entries' = Keep(entries, Tracked \ {d})
                           /\ pending' = pending \ {d}
  BY DEF Echo
<1>2. entries \in Registries /\ entries[d] \in Entry
  BY RegistryIs DEF TypeInv, SessionTyped, Tracked
<1> DEFINE x == [entries[d] EXCEPT !.status = "reconciled"]
<1>3. x \in Entry /\ x.status = "reconciled" /\ x.sentEventId = entries[d].sentEventId
  BY <1>2 DEF Entry
<1>4. /\ entries' \in Registries /\ DOMAIN entries' = DOMAIN entries \intersect (Tracked \ {d})
      /\ \A c \in DOMAIN entries \intersect (Tracked \ {d}) : entries'[c] = entries[c]
  BY <1>1, <1>2, KeepTyped
<1>5. Tracked' = Tracked \ {d} /\ \A c \in Tracked' : entries'[c] = entries[c]
  BY <1>4 DEF Tracked
<1> QED
  BY <1>1, <1>3, <1>4, <1>5

LEMMA SendEcho ==
  ASSUME SendInv, NEW v \in Edit, Echo(v)
  PROVE SendInv'
<1>1. /\ TypeInv /\ disk \in Seq(Transaction) /\ entries \in Registries /\ pending \in SUBSET Edit
      /\ astray \in SUBSET Edit
  BY DEF SendInv, TypeInv, SessionTyped, IoTyped, BookTyped
<1>2. PICK d \in Tracked, x \in Entry :
        Persist(d, x) /\ pending' = pending \ {d} /\ entries' \in Registries
  BY <1>1, EchoDoes
<1>3. d \in Edit
  BY <1>1, RegistryIs DEF Tracked
<1>4. disk' \in Seq(Transaction) /\ pending' \in SUBSET Edit /\ astray' \in SUBSET Edit
  BY <1>1, <1>2, <1>3, PersistDoes
<1>5. UNCHANGED <<durable, bridge, outbox, createdAt, pc, lock, window, loads, evicted, budget>>
  BY DEF Echo
<1>6. TypeInv'
  BY <1>2, <1>4, <1>5 DEF SendInv, TypeInv, DurableTyped, SessionTyped, WindowTyped, IoTyped, BookTyped
<1> QED
  BY <1>5, <1>6, SendKept

\* A write reaches the store: what it leaves of the other entries, and of its own.
LEMMA StorePutDoes ==
  ASSUME TypeInv, StorePut
  PROVE \E e \in Edit, x \in Entry :
          /\ disk # <<>> /\ Head(disk) = Put(e, x)
          /\ \/ stored' = stored /\ astray' = astray \union {e}
             \/ /\ astray' = astray /\ stored' \in Registries
                /\ \A d \in DOMAIN stored' :
                     IF d = e THEN stored'[d] = x ELSE d \in DOMAIN stored /\ stored'[d] = stored[d]
<1>1. disk # <<>> /\ Head(disk) \in Transaction /\ Head(disk).op = "put" /\ stored \in Registries
  BY RestOf DEF TypeInv, IoTyped, DurableTyped, StorePut
<1>2. PICK e \in Edit, x \in Entry : Head(disk) = Put(e, x)
  BY <1>1, TransactionIs, GetIsNoPut
<1>3. Head(disk).edit = e /\ Head(disk).entry = x
  BY <1>2, PutIs
<1> DEFINE f == With(stored, e, x)
<1>4. /\ f \in Registries /\ DOMAIN f = DOMAIN stored \union {e} /\ f[e] = x
      /\ \A d \in DOMAIN stored \ {e} : f[d] = stored[d]
  <2>1. f \in Registries
    BY <1>1, WithTyped
  <2>2. DOMAIN f = DOMAIN stored \union {e} /\ f[e] = x
    BY DEF With
  <2>3. \A d \in DOMAIN stored \ {e} : f[d] = stored[d]
    BY DEF With
  <2> QED
    BY <2>1, <2>2, <2>3
<1>5. \/ stored' = Keep(f, Newest(f)) /\ astray' = astray
      \/ stored' = stored /\ astray' = astray \union {e}
  BY <1>3 DEF StorePut
<1> HIDE DEF f
<1>6. CASE stored' = Keep(f, Newest(f)) /\ astray' = astray
  <2>1. /\ stored' \in Registries /\ DOMAIN stored' = DOMAIN f \intersect Newest(f)
        /\ \A d \in DOMAIN f \intersect Newest(f) : stored'[d] = f[d]
    BY <1>4, <1>6, KeepTyped
  <2>2. \A d \in DOMAIN stored' :
          IF d = e THEN stored'[d] = x ELSE d \in DOMAIN stored /\ stored'[d] = stored[d]
    BY <1>4, <2>1
  <2> QED
    BY <1>1, <1>2, <1>6, <2>1, <2>2
<1>7. CASE stored' = stored /\ astray' = astray \union {e}
  BY <1>1, <1>2, <1>7
<1> QED
  BY <1>5, <1>6, <1>7

\* A read comes back: the registry it leaves, cut by the cap.
LEMMA RehydrateDoes ==
  ASSUME TypeInv, Rehydrate
  PROVE \E copy \in Registries :
          /\ loads # <<>> /\ copy = Head(loads) /\ loads' = Tail(loads)
          /\ \/ /\ entries' = entries /\ evicted' = evicted /\ pending' = pending
                /\ astray' = astray \union DOMAIN copy
             \/ /\ entries' \in Registries /\ Tracked' \subseteq Tracked \union DOMAIN copy
                /\ \A e \in Tracked' :
                     entries'[e] = IF e \in DOMAIN copy THEN copy[e] ELSE entries[e]
                /\ evicted' = evicted \union ((Tracked \union DOMAIN copy) \ Tracked')
                /\ pending' = pending \ ((Tracked \union DOMAIN copy) \ Tracked')
                /\ astray' = astray \union Overtaken(copy)
<1> DEFINE copy == Head(loads)
           f == [e \in Tracked \union DOMAIN copy |-> IF e \in DOMAIN copy THEN copy[e] ELSE entries[e]]
<1>1. loads # <<>> /\ copy \in Registries /\ entries \in Registries /\ pending \in SUBSET Edit
  BY RestOf DEF TypeInv, IoTyped, SessionTyped, Rehydrate
<1>2. /\ Tracked \union DOMAIN copy \in SUBSET Edit
      /\ \A e \in DOMAIN copy : copy[e] \in Entry
      /\ \A e \in Tracked : entries[e] \in Entry
  BY <1>1, RegistryIs DEF Tracked
<1>3. f \in Registries /\ DOMAIN f = Tracked \union DOMAIN copy
  <2>1. f \in [Tracked \union DOMAIN copy -> Entry]
    BY <1>2
  <2> QED
    BY <1>2, <2>1, RegistryFrom
<1>4. \/ EnforceCap(f, pending) /\ astray' = astray \union Overtaken(copy)
      \/ astray' = astray \union DOMAIN copy /\ UNCHANGED <<entries, evicted, pending>>
  BY DEF Rehydrate
<1>5. loads' = Tail(loads)
  BY DEF Rehydrate
<1>6. CASE EnforceCap(f, pending) /\ astray' = astray \union Overtaken(copy)
  <2>1. \A e \in DOMAIN f : f[e] = IF e \in DOMAIN copy THEN copy[e] ELSE entries[e]
    OBVIOUS
  <2> HIDE DEF f, copy
  <2>2. /\ entries' \in Registries /\ Tracked' \subseteq DOMAIN f
        /\ \A d \in Tracked' : entries'[d] = f[d]
        /\ evicted' = evicted \union (DOMAIN f \ Tracked')
        /\ pending' = pending \ (DOMAIN f \ Tracked')
    BY <1>1, <1>3, <1>6, CapTyped
  <2>3. \A e \in Tracked' : entries'[e] = IF e \in DOMAIN copy THEN copy[e] ELSE entries[e]
    BY <2>1, <2>2
  <2> QED
    BY <1>1, <1>3, <1>5, <1>6, <2>2, <2>3 DEF copy
<1>7. CASE astray' = astray \union DOMAIN copy /\ UNCHANGED <<entries, evicted, pending>>
  BY <1>1, <1>5, <1>7
<1> QED
  BY <1>4, <1>6, <1>7

LEMMA SendStores ==
  ASSUME SendInv, StorePut \/ StoreGet \/ CreateOutbox \/ MountBridge \/ Rehydrate
  PROVE SendInv'
<1>1. /\ TypeInv /\ disk \in Seq(Transaction) /\ loads \in Seq(Registries) /\ stored \in Registries
      /\ entries \in Registries /\ pending \in SUBSET Edit
      /\ astray \in SUBSET Edit /\ evicted \in SUBSET Edit
  BY DEF SendInv, TypeInv, SessionTyped, IoTyped, DurableTyped, BookTyped
<1>2. /\ UNCHANGED <<accepted, gaveUp, unheard, published, createdAt, pc, lock, window, commits>>
      /\ failures' \in Nat /\ turns' \in Nat /\ bridge' \in {"none", "mounted", "stale"}
      /\ outbox' \in {"none", "loading", "ready"}
  <2>0. /\ failures \in Nat /\ turns \in Nat /\ bridge \in {"none", "mounted", "stale"}
        /\ outbox \in {"none", "loading", "ready"}
    BY DEF SendInv, TypeInv, SessionTyped, BookTyped
  <2>1. CASE StorePut
    BY <2>0, <2>1 DEF StorePut, GiveUp
  <2>2. CASE StoreGet
    BY <2>0, <2>2 DEF StoreGet
  <2>3. CASE CreateOutbox
    BY <2>0, <2>3 DEF CreateOutbox, Turn
  <2>4. CASE MountBridge
    BY <2>0, <2>4 DEF MountBridge
  <2>5. CASE Rehydrate
    BY <2>0, <2>5 DEF Rehydrate, GiveUp
  <2> QED
    BY <2>1, <2>2, <2>3, <2>4, <2>5
<1>3. /\ stored' \in Registries /\ disk' \in Seq(Transaction) /\ loads' \in Seq(Registries)
      /\ entries' \in Registries /\ pending' \in SUBSET Edit
      /\ astray' \in SUBSET Edit /\ evicted' \in SUBSET Edit
  <2>1. CASE StorePut
    <3>1. stored' \in Registries /\ astray' \in SUBSET Edit
      BY <1>1, <2>1, StorePutDoes
    <3>2. disk' \in Seq(Transaction) /\ UNCHANGED <<loads, entries, pending, evicted>>
      BY <1>1, <2>1, RestOf DEF StorePut
    <3> QED
      BY <1>1, <3>1, <3>2
  <2>2. CASE StoreGet
    <3>1. disk' \in Seq(Transaction) /\ loads' = Append(loads, stored)
      BY <1>1, <2>2, RestOf DEF StoreGet
    <3>2. loads' \in Seq(Registries) /\ UNCHANGED <<stored, entries, pending, astray, evicted>>
      BY <1>1, <2>2, <3>1, AppendProperties DEF StoreGet
    <3> QED
      BY <1>1, <3>1, <3>2
  <2>3. CASE CreateOutbox
    BY <1>1, <2>3, AppendProperties, PutIs DEF CreateOutbox, Transaction
  <2>4. CASE MountBridge
    BY <1>1, <2>4 DEF MountBridge
  <2>5. CASE Rehydrate
    <3>1. PICK copy \in Registries :
          /\ loads # <<>> /\ copy = Head(loads) /\ loads' = Tail(loads)
          /\ \/ /\ entries' = entries /\ evicted' = evicted /\ pending' = pending
                /\ astray' = astray \union DOMAIN copy
             \/ /\ entries' \in Registries /\ Tracked' \subseteq Tracked \union DOMAIN copy
                /\ evicted' = evicted \union ((Tracked \union DOMAIN copy) \ Tracked')
                /\ pending' = pending \ ((Tracked \union DOMAIN copy) \ Tracked')
                /\ astray' = astray \union Overtaken(copy)
      BY <1>1, <2>5, RehydrateDoes
    <3>2. DOMAIN copy \subseteq Edit /\ Overtaken(copy) \subseteq Edit /\ Tracked \subseteq Edit
      BY <1>1, RegistryIs DEF Overtaken, Tracked
    <3>3. loads' \in Seq(Registries) /\ UNCHANGED <<stored, disk>>
      BY <1>1, <2>5, <3>1, RestOf DEF Rehydrate
    <3> QED
      BY <1>1, <3>1, <3>2, <3>3
  <2> QED
    BY <2>1, <2>2, <2>3, <2>4, <2>5
<1>4. TypeInv'
  BY <1>2, <1>3 DEF SendInv, TypeInv, DurableTyped, SessionTyped, WindowTyped, IoTyped, BookTyped
<1> QED
  BY <1>2, <1>4, SendKept

LEMMA NoRegistry == <<>> \in Registries /\ DOMAIN <<>> = {}
<1>1. DOMAIN <<>> = {} /\ <<>> \in [{} -> Entry] /\ {} \in SUBSET Edit
  OBVIOUS
<1> QED
  BY <1>1, RegistryFrom

\* A session starts, with the edits that are neither new nor done lost.
LEMMA SendReload ==
  ASSUME SendInv, Reload
  PROVE SendInv'
<1>1. pc \in [Edit -> PC]
  BY DEF SendInv, TypeInv, SessionTyped
<1>2. /\ entries' = <<>> /\ disk' = <<>> /\ loads' = <<>> /\ lock' = <<>> /\ expected' = <<>>
      /\ pending' = {} /\ evicted' = {} /\ astray' = {} /\ bridge' = "none"
      /\ outbox' = "none" /\ inFlight' = 0 /\ count' = 0 /\ firstEventId' = NoEnvelope
      /\ UNCHANGED <<durable, createdAt, commits, failures>> /\ turns' = turns + 1
      /\ pc' = [e \in Edit |-> IF pc[e] \in {"new", "done"} THEN pc[e] ELSE "lost"]
  BY DEF Reload, Turn
<1>3. pc' \in [Edit -> PC] /\ \A e \in Edit : pc'[e] = "lost" \/ (pc'[e] = pc[e] /\ pc[e] \in {"new", "done"})
  BY <1>1, <1>2 DEF PC
<1>4. /\ entries' \in Registries /\ disk' \in Seq(Transaction) /\ loads' \in Seq(Registries)
      /\ lock' \in Seq(Edit) /\ expected' \in Seq(Edit)
  BY <1>2, NoRegistry
<1>5. TypeInv'
  <2>1. TypeInv
    BY DEF SendInv
  <2>2. DurableTyped' /\ WindowTyped' /\ IoTyped'
    BY <2>1, <1>2, <1>4 DEF TypeInv, DurableTyped, WindowTyped, IoTyped
  <2>3. SessionTyped'
    BY <2>1, <1>2, <1>3, <1>4 DEF TypeInv, SessionTyped
  <2>4. BookTyped'
    BY <2>1, <1>2 DEF TypeInv, BookTyped
  <2> QED
    BY <2>2, <2>3, <2>4 DEF TypeInv
<1>6. DOMAIN lock' = {}
  BY <1>2
<1>7. LockIsFair' /\ WindowIsSenders' /\ WindowCounts'
  BY <1>2, <1>3, <1>6 DEF SendInv, LockIsFair, InLock, WindowIsSenders, WindowCounts, BeforeSend
<1> QED
  BY <1>5, <1>7 DEF SendInv

\* Where a dispatch of a board that is left goes on.
Departs(e) ==
  \/ pc'[e] = pc[e]
  \/ pc[e] = "accepting" /\ pc'[e] = "acceptingLeft"
  \/ pc[e] = "notifying" /\ pc'[e] = "notifyingLeft"
  \/ /\ pc[e] \in {"localGate", "accepting", "acceptingLeft", "outboxGate"}
     /\ pc'[e] = "lost"

\* The board is left: what waited at a gate is lost or goes on elsewhere.
LEMMA LeaveMoves ==
  ASSUME SwitchBoard \/ CloseBoard, pc \in [Edit -> PC]
  PROVE /\ pc' \in [Edit -> PC] /\ \A e \in Edit : Departs(e)
        /\ outbox' = "none" /\ pending' = {} /\ turns' = turns + 1
        /\ bridge' \in {"none", "stale"}
        /\ UNCHANGED <<durable, entries, createdAt, lock, window, io, history, commits, failures>>
<1>1. outbox' = "none" /\ pending' = {} /\ turns' = turns + 1 /\ bridge' \in {"none", "stale"}
      /\ UNCHANGED <<durable, entries, createdAt, lock, window, io, history, commits, failures>>
  BY DEF SwitchBoard, CloseBoard, LeaveBoard, Turn
<1>2. DOMAIN pc' = Edit /\ pc' = [e \in Edit |-> pc'[e]]
  BY DEF SwitchBoard, CloseBoard
<1>3. ASSUME NEW e \in Edit PROVE Departs(e)
  <2>1. CASE SwitchBoard
    <3>1. pc'[e] = CASE pc[e] = "accepting" -> "acceptingLeft"
                     [] pc[e] = "notifying" -> "notifyingLeft"
                     [] OTHER -> pc[e]
      BY <2>1 DEF SwitchBoard
    <3> QED
      BY <3>1 DEF Departs
  <2>2. CASE CloseBoard
    <3>1. pc'[e] = CASE pc[e] \in {"localGate", "accepting", "acceptingLeft", "outboxGate"} -> "lost"
                     [] pc[e] = "notifying" -> "notifyingLeft"
                     [] OTHER -> pc[e]
      BY <2>2 DEF CloseBoard
    <3> QED
      BY <3>1 DEF Departs
  <2> QED
    BY <2>1, <2>2
<1>4. \A e \in Edit : pc'[e] \in PC
  BY <1>3 DEF Departs, PC
<1>5. pc' \in [Edit -> PC]
  BY <1>2, <1>4
<1> QED
  BY <1>1, <1>3, <1>5

LEMMA SendLeaves ==
  ASSUME SendInv, SwitchBoard \/ CloseBoard
  PROVE SendInv'
<1>1. pc \in [Edit -> PC]
  BY DEF SendInv, TypeInv, SessionTyped
<1>2. TypeInv'
  BY <1>1, LeaveMoves DEF SendInv, TypeInv, DurableTyped, SessionTyped, WindowTyped, IoTyped, BookTyped
<1>3. \A e \in Edit : \/ pc'[e] = pc[e]
                      \/ /\ pc[e] \in BeforeSend \ {"lock"}
                         /\ pc'[e] \in (BeforeSend \union {"lost"}) \ {"lock"}
  BY <1>1, LeaveMoves DEF BeforeSend, Departs
<1> QED
  BY <1>1, <1>2, <1>3, LeaveMoves, SendKept

LEMMA SendInit == Init => SendInv
<1> SUFFICES ASSUME Init PROVE SendInv
  OBVIOUS
<1>1. /\ entries \in Registries /\ stored \in Registries /\ disk \in Seq(Transaction)
      /\ loads \in Seq(Registries) /\ lock \in Seq(Edit) /\ expected \in Seq(Edit)
      /\ pc \in [Edit -> PC] /\ createdAt \in [Edit -> Nat] /\ DOMAIN lock = {}
  BY NoRegistry DEF Init, PC
<1>2. TypeInv
  BY <1>1 DEF Init, TypeInv, DurableTyped, SessionTyped, WindowTyped, IoTyped, BookTyped
<1>3. LockIsFair /\ WindowIsSenders /\ WindowCounts
  BY <1>1 DEF Init, LockIsFair, InLock, WindowIsSenders, WindowCounts
<1> QED
  BY <1>2, <1>3 DEF SendInv

LEMMA SendStep ==
  ASSUME SendInv, [Next]_vars
  PROVE SendInv'
<1>1. CASE UNCHANGED vars
  <2>1. TypeInv'
    BY <1>1 DEF SendInv, TypeInv, DurableTyped, SessionTyped, WindowTyped, IoTyped, BookTyped, vars
  <2> QED
    BY <1>1, <2>1, SendKept DEF vars
<1>2. ASSUME NEW e \in Edit, Dispatch(e) \/ Advance(e) \/ Send(e) \/ Echo(e)
      PROVE SendInv'
  BY <1>2, SendGates, SendRegister, SendStarts, SendPublishes, SendEnds, SendEcho
     DEF Advance, Send, AtGate, Registers
<1>3. CASE \/ PublishCommit \/ MountBridge \/ CreateOutbox \/ StorePut \/ StoreGet \/ Rehydrate
           \/ SwitchBoard \/ CloseBoard \/ Reload
  BY <1>3, SendPublishes, SendStores, SendLeaves, SendReload
<1> QED
  BY <1>1, <1>2, <1>3 DEF Next

\* Every variable keeps its type, whatever commits, failures and reloads do.
THEOREM TypeCorrect == Spec => []TypeOK
<1>1. Spec => []SendInv
  BY SendInit, SendStep, PTL DEF Spec
<1>2. SendInv => TypeOK
  BY TypesAreOK DEF SendInv
<1> QED
  BY <1>1, <1>2, PTL

----------------------------------------------------------------------------
(* Every copy of an entry. *)

\* x is what the registry, the store, a read or a queued write holds of e.
Copy(e, x) ==
  \/ e \in Tracked /\ entries[e] = x
  \/ e \in DOMAIN stored /\ stored[e] = x
  \/ \E i \in DOMAIN loads : e \in DOMAIN loads[i] /\ loads[i][e] = x
  \/ \E i \in DOMAIN disk : disk[i] = Put(e, x)

Registered == {"lock", "sending", "done", "lost"}

\* A copy is of an edit that was registered, names no envelope but its own, and
\* is unresolved if the edit is still marked.
CopyIsRight(e, x) ==
  /\ x.sentEventId \in {e, NoEnvelope}
  /\ pc[e] \in Registered
  /\ x.status \notin Unresolved => e \notin pending

CopiesAreRight == \A e \in Edit, x \in Entry : Copy(e, x) => CopyIsRight(e, x)

MarksAreTracked ==
  \A e \in pending : pc[e] \in {"lock", "sending", "done"} => e \in Tracked

PastGate == {"outboxGate", "notifying", "notifyingLeft", "lock", "sending"}

Handled == accepted \union gaveUp \union unheard

\* An edit past the first gate has been accepted, or its write was given up, or
\* no engine of the group was asked.
PastGateIsAccepted == \A e \in Edit : pc[e] \in PastGate => e \in Handled

OutboxInv ==
  SendInv /\ CopiesAreRight /\ MarksAreTracked /\ PastGateIsAccepted /\ SentIsAccepted

\* Registered edits stay so and are not marked anew, so old copies stay right.
LEMMA CopiesKept ==
  ASSUME CopiesAreRight,
         \A d \in Edit, y \in Entry : Copy(d, y)' => Copy(d, y) \/ CopyIsRight(d, y)',
         \A d \in Edit : pc[d] \in Registered =>
           pc'[d] \in Registered /\ (d \in pending' => d \in pending)
  PROVE CopiesAreRight'
<1> SUFFICES ASSUME NEW d \in Edit, NEW y \in Entry, Copy(d, y)' PROVE CopyIsRight(d, y)'
  BY DEF CopiesAreRight
<1>1. CASE Copy(d, y)
  BY <1>1 DEF CopiesAreRight, CopyIsRight
<1> QED
  BY <1>1

\* The copies after a step that writes the entry x of e, at most, and drops some.
LEMMA CopiesFrom ==
  ASSUME TypeInv, NEW e \in Edit, NEW x \in Entry, UNCHANGED <<stored, loads>>,
         \A d \in Tracked' : \/ d = e /\ entries'[d] = x
                             \/ d \in Tracked /\ entries'[d] = entries[d],
         Persist(e, x) \/ UNCHANGED disk
  PROVE \A d \in Edit, y \in Entry : Copy(d, y)' => Copy(d, y) \/ (d = e /\ y = x)
<1> SUFFICES ASSUME NEW d \in Edit, NEW y \in Entry, Copy(d, y)', ~Copy(d, y) PROVE d = e /\ y = x
  OBVIOUS
<1>1. \/ d \in Tracked' /\ entries'[d] = y
      \/ \E i \in DOMAIN disk' : disk'[i] = Put(d, y)
  BY DEF Copy
<1>2. CASE d \in Tracked' /\ entries'[d] = y
  BY <1>2 DEF Copy
<1>3. ASSUME NEW i \in DOMAIN disk', disk'[i] = Put(d, y) PROVE d = e /\ y = x
  <2>1. disk'[i] = Put(e, x) \/ (i \in DOMAIN disk /\ disk'[i] = disk[i])
    BY PersistDoes DEF TypeInv, IoTyped
  <2>2. Put(d, y) = Put(e, x)
    BY <1>3, <2>1 DEF Copy
  <2> QED
    BY <2>2, PutIs
<1> QED
  BY <1>1, <1>2, <1>3

\* An entry that is tracked is a copy, so its attribution is right.
LEMMA TrackedIsCopy ==
  ASSUME OutboxInv, NEW e \in Edit, e \in Tracked
  PROVE entries[e] \in Entry /\ Copy(e, entries[e]) /\ CopyIsRight(e, entries[e])
<1>1. entries[e] \in Entry
  BY RegistryIs DEF OutboxInv, SendInv, TypeInv, SessionTyped, Tracked
<1> QED
  BY <1>1 DEF Copy, OutboxInv, CopiesAreRight

\* What no dispatch before its registration, and no board left, takes back.
LEMMA HandledKept ==
  ASSUME NEW e \in Edit, AtGate(e)
  PROVE Handled \subseteq Handled' /\ (pc[e] \in {"accepting", "acceptingLeft"} => e \in Handled')
<1>1. CASE Dispatch(e)
  BY <1>1 DEF Dispatch, Handled
<1>2. CASE DispatchLocal(e)
  BY <1>2 DEF DispatchLocal, Handled
<1>3. CASE AcceptLocal(e)
  BY <1>3 DEF AcceptLocal, EngineAccepts, Handled
<1>4. CASE AcceptLeft(e)
  BY <1>4 DEF AcceptLeft, Handled
<1>5. CASE Publish(e)
  BY <1>5 DEF Publish, Handled
<1>6. CASE CarriedOff(e)
  BY <1>6 DEF CarriedOff, Handled
<1> QED
  BY <1>1, <1>2, <1>3, <1>4, <1>5, <1>6 DEF AtGate

\* dispatch() up to the registration: an edit at a gate has no copy yet.
LEMMA OutboxGates ==
  ASSUME OutboxInv, NEW e \in Edit, AtGate(e)
  PROVE OutboxInv'
<1>1. SendInv' /\ pc \in [Edit -> PC] /\ pending \in SUBSET Edit
  BY SendGates DEF OutboxInv, SendInv, TypeInv, SessionTyped
<1>2. /\ UNCHANGED <<stored, entries, loads, disk, published>>
      /\ pc[e] \in {"new", "localGate", "accepting", "acceptingLeft", "outboxGate"}
      /\ \A d \in Edit : d # e => pc'[d] = pc[d]
      /\ pc'[e] \in {"localGate", "accepting", "outboxGate", "notifying", "notifyingLeft", "lost"}
  BY <1>1, GateMoves
<1>3. pending' \subseteq pending \union {e} /\ (pc'[e] = "lost" => pending' = pending)
  BY <1>1 DEF AtGate, Dispatch, DispatchLocal, AcceptLocal, AcceptLeft, Publish, CarriedOff, Await
<1>4. CopiesAreRight'
  <2>1. \A d \in Edit, y \in Entry : Copy(d, y)' => Copy(d, y)
    BY <1>2 DEF Copy, Tracked
  <2>2. \A d \in Edit : pc[d] \in Registered =>
          pc'[d] \in Registered /\ (d \in pending' => d \in pending)
    BY <1>2, <1>3 DEF Registered
  <2> QED
    BY <2>1, <2>2, CopiesKept DEF OutboxInv
<1>5. MarksAreTracked'
  BY <1>1, <1>2, <1>3 DEF OutboxInv, MarksAreTracked, Tracked
<1>6. pc'[e] \in PastGate => e \in Handled'
  <2>1. CASE Dispatch(e)
    BY <1>1, <2>1 DEF Dispatch, Await, PastGate
  <2>2. CASE DispatchLocal(e)
    BY <1>1, <2>2 DEF DispatchLocal, LocalGate, Await, PastGate, Handled, OutboxInv, SendInv, TypeInv,
       SessionTyped
  <2>3. CASE AcceptLocal(e) \/ AcceptLeft(e)
    BY <2>3, HandledKept DEF AcceptLocal, AcceptLeft, AtGate
  <2>4. CASE Publish(e)
    BY <2>4, HandledKept DEF Publish, OutboxInv, PastGateIsAccepted, AtGate, PastGate
  <2>5. CASE CarriedOff(e)
    BY <1>1, <2>5 DEF CarriedOff, Await, PastGate
  <2> QED
    BY <2>1, <2>2, <2>3, <2>4, <2>5 DEF AtGate
<1>7. PastGateIsAccepted'
  BY <1>2, <1>6, HandledKept DEF OutboxInv, PastGateIsAccepted
<1>8. SentIsAccepted'
  BY <1>2, HandledKept DEF OutboxInv, SentIsAccepted, Handled
<1> QED
  BY <1>1, <1>4, <1>5, <1>7, <1>8 DEF OutboxInv

\* What registration does to the registry.
LEMMA RegisterDoes ==
  ASSUME SendInv, NEW e \in Edit, Registers(e)
  PROVE /\ Tracked' \subseteq Tracked \union {e}
        /\ \A d \in Tracked' : \/ d = e /\ entries'[d] = NewEntry
                               \/ d # e /\ d \in Tracked /\ entries'[d] = entries[d]
        /\ evicted' = evicted \union ((Tracked \union {e}) \ Tracked')
        /\ pending' \subseteq pending \union {e}
        /\ \A d \in pending' : d \in Tracked \union {e} => d \in Tracked'
        /\ Persist(e, NewEntry)
<1> DEFINE f == With(entries, e, NewEntry)
<1>1. entries \in Registries /\ TypeInv
  BY DEF SendInv, TypeInv, SessionTyped
<1>0. PICK marks \in SUBSET Edit :
        marks \subseteq pending \union {e} /\ EnforceCap(f, marks) /\ Persist(e, NewEntry)
  BY <1>1, RegistersBy
<1>2. /\ f \in Registries /\ DOMAIN f = Tracked \union {e} /\ f[e] = NewEntry
      /\ \A d \in Tracked \ {e} : f[d] = entries[d]
  <2>1. f \in Registries
    BY <1>1, WithTyped, NewEntryIs
  <2>2. DOMAIN f = Tracked \union {e} /\ f[e] = NewEntry
    BY DEF With, Tracked
  <2>3. \A d \in Tracked \ {e} : f[d] = entries[d]
    BY DEF With, Tracked
  <2> QED
    BY <2>1, <2>2, <2>3
<1> HIDE DEF f
<1>4. /\ Tracked' \subseteq DOMAIN f /\ \A d \in Tracked' : entries'[d] = f[d]
      /\ evicted' = evicted \union (DOMAIN f \ Tracked')
      /\ pending' = marks \ (DOMAIN f \ Tracked')
  BY <1>0, <1>1, <1>2, CapTyped
<1> QED
  BY <1>0, <1>2, <1>4

LEMMA OutboxRegister ==
  ASSUME OutboxInv, NEW e \in Edit, Registers(e)
  PROVE OutboxInv'
<1>1. /\ SendInv' /\ TypeInv /\ SendInv /\ pc \in [Edit -> PC] /\ pending \in SUBSET Edit
      /\ pending' \in SUBSET Edit
  BY SendRegister DEF OutboxInv, SendInv, TypeInv, SessionTyped
<1>2. /\ \A d \in Tracked' : \/ d = e /\ entries'[d] = NewEntry
                             \/ d # e /\ d \in Tracked /\ entries'[d] = entries[d]
      /\ pending' \subseteq pending \union {e}
      /\ \A d \in pending' : d \in Tracked \union {e} => d \in Tracked'
      /\ Persist(e, NewEntry)
  BY <1>1, RegisterDoes
<1>3. /\ pc[e] \in {"notifying", "notifyingLeft"} /\ pc'[e] = "lock"
      /\ \A d \in Edit : d # e => pc'[d] = pc[d]
      /\ UNCHANGED <<stored, loads, published>>
  BY <1>1 DEF Registers, Register, RegisterLeft, Enter, Await
<1>7. Handled \subseteq Handled'
  <2>1. CASE Register(e)
    BY <2>1 DEF Register, EngineAccepts, Handled
  <2>2. CASE RegisterLeft(e)
    BY <2>2 DEF RegisterLeft, Handled
  <2> QED
    BY <2>1, <2>2 DEF Registers
<1>4. CopiesAreRight'
  <2>1. \A d \in Edit, y \in Entry : Copy(d, y)' => Copy(d, y) \/ (d = e /\ y = NewEntry)
    BY <1>1, <1>2, <1>3, NewEntryIs, CopiesFrom
  <2>2. CopyIsRight(e, NewEntry)'
    BY <1>3, NewEntryIs DEF CopyIsRight, Registered, Unresolved
  <2>3. \A d \in Edit : pc[d] \in Registered =>
          pc'[d] \in Registered /\ (d \in pending' => d \in pending)
    BY <1>2, <1>3 DEF Registered
  <2> QED
    BY <2>1, <2>2, <2>3, CopiesKept DEF OutboxInv
<1>5. MarksAreTracked'
  BY <1>1, <1>2, <1>3 DEF OutboxInv, MarksAreTracked
<1>6. PastGateIsAccepted' /\ SentIsAccepted'
  <2>1. \A d \in Edit : pc'[d] \in PastGate => pc[d] \in PastGate
    BY <1>3 DEF PastGate
  <2>2. PastGateIsAccepted'
    BY <1>7, <2>1 DEF OutboxInv, PastGateIsAccepted
  <2>3. SentIsAccepted'
    BY <1>3, <1>7 DEF OutboxInv, SentIsAccepted, Handled
  <2> QED
    BY <2>2, <2>3
<1> QED
  BY <1>1, <1>4, <1>5, <1>6 DEF OutboxInv

LEMMA OutboxStarts ==
  ASSUME OutboxInv, NEW e \in Edit, StartAttempt(e)
  PROVE OutboxInv'
<1>1. SendInv' /\ TypeInv /\ pc \in [Edit -> PC] /\ pending \in SUBSET Edit
  BY SendStarts DEF OutboxInv, SendInv, TypeInv, SessionTyped
<1>2. /\ UNCHANGED <<stored, loads, published, accepted, gaveUp, unheard, entries, pending>>
      /\ pc[e] = "lock" /\ pc'[e] = "sending" /\ \A d \in Edit : d # e => pc'[d] = pc[d]
      /\ IF e \in Tracked THEN Persist(e, entries[e]) ELSE UNCHANGED <<disk, astray>>
  BY <1>1 DEF StartAttempt, Await
<1>3. \A d \in Tracked' : d \in Tracked /\ entries'[d] = entries[d]
  BY <1>2 DEF Tracked
<1>4. \A d \in Edit, y \in Entry : Copy(d, y)' => Copy(d, y)
  <2>1. CASE e \in Tracked
    <3>1. entries[e] \in Entry /\ Copy(e, entries[e])
      BY <2>1, TrackedIsCopy
    <3>2. Persist(e, entries[e])
      BY <1>2, <2>1
    <3> QED
      BY <1>1, <1>2, <1>3, <3>1, <3>2, CopiesFrom
  <2>2. CASE e \notin Tracked
    BY <1>2, <2>2 DEF Copy, Tracked
  <2> QED
    BY <2>1, <2>2
<1>5. CopiesAreRight'
  <2>1. \A d \in Edit : pc[d] \in Registered =>
          pc'[d] \in Registered /\ (d \in pending' => d \in pending)
    BY <1>2 DEF Registered
  <2> QED
    BY <1>4, <2>1, CopiesKept DEF OutboxInv
<1>6. MarksAreTracked'
  BY <1>1, <1>2 DEF OutboxInv, MarksAreTracked, Tracked
<1>7. PastGateIsAccepted' /\ SentIsAccepted'
  BY <1>2 DEF OutboxInv, PastGateIsAccepted, PastGate, Handled, SentIsAccepted
<1> QED
  BY <1>1, <1>5, <1>6, <1>7 DEF OutboxInv

\* An envelope on the network is of the edit that sends, which has been accepted.
LEMMA OutboxPublishes ==
  ASSUME OutboxInv, PublishCommit \/ \E e \in Edit : NetworkPublish(e)
  PROVE OutboxInv'
<1>1. SendInv' /\ UNCHANGED <<stored, loads, disk, accepted, gaveUp, unheard, session>>
  BY SendPublishes DEF OutboxInv, PublishCommit, NetworkPublish
<1>2. CopiesAreRight' /\ MarksAreTracked' /\ PastGateIsAccepted'
  BY <1>1 DEF OutboxInv, CopiesAreRight, CopyIsRight, Copy, Tracked, MarksAreTracked,
     PastGateIsAccepted, PastGate, Handled
<1>3. SentIsAccepted'
  BY <1>1 DEF OutboxInv, SentIsAccepted, PastGateIsAccepted, PastGate, Handled, PublishCommit,
     NetworkPublish
<1> QED
  BY <1>1, <1>2, <1>3 DEF OutboxInv

LEMMA OutboxEnds ==
  ASSUME OutboxInv, NEW e \in Edit, SendResolves(e) \/ SendThrows(e)
  PROVE OutboxInv'
<1>1. SendInv' /\ SendInv /\ TypeInv /\ pc \in [Edit -> PC] /\ pending \in SUBSET Edit
  BY SendEnds DEF OutboxInv, SendInv, TypeInv, SessionTyped
<1>2. Settles(e)
  BY <1>1, ResolvesOwn, ThrowsOwn
<1>3. /\ UNCHANGED <<stored, loads, published, accepted, gaveUp, unheard>>
      /\ pc[e] = "sending" /\ pc'[e] = "done" /\ \A d \in Edit : d # e => pc'[d] = pc[d]
  BY <1>1 DEF SendResolves, SendThrows, Settle, Await
<1>4. Tracked' = Tracked /\ entries' \in Registries /\ pending' \subseteq pending
  BY <1>2 DEF Settles, Tracked
<1>5. \A d \in Edit : pc[d] \in Registered =>
        pc'[d] \in Registered /\ (d \in pending' => d \in pending)
  BY <1>3, <1>4 DEF Registered
<1>6. CopiesAreRight'
  <2>1. CASE e \in Tracked
    <3>1. /\ Persist(e, entries'[e]) /\ entries'[e].sentEventId \in {e, entries[e].sentEventId}
          /\ \A d \in Tracked \ {e} : entries'[d] = entries[d]
          /\ \/ /\ pending' = pending
                /\ entries'[e].status = entries[e].status \/ entries'[e].status = "sent"
             \/ pending' = pending \ {e}
      BY <1>2, <2>1 DEF Settles, Tracked
    <3>2. PICK x \in Entry : x = entries'[e]
      BY <1>4, <2>1, RegistryIs DEF Tracked
    <3>3. CopyIsRight(e, entries[e])
      BY <2>1, TrackedIsCopy
    <3>4. CopyIsRight(e, x)'
      BY <1>3, <3>1, <3>2, <3>3 DEF CopyIsRight, Registered, Unresolved
    <3>5. \A d \in Edit, y \in Entry : Copy(d, y)' => Copy(d, y) \/ (d = e /\ y = x)
      BY <1>1, <1>3, <1>4, <3>1, <3>2, CopiesFrom
    <3> QED
      BY <1>5, <3>4, <3>5, CopiesKept DEF OutboxInv
  <2>2. CASE e \notin Tracked
    <3>1. UNCHANGED <<disk, stored, loads>> /\ \A d \in Tracked' : entries'[d] = entries[d]
      BY <1>2, <1>3, <1>4, <2>2 DEF Settles, Tracked
    <3>2. \A d \in Edit, y \in Entry : Copy(d, y)' => Copy(d, y)
      BY <1>4, <3>1 DEF Copy
    <3> QED
      BY <1>5, <3>2, CopiesKept DEF OutboxInv
  <2> QED
    BY <2>1, <2>2
<1>7. MarksAreTracked'
  BY <1>1, <1>3, <1>4 DEF OutboxInv, MarksAreTracked
<1>8. PastGateIsAccepted' /\ SentIsAccepted'
  BY <1>3 DEF OutboxInv, PastGateIsAccepted, PastGate, Handled, SentIsAccepted
<1> QED
  BY <1>1, <1>6, <1>7, <1>8 DEF OutboxInv

LEMMA OutboxEcho ==
  ASSUME OutboxInv, NEW v \in Edit, Echo(v)
  PROVE OutboxInv'
<1>1. /\ SendInv' /\ TypeInv /\ pending \in SUBSET Edit
      /\ UNCHANGED <<stored, loads, published, accepted, gaveUp, unheard, pc>>
  BY SendEcho DEF OutboxInv, SendInv, TypeInv, SessionTyped, Echo
<1>2. PastGateIsAccepted' /\ SentIsAccepted'
  BY <1>1 DEF OutboxInv, PastGateIsAccepted, PastGate, Handled, SentIsAccepted
<1>4. ASSUME NEW d \in Tracked, NEW x \in Entry, x.sentEventId = entries[d].sentEventId,
             Persist(d, x), pending' = pending \ {d}, Tracked' = Tracked \ {d},
             \A c \in Tracked' : entries'[c] = entries[c]
      PROVE OutboxInv'
  <2>1. d \in Edit
    BY <1>1, RegistryIs DEF TypeInv, SessionTyped, Tracked
  <2>2. \A c \in Edit, y \in Entry : Copy(c, y)' => Copy(c, y) \/ (c = d /\ y = x)
    BY <1>1, <1>4, <2>1, CopiesFrom
  <2>3. CopyIsRight(d, x)'
    <3>1. CopyIsRight(d, entries[d])
      BY <2>1, TrackedIsCopy
    <3> QED
      BY <1>1, <1>4, <3>1 DEF CopyIsRight
  <2>4. CopiesAreRight'
    BY <1>1, <1>4, <2>2, <2>3, CopiesKept DEF OutboxInv
  <2>5. MarksAreTracked'
    BY <1>1, <1>4 DEF OutboxInv, MarksAreTracked
  <2> QED
    BY <1>1, <1>2, <2>4, <2>5 DEF OutboxInv
<1> QED
  BY <1>1, <1>4, EchoDoes

\* Writes, reads and new outboxes pass copies on.
LEMMA OutboxStores ==
  ASSUME OutboxInv, StorePut \/ StoreGet \/ CreateOutbox \/ MountBridge
  PROVE OutboxInv'
<1>1. /\ SendInv' /\ TypeInv /\ disk \in Seq(Transaction) /\ loads \in Seq(Registries)
      /\ stored \in Registries
  BY SendStores DEF OutboxInv, SendInv, TypeInv, IoTyped, DurableTyped
<1>2. UNCHANGED <<entries, pending, pc, published, accepted, gaveUp, unheard>>
  BY DEF StorePut, StoreGet, CreateOutbox, MountBridge
<1>3. \A d \in Edit, y \in Entry : Copy(d, y)' => Copy(d, y)
  <2> SUFFICES ASSUME NEW d \in Edit, NEW y \in Entry, Copy(d, y)' PROVE Copy(d, y)
    OBVIOUS
  <2>1. CASE StorePut
    <3>1. PICK e \in Edit, x \in Entry :
            /\ disk # <<>> /\ Head(disk) = Put(e, x)
            /\ \/ stored' = stored
               \/ \A c \in DOMAIN stored' :
                    IF c = e THEN stored'[c] = x ELSE c \in DOMAIN stored /\ stored'[c] = stored[c]
      BY <1>1, <2>1, StorePutDoes
    <3>2. disk' = Tail(disk) /\ loads' = loads
      BY <2>1 DEF StorePut
    <3>3. /\ 1 \in DOMAIN disk /\ disk[1] = Put(e, x)
          /\ \A i \in DOMAIN disk' : i + 1 \in DOMAIN disk /\ disk'[i] = disk[i + 1]
      BY <1>1, <3>1, <3>2, RestOf
    <3> QED
      BY <1>2, <3>1, <3>2, <3>3 DEF Copy, Tracked
  <2>2. CASE StoreGet
    <3>1. disk # <<>> /\ disk' = Tail(disk) /\ loads' = Append(loads, stored) /\ stored' = stored
      BY <2>2 DEF StoreGet
    <3>2. \A i \in DOMAIN disk' : i + 1 \in DOMAIN disk /\ disk'[i] = disk[i + 1]
      BY <1>1, <3>1, RestOf
    <3>3. \A i \in DOMAIN loads' : (i \in DOMAIN loads /\ loads'[i] = loads[i]) \/ loads'[i] = stored
      BY <1>1, <3>1, AppendProperties, LenProperties
    <3> QED
      BY <1>2, <3>1, <3>2, <3>3 DEF Copy, Tracked
  <2>3. CASE CreateOutbox
    <3>1. disk' = Append(disk, Get) /\ loads' = loads /\ stored' = stored
      BY <2>3 DEF CreateOutbox
    <3>2. \A i \in DOMAIN disk' : (i \in DOMAIN disk /\ disk'[i] = disk[i]) \/ disk'[i] = Get
      BY <1>1, <3>1, PutIs, AppendProperties, LenProperties DEF Transaction
    <3>3. Put(d, y) # Get
      BY PutIs
    <3> QED
      BY <1>2, <3>1, <3>2, <3>3 DEF Copy, Tracked
  <2>4. CASE MountBridge
    BY <2>4 DEF MountBridge, Copy, Tracked
  <2> QED
    BY <2>1, <2>2, <2>3, <2>4
<1>4. CopiesAreRight'
  BY <1>2, <1>3, CopiesKept DEF OutboxInv
<1>5. MarksAreTracked' /\ PastGateIsAccepted' /\ SentIsAccepted'
  BY <1>2 DEF OutboxInv, MarksAreTracked, Tracked, PastGateIsAccepted, PastGate, Handled,
     SentIsAccepted
<1> QED
  BY <1>1, <1>4, <1>5 DEF OutboxInv

\* What is read back was a copy; an entry the cap drops loses its mark.
LEMMA OutboxRehydrates ==
  ASSUME OutboxInv, Rehydrate
  PROVE OutboxInv'
<1>1. /\ SendInv' /\ TypeInv /\ loads \in Seq(Registries) /\ pending \in SUBSET Edit
      /\ UNCHANGED <<stored, disk, pc, published, accepted, gaveUp, unheard>>
  BY SendStores DEF OutboxInv, SendInv, TypeInv, IoTyped, SessionTyped, Rehydrate
<1>2. PICK copy \in Registries :
        /\ loads # <<>> /\ copy = Head(loads) /\ loads' = Tail(loads)
        /\ \/ entries' = entries /\ pending' = pending
           \/ /\ Tracked' \subseteq Tracked \union DOMAIN copy
              /\ \A e \in Tracked' :
                   entries'[e] = IF e \in DOMAIN copy THEN copy[e] ELSE entries[e]
              /\ pending' = pending \ ((Tracked \union DOMAIN copy) \ Tracked')
  BY <1>1, RehydrateDoes
<1>3. /\ 1 \in DOMAIN loads /\ loads[1] = copy
      /\ \A i \in DOMAIN loads' : i + 1 \in DOMAIN loads /\ loads'[i] = loads[i + 1]
  BY <1>1, <1>2, RestOf
<1>4. \A d \in Edit, y \in Entry : Copy(d, y)' => Copy(d, y)
  <2> SUFFICES ASSUME NEW d \in Edit, NEW y \in Entry, Copy(d, y)' PROVE Copy(d, y)
    OBVIOUS
  <2>1. \/ d \in Tracked' /\ entries'[d] = y
        \/ d \in DOMAIN stored /\ stored[d] = y
        \/ \E i \in DOMAIN loads' : d \in DOMAIN loads'[i] /\ loads'[i][d] = y
        \/ \E i \in DOMAIN disk : disk[i] = Put(d, y)
    BY <1>1 DEF Copy
  <2>2. CASE d \in Tracked' /\ entries'[d] = y
    BY <1>2, <1>3, <2>2 DEF Copy, Tracked
  <2>3. CASE \E i \in DOMAIN loads' : d \in DOMAIN loads'[i] /\ loads'[i][d] = y
    BY <1>3, <2>3 DEF Copy
  <2> QED
    BY <2>1, <2>2, <2>3 DEF Copy
<1>5. CopiesAreRight'
  BY <1>1, <1>2, <1>4, CopiesKept DEF OutboxInv
<1>6. MarksAreTracked'
  BY <1>1, <1>2 DEF OutboxInv, MarksAreTracked, Tracked
<1>7. PastGateIsAccepted' /\ SentIsAccepted'
  BY <1>1 DEF OutboxInv, PastGateIsAccepted, PastGate, Handled, SentIsAccepted
<1> QED
  BY <1>1, <1>5, <1>6, <1>7 DEF OutboxInv

LEMMA OutboxReload ==
  ASSUME OutboxInv, Reload
  PROVE OutboxInv'
<1>1. /\ SendInv' /\ pc \in [Edit -> PC]
      /\ entries' = <<>> /\ pending' = {} /\ loads' = <<>> /\ disk' = <<>>
      /\ UNCHANGED <<stored, published, accepted, gaveUp, unheard>>
  BY SendReload DEF OutboxInv, SendInv, TypeInv, SessionTyped, Reload
<1>2. \A e \in Edit : pc'[e] = "lost" \/ (pc'[e] = pc[e] /\ pc[e] \in {"new", "done"})
  BY <1>1 DEF Reload
<1>3. DOMAIN entries' = {} /\ DOMAIN loads' = {} /\ DOMAIN disk' = {}
  BY <1>1
<1>4. \A d \in Edit, y \in Entry : Copy(d, y)' => Copy(d, y)
  BY <1>1, <1>3 DEF Copy, Tracked
<1>5. CopiesAreRight'
  BY <1>1, <1>2, <1>4, CopiesKept DEF OutboxInv, Registered
<1>6. MarksAreTracked' /\ PastGateIsAccepted' /\ SentIsAccepted'
  BY <1>1, <1>2 DEF OutboxInv, MarksAreTracked, PastGateIsAccepted, PastGate, Handled, SentIsAccepted
<1> QED
  BY <1>1, <1>5, <1>6 DEF OutboxInv

\* A board is left: no copy is touched, and no mark is kept.
LEMMA OutboxLeaves ==
  ASSUME OutboxInv, SwitchBoard \/ CloseBoard
  PROVE OutboxInv'
<1>1. SendInv' /\ pc \in [Edit -> PC]
  BY SendLeaves DEF OutboxInv, SendInv, TypeInv, SessionTyped
<1>2. pending' = {} /\ UNCHANGED <<stored, published, accepted, gaveUp, unheard, entries, loads, disk>>
  BY <1>1, LeaveMoves
<1>3. /\ \A e \in Edit : pc[e] \in Registered => pc'[e] \in Registered
      /\ \A e \in Edit : pc'[e] \in PastGate => pc[e] \in PastGate
  <2>1. \A e \in Edit : Departs(e)
    BY <1>1, LeaveMoves
  <2> QED
    BY <2>1 DEF Departs, Registered, PastGate
<1>4. \A d \in Edit, y \in Entry : Copy(d, y)' => Copy(d, y)
  BY <1>2 DEF Copy, Tracked
<1>5. CopiesAreRight'
  BY <1>2, <1>3, <1>4, CopiesKept DEF OutboxInv
<1>6. MarksAreTracked' /\ PastGateIsAccepted' /\ SentIsAccepted'
  BY <1>2, <1>3 DEF OutboxInv, MarksAreTracked, PastGateIsAccepted, Handled, SentIsAccepted
<1> QED
  BY <1>1, <1>5, <1>6 DEF OutboxInv

LEMMA OutboxInit == Init => OutboxInv
<1> SUFFICES ASSUME Init PROVE OutboxInv
  OBVIOUS
<1>1. DOMAIN entries = {} /\ DOMAIN stored = {} /\ DOMAIN loads = {} /\ DOMAIN disk = {}
  BY DEF Init
<1>2. CopiesAreRight
  BY <1>1 DEF CopiesAreRight, Copy, Tracked
<1>3. MarksAreTracked /\ PastGateIsAccepted /\ SentIsAccepted
  BY DEF Init, MarksAreTracked, PastGateIsAccepted, PastGate, SentIsAccepted
<1> QED
  BY <1>2, <1>3, SendInit DEF OutboxInv

LEMMA OutboxStep ==
  ASSUME OutboxInv, [Next]_vars
  PROVE OutboxInv'
<1>1. CASE UNCHANGED vars
  <2>1. SendInv'
    BY <1>1, SendStep DEF OutboxInv
  <2>2. CopiesAreRight' /\ MarksAreTracked' /\ PastGateIsAccepted' /\ SentIsAccepted'
    BY <1>1 DEF OutboxInv, CopiesAreRight, CopyIsRight, Copy, Tracked, MarksAreTracked,
       PastGateIsAccepted, Handled, SentIsAccepted, vars
  <2> QED
    BY <2>1, <2>2 DEF OutboxInv
<1>2. ASSUME NEW e \in Edit, Dispatch(e) \/ Advance(e) \/ Send(e) \/ Echo(e)
      PROVE OutboxInv'
  BY <1>2, OutboxGates, OutboxRegister, OutboxStarts, OutboxPublishes, OutboxEnds, OutboxEcho
     DEF Advance, Send, AtGate, Registers
<1>3. CASE \/ PublishCommit \/ MountBridge \/ CreateOutbox \/ StorePut \/ StoreGet \/ Rehydrate
           \/ SwitchBoard \/ CloseBoard \/ Reload
  BY <1>3, OutboxPublishes, OutboxStores, OutboxRehydrates, OutboxLeaves, OutboxReload
<1> QED
  BY <1>1, <1>2, <1>3 DEF Next

LEMMA OutboxAlways == Spec => []OutboxInv
BY OutboxInit, OutboxStep, PTL DEF Spec

\* An envelope on the network is in the accepted log, or that write was given up
\* and reported, or the board was no longer the group's when dispatchLocal ran,
\* however the two readiness gates open and whichever board they were armed for.
THEOREM AcceptedBeforeSent == Spec => []SentIsAccepted
<1>1. OutboxInv => SentIsAccepted
  BY DEF OutboxInv
<1> QED
  BY <1>1, OutboxAlways, PTL

\* No entry, in memory, in the store or on its way between them, ever names an
\* envelope that another edit, or a commit, was published in.
THEOREM AttributesItsOwn == Spec => []AttributionIsRight
<1>1. ASSUME OutboxInv PROVE AttributionIsRight
  <2>1. /\ entries \in Registries /\ stored \in Registries
        /\ \A i \in DOMAIN loads : loads[i] \in Registries
    BY <1>1, LenProperties DEF OutboxInv, SendInv, TypeInv, SessionTyped, DurableTyped, IoTyped
  <2>2. \A e \in DOMAIN entries : entries[e].sentEventId \in {e, NoEnvelope}
    BY <1>1, <2>1, RegistryIs DEF OutboxInv, CopiesAreRight, CopyIsRight, Copy, Tracked
  <2>3. \A e \in DOMAIN stored : stored[e].sentEventId \in {e, NoEnvelope}
    BY <1>1, <2>1, RegistryIs DEF OutboxInv, CopiesAreRight, CopyIsRight, Copy
  <2>4. \A i \in DOMAIN loads : \A e \in DOMAIN loads[i] : loads[i][e].sentEventId \in {e, NoEnvelope}
    <3> SUFFICES ASSUME NEW i \in DOMAIN loads, NEW e \in DOMAIN loads[i]
                 PROVE loads[i][e].sentEventId \in {e, NoEnvelope}
      OBVIOUS
    <3>1. e \in Edit /\ loads[i][e] \in Entry
      BY <2>1, RegistryIs
    <3>2. Copy(e, loads[i][e])
      BY DEF Copy
    <3> QED
      BY <1>1, <3>1, <3>2 DEF OutboxInv, CopiesAreRight, CopyIsRight
  <2> QED
    BY <2>2, <2>3, <2>4 DEF AttributionIsRight
<1> QED
  BY <1>1, OutboxAlways, PTL

\* A mark that outlives its dispatch has an entry that an echo can resolve.
THEOREM MarksCanClear == Spec => []PendingIsTracked
<1>1. ASSUME OutboxInv PROVE PendingIsTracked
  <2> SUFFICES ASSUME NEW e \in pending, pc[e] = "done"
               PROVE e \in Tracked /\ entries[e].status \in {"pending", "sent"}
    BY DEF PendingIsTracked
  <2>1. e \in Tracked /\ e \in Edit
    BY <1>1 DEF OutboxInv, MarksAreTracked, SendInv, TypeInv, SessionTyped
  <2>2. CopyIsRight(e, entries[e])
    BY <1>1, <2>1, TrackedIsCopy
  <2> QED
    BY <2>1, <2>2 DEF CopyIsRight, Unresolved
<1> QED
  BY <1>1, OutboxAlways, PTL

----------------------------------------------------------------------------
(* The registry and the store. *)

NoPut(e) == \A i \in DOMAIN disk : ~PutOf(i, e)

\* x is what the store will hold of e once the transactions issued have run.
WillStore(e, x) ==
  \/ NoPut(e) /\ e \in DOMAIN stored /\ stored[e] = x
  \/ \E i \in DOMAIN disk : disk[i] = Put(e, x) /\ \A j \in DOMAIN disk : j > i => ~PutOf(j, e)

ReadQueued == \E i \in DOMAIN disk : disk[i] = Get

\* The store is still to be read, or a read of it that found e is on its way.
Unread(e) ==
  outbox = "none" \/ ReadQueued \/ \E i \in DOMAIN loads : e \in DOMAIN loads[i]

TrackedIsStored ==
  \A e \in Tracked \ astray, x \in Entry : WillStore(e, x) => x = entries[e]

StoredIsTracked ==
  \A e \in Edit \ (Tracked \union evicted \union astray), x \in Entry :
    WillStore(e, x) /\ x.status \in Unresolved => NoPut(e) /\ Unread(e)

StoreInv == OutboxInv /\ TrackedIsStored /\ StoredIsTracked

\* What a write, added or replaced, does to what the store will hold.
LEMMA PersistStores ==
  ASSUME TypeInv, NEW e \in Edit, NEW x \in Entry, Persist(e, x), Hooked, UNCHANGED stored
  PROVE /\ \A d \in Edit, y \in Entry : WillStore(d, y)' => IF d = e THEN y = x ELSE WillStore(d, y)
        /\ \A d \in Edit : d # e /\ NoPut(d) => NoPut(d)'
        /\ ReadQueued' <=> ReadQueued
<1>1. disk \in Seq(Transaction)
  BY DEF TypeInv, IoTyped
<1>2. /\ DOMAIN disk \subseteq DOMAIN disk'
      /\ \A i \in DOMAIN disk' : disk'[i] = Put(e, x) \/ (i \in DOMAIN disk /\ disk'[i] = disk[i])
      /\ \A i \in DOMAIN disk : disk'[i] = disk[i] \/ (PutOf(i, e) /\ disk'[i] = Put(e, x))
      /\ \E i \in DOMAIN disk' : disk'[i] = Put(e, x)
      /\ \A i \in DOMAIN disk' :
           PutOf(i, e)' /\ (\A j \in DOMAIN disk' : j > i => ~PutOf(j, e)') => disk'[i] = Put(e, x)
  BY <1>1, HookedPersists
<1>3. Put(e, x).op = "put" /\ Put(e, x).edit = e /\ Put(e, x).entry = x /\ Put(e, x) # Get
  BY PutIs
<1>4. ~NoPut(e)'
  BY <1>2, <1>3 DEF NoPut, PutOf
<1>5. \A y \in Entry : WillStore(e, y)' => y = x
  <2> SUFFICES ASSUME NEW y \in Entry, WillStore(e, y)' PROVE y = x
    OBVIOUS
  <2>1. PICK i \in DOMAIN disk' :
          disk'[i] = Put(e, y) /\ \A j \in DOMAIN disk' : j > i => ~PutOf(j, e)'
    BY <1>4 DEF WillStore
  <2>2. PutOf(i, e)'
    BY <2>1, PutIs DEF PutOf
  <2>3. Put(e, y) = Put(e, x)
    BY <1>2, <2>1, <2>2
  <2> QED
    BY <2>3, PutIs
<1>6. ASSUME NEW d \in Edit, d # e
      PROVE /\ \A i \in DOMAIN disk : PutOf(i, d) => PutOf(i, d)' /\ disk'[i] = disk[i]
            /\ \A i \in DOMAIN disk' : PutOf(i, d)' => i \in DOMAIN disk /\ PutOf(i, d) /\ disk'[i] = disk[i]
            /\ NoPut(d)' <=> NoPut(d)
  <2>1. \A i \in DOMAIN disk : PutOf(i, d) => PutOf(i, d)' /\ disk'[i] = disk[i]
    BY <1>2, <1>6 DEF PutOf
  <2>2. \A i \in DOMAIN disk' : PutOf(i, d)' => i \in DOMAIN disk /\ PutOf(i, d) /\ disk'[i] = disk[i]
    BY <1>2, <1>3, <1>6 DEF PutOf
  <2> QED
    BY <1>2, <2>1, <2>2 DEF NoPut
<1>7. ASSUME NEW d \in Edit, d # e, NEW y \in Entry, WillStore(d, y)' PROVE WillStore(d, y)
  <2>1. CASE NoPut(d)'
    <3>1. ~ \E i \in DOMAIN disk' : disk'[i] = Put(d, y)
      BY <2>1, PutIs DEF NoPut, PutOf
    <3> QED
      BY <1>6, <1>7, <2>1, <3>1 DEF WillStore
  <2>2. CASE ~NoPut(d)'
    <3>1. PICK i \in DOMAIN disk' :
            disk'[i] = Put(d, y) /\ \A j \in DOMAIN disk' : j > i => ~PutOf(j, d)'
      BY <1>7, <2>2 DEF WillStore
    <3>2. PutOf(i, d)'
      BY <3>1, PutIs DEF PutOf
    <3>3. i \in DOMAIN disk /\ disk[i] = Put(d, y)
      BY <1>6, <1>7, <3>1, <3>2
    <3>4. \A j \in DOMAIN disk : j > i => ~PutOf(j, d)
      BY <1>2, <1>6, <1>7, <3>1
    <3> QED
      BY <3>3, <3>4 DEF WillStore
  <2> QED
    BY <2>1, <2>2
<1>8. ReadQueued' <=> ReadQueued
  BY <1>2, <1>3, GetIsNoPut DEF ReadQueued, PutOf
<1> QED
  BY <1>5, <1>6, <1>7, <1>8

\* The first transaction is taken off: what the store will hold of the others' entries.
LEMMA TailStores ==
  ASSUME TypeInv, disk # <<>>, disk' = Tail(disk), NEW d \in Edit, ~PutOf(1, d),
         d \in DOMAIN stored' => d \in DOMAIN stored /\ stored'[d] = stored[d]
  PROVE /\ \A y \in Entry : WillStore(d, y)' => WillStore(d, y)
        /\ NoPut(d) => NoPut(d)'
<1>1. /\ DOMAIN disk = 1..Len(disk) /\ Len(disk) \in Nat \ {0}
      /\ DOMAIN disk' = 1..(Len(disk) - 1)
      /\ \A i \in DOMAIN disk' : i + 1 \in DOMAIN disk /\ disk'[i] = disk[i + 1]
  BY RestOf DEF TypeInv, IoTyped
<1>2. \A i \in DOMAIN disk' : PutOf(i, d)' <=> PutOf(i + 1, d)
  BY <1>1 DEF PutOf
<1>3. \A j \in DOMAIN disk : PutOf(j, d) => \E i \in DOMAIN disk' : j = i + 1
  <2> SUFFICES ASSUME NEW j \in DOMAIN disk, PutOf(j, d) PROVE \E i \in DOMAIN disk' : j = i + 1
    OBVIOUS
  <2>1. j \in 1..Len(disk) /\ j # 1
    BY <1>1
  <2>2. j - 1 \in DOMAIN disk' /\ j = (j - 1) + 1
    BY <1>1, <2>1
  <2> QED
    BY <2>2
<1>4. NoPut(d)' <=> NoPut(d)
  BY <1>1, <1>2, <1>3 DEF NoPut
<1>5. ASSUME NEW y \in Entry, WillStore(d, y)' PROVE WillStore(d, y)
  <2>1. CASE NoPut(d)'
    <3>1. ~ \E i \in DOMAIN disk' : disk'[i] = Put(d, y)
      BY <2>1, PutIs DEF NoPut, PutOf
    <3> QED
      BY <1>4, <1>5, <2>1, <3>1 DEF WillStore
  <2>2. CASE ~NoPut(d)'
    <3>1. PICK i \in DOMAIN disk' :
            disk'[i] = Put(d, y) /\ \A j \in DOMAIN disk' : j > i => ~PutOf(j, d)'
      BY <1>5, <2>2 DEF WillStore
    <3>2. i + 1 \in DOMAIN disk /\ disk[i + 1] = Put(d, y)
      BY <1>1, <3>1
    <3>3. ASSUME NEW j \in DOMAIN disk, j > i + 1 PROVE ~PutOf(j, d)
      <4>1. SUFFICES ASSUME PutOf(j, d) PROVE FALSE
        OBVIOUS
      <4>2. PICK k \in DOMAIN disk' : j = k + 1
        BY <1>3, <4>1
      <4>3. k > i
        BY <1>1, <3>3, <4>2
      <4> QED
        BY <1>2, <3>1, <4>1, <4>2, <4>3
    <3> QED
      BY <3>2, <3>3 DEF WillStore
  <2> QED
    BY <2>1, <2>2
<1> QED
  BY <1>4, <1>5

\* No transaction issued or run: what the store will hold stays.
LEMMA StoreStays ==
  ASSUME UNCHANGED <<disk, stored>>
  PROVE /\ \A d \in Edit, y \in Entry : WillStore(d, y)' => WillStore(d, y)
        /\ \A d \in Edit : NoPut(d) => NoPut(d)'
        /\ ReadQueued' <=> ReadQueued
BY DEF WillStore, NoPut, PutOf, ReadQueued

\* A step that leaves the store, its transactions and the registry alone.
LEMMA StoreSame ==
  ASSUME StoreInv, OutboxInv', UNCHANGED <<stored, disk, loads, astray, evicted>>,
         outbox' \in {outbox, "none"},
         Tracked' = Tracked, \A d \in Tracked : entries'[d] = entries[d]
  PROVE StoreInv'
<1>1. TrackedIsStored'
  BY StoreStays DEF StoreInv, TrackedIsStored, OutboxInv, SendInv, TypeInv, SessionTyped, Tracked,
     Registries
<1>2. StoredIsTracked'
  BY StoreStays DEF StoreInv, StoredIsTracked, Unread
<1> QED
  BY <1>1, <1>2 DEF StoreInv

\* A step that writes the entry x of e, as it leaves it in the registry or resolved.
LEMMA StoreWrites ==
  ASSUME StoreInv, OutboxInv', UNCHANGED <<outbox, stored, loads>>,
         NEW e \in Edit, NEW x \in Entry, Persist(e, x),
         Tracked' \subseteq Tracked \union {e}, \A d \in Tracked' \ {e} : entries'[d] = entries[d],
         Tracked \ Tracked' \subseteq evicted' \union {e}, evicted \subseteq evicted',
         e \in Tracked' => entries'[e] = x,
         e \notin Tracked' \union evicted' => x.status \notin Unresolved
  PROVE StoreInv'
<1>0. disk \in Seq(Transaction) /\ TypeInv
  BY DEF StoreInv, OutboxInv, SendInv, TypeInv, IoTyped
<1>6. astray \subseteq astray' /\ (~Hooked => disk' = disk /\ e \in astray')
  BY <1>0, PersistDoes
<1>1. /\ \A d \in Edit, y \in Entry : WillStore(d, y)' =>
           IF d = e THEN y = x \/ e \in astray' ELSE WillStore(d, y)
      /\ \A d \in Edit : d # e /\ NoPut(d) => NoPut(d)'
      /\ ReadQueued' <=> ReadQueued
  <2>1. CASE Hooked
    BY <1>0, <2>1, PersistStores
  <2>2. CASE ~Hooked
    BY <1>6, <2>2, StoreStays
  <2> QED
    BY <2>1, <2>2
<1>2. Tracked' \subseteq Edit
  BY RegistryIs DEF OutboxInv, SendInv, TypeInv, SessionTyped, Tracked
<1>3. TrackedIsStored'
  <2> SUFFICES ASSUME NEW d \in Tracked', d \notin astray', NEW y \in Entry, WillStore(d, y)'
               PROVE y = entries'[d]
    BY DEF TrackedIsStored
  <2>1. CASE d = e
    BY <1>1, <1>2, <2>1
  <2>2. CASE d # e
    BY <1>1, <1>2, <1>6, <2>2 DEF StoreInv, TrackedIsStored
  <2> QED
    BY <2>1, <2>2
<1>4. StoredIsTracked'
  <2> SUFFICES ASSUME NEW d \in Edit, d \notin Tracked', d \notin evicted', d \notin astray',
                      NEW y \in Entry, WillStore(d, y)', y.status \in Unresolved
               PROVE NoPut(d)' /\ Unread(d)'
    BY DEF StoredIsTracked
  <2>1. d # e
    BY <1>1
  <2>2. WillStore(d, y) /\ d \notin Tracked /\ d \notin evicted /\ d \notin astray
    BY <1>1, <1>6, <2>1
  <2>3. NoPut(d) /\ Unread(d)
    BY <2>2 DEF StoreInv, StoredIsTracked
  <2> QED
    BY <1>1, <2>1, <2>3 DEF Unread
<1> QED
  BY <1>3, <1>4 DEF StoreInv

LEMMA StoreDispatches ==
  ASSUME StoreInv, OutboxInv', NEW e \in Edit, Dispatch(e) \/ Advance(e)
  PROVE StoreInv'
<1>1. SendInv /\ TypeInv /\ entries \in Registries
  BY DEF StoreInv, OutboxInv, SendInv, TypeInv, SessionTyped
<1>2. CASE AtGate(e)
  <2>1. UNCHANGED <<outbox, stored, disk, loads, astray, evicted, entries>>
    BY <1>1, <1>2, GateMoves DEF TypeInv, SessionTyped
  <2> QED
    BY <2>1, StoreSame DEF Tracked
<1>3. CASE Registers(e)
  <2>1. /\ Tracked' \subseteq Tracked \union {e}
        /\ \A d \in Tracked' : \/ d = e /\ entries'[d] = NewEntry
                               \/ d # e /\ d \in Tracked /\ entries'[d] = entries[d]
        /\ evicted' = evicted \union ((Tracked \union {e}) \ Tracked')
        /\ Persist(e, NewEntry)
    BY <1>1, <1>3, RegisterDoes
  <2>2. UNCHANGED <<outbox, stored, loads>>
    BY <1>3 DEF Registers, Register, RegisterLeft
  <2> QED
    BY <2>1, <2>2, NewEntryIs, StoreWrites
<1>4. CASE StartAttempt(e)
  <2>1. /\ UNCHANGED <<outbox, stored, loads, evicted, entries>>
        /\ IF e \in Tracked THEN Persist(e, entries[e]) ELSE UNCHANGED <<disk, astray>>
    BY <1>4 DEF StartAttempt
  <2>2. CASE e \in Tracked
    <3>1. Persist(e, entries[e]) /\ entries[e] \in Entry
      BY <1>1, <2>1, <2>2, RegistryIs DEF Tracked
    <3> QED
      BY <2>1, <2>2, <3>1, StoreWrites DEF Tracked
  <2>3. CASE e \notin Tracked
    BY <2>1, <2>3, StoreSame DEF Tracked
  <2> QED
    BY <2>2, <2>3
<1> QED
  BY <1>2, <1>3, <1>4 DEF Advance, AtGate, Registers

LEMMA StoreSends ==
  ASSUME StoreInv, OutboxInv', NEW e \in Edit, Send(e)
  PROVE StoreInv'
<1>1. SendInv /\ TypeInv
  BY DEF StoreInv, OutboxInv, SendInv
<1>2. CASE NetworkPublish(e)
  BY <1>2, StoreSame DEF NetworkPublish, Tracked
<1>3. CASE SendResolves(e) \/ SendThrows(e)
  <2>1. Settles(e) /\ UNCHANGED <<outbox, stored, loads, evicted>>
    BY <1>1, <1>3, ResolvesOwn, ThrowsOwn DEF SendResolves, SendThrows
  <2>2. Tracked' = Tracked /\ entries' \in Registries /\ \A d \in Tracked \ {e} : entries'[d] = entries[d]
    BY <2>1 DEF Settles, Tracked
  <2>3. CASE e \in Tracked
    <3>1. Persist(e, entries'[e]) /\ entries'[e] \in Entry
      BY <2>1, <2>2, <2>3, RegistryIs DEF Settles, Tracked
    <3>2. PICK x \in Entry : x = entries'[e]
      BY <3>1
    <3> QED
      BY <2>1, <2>2, <2>3, <3>1, <3>2, StoreWrites
  <2>4. CASE e \notin Tracked
    BY <2>1, <2>2, <2>4, StoreSame DEF Settles, Tracked
  <2> QED
    BY <2>3, <2>4
<1> QED
  BY <1>2, <1>3 DEF Send

\* A confirmed entry leaves the registry, and is resolved in the store.
LEMMA StoreEchoes ==
  ASSUME StoreInv, OutboxInv', NEW v \in Edit, Echo(v)
  PROVE StoreInv'
<1>1. TypeInv /\ UNCHANGED <<outbox, stored, loads, evicted>>
  BY DEF StoreInv, OutboxInv, SendInv, Echo
<1>3. ASSUME NEW d \in Tracked, NEW x \in Entry, x.status = "reconciled",
             Persist(d, x), Tracked' = Tracked \ {d}, \A c \in Tracked' : entries'[c] = entries[c]
      PROVE StoreInv'
  <2>1. d \in Edit
    BY <1>1, RegistryIs DEF TypeInv, SessionTyped, Tracked
  <2> QED
    BY <1>1, <1>3, <2>1, StoreWrites DEF Unresolved
<1> QED
  BY <1>1, <1>3, EchoDoes

\* The write at the head runs, or fails and its entry is astray.
LEMMA StoreStorePut ==
  ASSUME StoreInv, OutboxInv', StorePut
  PROVE StoreInv'
<1>1. /\ TypeInv /\ disk # <<>> /\ disk' = Tail(disk) /\ Tracked \subseteq Edit
      /\ UNCHANGED <<outbox, loads, evicted, entries>> /\ Tracked' = Tracked
  BY RegistryIs DEF StoreInv, OutboxInv, SendInv, TypeInv, SessionTyped, StorePut, Tracked
<1>2. PICK e \in Edit, x \in Entry :
        /\ Head(disk) = Put(e, x)
        /\ \/ stored' = stored /\ astray' = astray \union {e}
           \/ /\ astray' = astray
              /\ \A d \in DOMAIN stored' :
                   IF d = e THEN stored'[d] = x ELSE d \in DOMAIN stored /\ stored'[d] = stored[d]
  BY <1>1, StorePutDoes
<1>3. /\ DOMAIN disk = 1..Len(disk) /\ Len(disk) \in Nat \ {0} /\ disk[1] = Put(e, x)
      /\ DOMAIN disk' = 1..(Len(disk) - 1)
      /\ \A i \in DOMAIN disk' : i + 1 \in DOMAIN disk /\ disk'[i] = disk[i + 1]
  BY <1>1, <1>2, RestOf DEF TypeInv, IoTyped
<1>4. \A d \in Edit : PutOf(1, d) <=> d = e
  BY <1>3, PutIs DEF PutOf
<1>5. ASSUME NEW d \in Edit, d # e
      PROVE (\A y \in Entry : WillStore(d, y)' => WillStore(d, y)) /\ (NoPut(d) => NoPut(d)')
  BY <1>1, <1>2, <1>4, <1>5, TailStores
<1>6. ~NoPut(e)
  BY <1>3, <1>4 DEF NoPut
<1>7. ASSUME e \notin astray', NEW y \in Entry, WillStore(e, y)' PROVE WillStore(e, y)
  <2>1. \A i \in DOMAIN disk' : PutOf(i, e)' <=> PutOf(i + 1, e)
    BY <1>3 DEF PutOf
  <2>2. CASE NoPut(e)'
    <3>1. y = x
      <4>1. ~ \E i \in DOMAIN disk' : disk'[i] = Put(e, y)
        BY <2>2, PutIs DEF NoPut, PutOf
      <4>2. e \in DOMAIN stored' /\ stored'[e] = y
        BY <1>7, <4>1 DEF WillStore
      <4> QED
        BY <1>2, <1>7, <4>2
    <3>2. \A j \in DOMAIN disk : j > 1 => ~PutOf(j, e)
      <4> SUFFICES ASSUME NEW j \in DOMAIN disk, j > 1 PROVE ~PutOf(j, e)
        OBVIOUS
      <4>1. j - 1 \in DOMAIN disk' /\ (j - 1) + 1 = j
        BY <1>3
      <4> QED
        BY <2>1, <2>2, <4>1 DEF NoPut
    <3>3. 1 \in DOMAIN disk
      BY <1>3
    <3> QED
      BY <1>3, <3>1, <3>2, <3>3 DEF WillStore
  <2>3. CASE ~NoPut(e)'
    <3>1. PICK i \in DOMAIN disk' :
            disk'[i] = Put(e, y) /\ \A j \in DOMAIN disk' : j > i => ~PutOf(j, e)'
      BY <1>7, <2>3 DEF WillStore
    <3>2. i + 1 \in DOMAIN disk /\ disk[i + 1] = Put(e, y)
      BY <1>3, <3>1
    <3>3. ASSUME NEW j \in DOMAIN disk, j > i + 1 PROVE ~PutOf(j, e)
      <4>1. j - 1 \in DOMAIN disk' /\ (j - 1) + 1 = j /\ j - 1 > i
        BY <1>3, <3>1, <3>3
      <4> QED
        BY <2>1, <3>1, <4>1
    <3> QED
      BY <3>2, <3>3 DEF WillStore
  <2> QED
    BY <2>2, <2>3
<1>8. ReadQueued' <=> ReadQueued
  <2>1. disk[1] # Get
    BY <1>3, PutIs
  <2>2. \A j \in DOMAIN disk : disk[j] = Get => j - 1 \in DOMAIN disk' /\ disk'[j - 1] = disk[j]
    BY <1>3, <2>1
  <2> QED
    BY <1>3, <2>2 DEF ReadQueued
<1>9. TrackedIsStored'
  <2> SUFFICES ASSUME NEW d \in Tracked, d \notin astray', NEW y \in Entry, WillStore(d, y)'
               PROVE y = entries[d]
    BY <1>1 DEF TrackedIsStored
  <2>1. WillStore(d, y) /\ d \notin astray
    BY <1>1, <1>2, <1>5, <1>7
  <2> QED
    BY <2>1 DEF StoreInv, TrackedIsStored
<1>10. StoredIsTracked'
  <2> SUFFICES ASSUME NEW d \in Edit, d \notin Tracked, d \notin evicted, d \notin astray',
                      NEW y \in Entry, WillStore(d, y)', y.status \in Unresolved
               PROVE NoPut(d)' /\ Unread(d)'
    BY <1>1 DEF StoredIsTracked
  <2>1. WillStore(d, y) /\ d \notin astray
    BY <1>2, <1>5, <1>7
  <2>2. NoPut(d) /\ Unread(d)
    BY <2>1 DEF StoreInv, StoredIsTracked
  <2>3. d # e
    BY <1>6, <2>2
  <2> QED
    BY <1>1, <1>5, <1>8, <2>2, <2>3 DEF Unread
<1> QED
  BY <1>9, <1>10 DEF StoreInv

\* A read takes what is stored to the session.
LEMMA StoreStoreGet ==
  ASSUME StoreInv, OutboxInv', StoreGet
  PROVE StoreInv'
<1>1. /\ TypeInv /\ disk # <<>> /\ Head(disk) = Get /\ disk' = Tail(disk)
      /\ loads' = Append(loads, stored) /\ Tracked' = Tracked /\ Tracked \subseteq Edit
      /\ UNCHANGED <<outbox, stored, evicted, entries, astray>>
      /\ loads \in Seq(Registries) /\ stored \in Registries
  BY RegistryIs DEF StoreInv, OutboxInv, SendInv, TypeInv, SessionTyped, IoTyped, DurableTyped,
     StoreGet, Tracked
<1>2. disk[1] = Get /\ 1 \in DOMAIN disk
  BY <1>1, RestOf DEF TypeInv, IoTyped
<1>3. ASSUME NEW d \in Edit
      PROVE (\A y \in Entry : WillStore(d, y)' => WillStore(d, y)) /\ (NoPut(d) => NoPut(d)')
  <2>1. ~PutOf(1, d)
    BY <1>2, GetIsNoPut DEF PutOf
  <2> QED
    BY <1>1, <2>1, TailStores
<1>5. \E i \in DOMAIN loads' : loads'[i] = stored
  BY <1>1, AppendProperties, LenProperties
<1>6. TrackedIsStored'
  BY <1>1, <1>3 DEF StoreInv, TrackedIsStored
<1>7. StoredIsTracked'
  <2> SUFFICES ASSUME NEW d \in Edit, d \notin Tracked, d \notin evicted, d \notin astray,
                      NEW y \in Entry, WillStore(d, y)', y.status \in Unresolved
               PROVE NoPut(d)' /\ Unread(d)'
    BY <1>1 DEF StoredIsTracked
  <2>1. WillStore(d, y) /\ NoPut(d)
    BY <1>3 DEF StoreInv, StoredIsTracked
  <2>2. d \in DOMAIN stored
    BY <2>1, PutIs DEF WillStore, NoPut, PutOf
  <2> QED
    BY <1>3, <1>5, <2>1, <2>2 DEF Unread
<1> QED
  BY <1>6, <1>7 DEF StoreInv

\* An outbox is made for the group: the store will be read.
LEMMA StoreCreates ==
  ASSUME StoreInv, OutboxInv', CreateOutbox
  PROVE StoreInv'
<1>1. /\ TypeInv /\ disk' = Append(disk, Get) /\ outbox' = "loading" /\ disk \in Seq(Transaction)
      /\ Tracked' = Tracked /\ Tracked \subseteq Edit
      /\ UNCHANGED <<stored, loads, evicted, entries, astray>>
  BY RegistryIs DEF StoreInv, OutboxInv, SendInv, TypeInv, SessionTyped, IoTyped, CreateOutbox, Tracked
<1>2. /\ Len(disk) \in Nat /\ DOMAIN disk = 1..Len(disk) /\ DOMAIN disk' = 1..(Len(disk) + 1)
      /\ \A i \in DOMAIN disk : disk'[i] = disk[i]
      /\ disk'[Len(disk) + 1] = Get
  BY <1>1, PutIs, AppendProperties, LenProperties DEF Transaction
<1>3. \A d \in Edit : \A i \in DOMAIN disk' : PutOf(i, d)' => i \in DOMAIN disk /\ PutOf(i, d)
  BY <1>2, GetIsNoPut DEF PutOf
<1>4. \A d \in Edit : \A i \in DOMAIN disk : PutOf(i, d) => i \in DOMAIN disk' /\ PutOf(i, d)'
  BY <1>2 DEF PutOf
<1>5. \A d \in Edit : NoPut(d)' <=> NoPut(d)
  BY <1>2, <1>3, <1>4 DEF NoPut
<1>6. ASSUME NEW d \in Edit, NEW y \in Entry, WillStore(d, y)' PROVE WillStore(d, y)
  <2>1. \A i \in DOMAIN disk' : disk'[i] = Put(d, y) => i \in DOMAIN disk /\ disk[i] = Put(d, y)
    BY <1>2, PutIs
  <2>2. \A i \in DOMAIN disk' :
          (\A j \in DOMAIN disk' : j > i => ~PutOf(j, d)') => \A j \in DOMAIN disk : j > i => ~PutOf(j, d)
    BY <1>4
  <2> QED
    BY <1>1, <1>5, <1>6, <2>1, <2>2 DEF WillStore
<1>7. ReadQueued'
  <2>1. PICK n \in Nat : n = Len(disk) + 1
    BY <1>2
  <2>2. n \in DOMAIN disk' /\ disk'[n] = Get
    BY <1>2, <2>1
  <2> QED
    BY <2>2 DEF ReadQueued
<1>8. TrackedIsStored'
  BY <1>1, <1>6 DEF StoreInv, TrackedIsStored
<1>9. StoredIsTracked'
  BY <1>1, <1>5, <1>6, <1>7 DEF StoreInv, StoredIsTracked, Unread
<1> QED
  BY <1>8, <1>9 DEF StoreInv

\* A read comes back: what it overwrites agrees with the store, unless overtaken.
LEMMA StoreRehydrates ==
  ASSUME StoreInv, OutboxInv', Rehydrate
  PROVE StoreInv'
<1>1. /\ TypeInv /\ loads \in Seq(Registries) /\ UNCHANGED <<stored, disk>>
      /\ Tracked \subseteq Edit /\ Tracked' \subseteq Edit
      /\ astray \subseteq astray' /\ (outbox = "none" => outbox' = "none")
  BY RegistryIs DEF StoreInv, OutboxInv, SendInv, TypeInv, SessionTyped, IoTyped, Rehydrate, Tracked,
     OpensGate, Hooked
<1>2. PICK copy \in Registries :
        /\ loads # <<>> /\ copy = Head(loads) /\ loads' = Tail(loads)
        /\ \/ /\ entries' = entries /\ evicted' = evicted
              /\ astray' = astray \union DOMAIN copy
           \/ /\ Tracked' \subseteq Tracked \union DOMAIN copy
              /\ \A e \in Tracked' :
                   entries'[e] = IF e \in DOMAIN copy THEN copy[e] ELSE entries[e]
              /\ evicted' = evicted \union ((Tracked \union DOMAIN copy) \ Tracked')
              /\ astray' = astray \union Overtaken(copy)
  BY <1>1, RehydrateDoes
<1>3. /\ \A d \in Edit, y \in Entry : WillStore(d, y)' => WillStore(d, y)
      /\ \A d \in Edit : NoPut(d) => NoPut(d)'
      /\ ReadQueued' <=> ReadQueued
  BY <1>1, StoreStays
<1>5. TrackedIsStored'
  <2> SUFFICES ASSUME NEW d \in Tracked', d \notin astray', NEW y \in Entry, WillStore(d, y)'
               PROVE y = entries'[d]
    BY DEF TrackedIsStored
  <2>1. WillStore(d, y) /\ d \in Edit /\ d \notin astray
    BY <1>1, <1>3
  <2>2. CASE d \in Tracked /\ entries'[d] = entries[d]
    BY <2>1, <2>2 DEF StoreInv, TrackedIsStored
  <2>3. CASE d \in DOMAIN copy /\ entries'[d] = copy[d] /\ d \notin Overtaken(copy)
    <3>1. NoPut(d) /\ (d \in DOMAIN stored => stored[d] = copy[d])
      BY <2>3 DEF Overtaken, NoPut, PutOf
    <3>2. d \in DOMAIN stored /\ stored[d] = y
      BY <2>1, <3>1, PutIs DEF WillStore, NoPut, PutOf
    <3> QED
      BY <2>3, <3>1, <3>2
  <2> QED
    BY <1>2, <2>2, <2>3 DEF Tracked
<1>6. StoredIsTracked'
  <2> SUFFICES ASSUME NEW d \in Edit, d \notin Tracked', d \notin evicted', d \notin astray',
                      NEW y \in Entry, WillStore(d, y)', y.status \in Unresolved
               PROVE NoPut(d)' /\ Unread(d)'
    BY DEF StoredIsTracked
  <2>1. d \notin Tracked /\ d \notin evicted /\ d \notin astray /\ d \notin DOMAIN copy
    BY <1>1, <1>2 DEF Tracked
  <2>2. NoPut(d) /\ Unread(d)
    BY <1>3, <2>1 DEF StoreInv, StoredIsTracked
  <2>3. CASE ReadQueued
    BY <1>3, <2>2, <2>3 DEF Unread
  <2>4. ASSUME NEW i \in DOMAIN loads, d \in DOMAIN loads[i] PROVE Unread(d)'
    <3>1. /\ DOMAIN loads = 1..Len(loads) /\ Len(loads) \in Nat \ {0} /\ loads[1] = copy
          /\ DOMAIN loads' = 1..(Len(loads) - 1)
          /\ \A j \in DOMAIN loads' : loads'[j] = loads[j + 1]
      BY <1>1, <1>2, RestOf
    <3>2. i # 1
      BY <2>1, <2>4, <3>1
    <3>3. i - 1 \in DOMAIN loads' /\ (i - 1) + 1 = i
      BY <3>1, <3>2
    <3>4. d \in DOMAIN loads'[i - 1]
      BY <2>4, <3>1, <3>3
    <3> QED
      BY <3>3, <3>4 DEF Unread
  <2> QED
    BY <1>1, <1>3, <2>2, <2>3, <2>4 DEF Unread
<1> QED
  BY <1>5, <1>6 DEF StoreInv

\* A session starts with nothing tracked and nothing read.
LEMMA StoreReload ==
  ASSUME OutboxInv', Reload
  PROVE StoreInv'
<1>1. outbox' = "none" /\ entries' = <<>> /\ loads' = <<>> /\ disk' = <<>>
  BY DEF Reload
<1>2. DOMAIN entries' = {} /\ DOMAIN disk' = {}
  BY <1>1
<1>3. TrackedIsStored' /\ StoredIsTracked'
  BY <1>1, <1>2 DEF TrackedIsStored, StoredIsTracked, Tracked, NoPut, Unread, ReadQueued
<1> QED
  BY <1>3 DEF StoreInv

LEMMA StoreInit == Init => StoreInv
<1> SUFFICES ASSUME Init PROVE StoreInv
  OBVIOUS
<1>1. DOMAIN entries = {} /\ DOMAIN disk = {}
  BY DEF Init
<1>2. TrackedIsStored /\ StoredIsTracked
  BY <1>1 DEF Init, TrackedIsStored, StoredIsTracked, Tracked, NoPut, Unread, ReadQueued
<1> QED
  BY <1>2, OutboxInit DEF StoreInv

LEMMA StoreStep ==
  ASSUME StoreInv, [Next]_vars
  PROVE StoreInv'
<1>1. OutboxInv'
  BY OutboxStep DEF StoreInv
<1>2. CASE UNCHANGED vars \/ PublishCommit \/ MountBridge
  BY <1>1, <1>2, StoreSame DEF vars, PublishCommit, MountBridge, Tracked
<1>5. CASE SwitchBoard \/ CloseBoard
  BY <1>1, <1>5, StoreSame DEF SwitchBoard, CloseBoard, LeaveBoard, Tracked
<1>3. ASSUME NEW e \in Edit, Dispatch(e) \/ Advance(e) \/ Send(e) \/ Echo(e)
      PROVE StoreInv'
  BY <1>1, <1>3, StoreDispatches, StoreSends, StoreEchoes
<1>4. CASE CreateOutbox \/ StorePut \/ StoreGet \/ Rehydrate \/ Reload
  BY <1>1, <1>4, StoreStorePut, StoreStoreGet, StoreCreates, StoreRehydrates, StoreReload
<1> QED
  BY <1>2, <1>3, <1>4, <1>5 DEF Next

\* What a session tracks is what a restart would restore, and what is stored as
\* unresolved is tracked, up to what the cap dropped, failed or was overtaken.
THEOREM RestoresWhatItTracks == Spec => []RegistryMatchesStore
<1>1. Spec => []StoreInv
  BY StoreInit, StoreStep, PTL DEF Spec
<1>2. ASSUME StoreInv, Settled PROVE \A e \in Edit : NoPut(e) /\ ~Unread(e)
  <2>1. DOMAIN disk = {} /\ DOMAIN loads = {} /\ outbox = "ready"
    BY <1>2 DEF Settled
  <2> QED
    BY <2>1 DEF NoPut, Unread, ReadQueued
<1>3. ASSUME StoreInv, Settled
      PROVE /\ \A e \in (Tracked \intersect DOMAIN stored) \ astray : entries[e] = stored[e]
            /\ \A e \in DOMAIN stored \ (astray \union evicted) :
                 stored[e].status \in {"pending", "sent"} => e \in Tracked
  <2>1. \A e \in DOMAIN stored : e \in Edit /\ stored[e] \in Entry
    BY <1>3, RegistryIs DEF StoreInv, OutboxInv, SendInv, TypeInv, DurableTyped
  <2>2. \A e \in DOMAIN stored : WillStore(e, stored[e])
    BY <1>2, <1>3, <2>1 DEF WillStore
  <2> QED
    BY <1>2, <1>3, <2>1, <2>2 DEF StoreInv, TrackedIsStored, StoredIsTracked, Unresolved
<1>4. StoreInv => RegistryMatchesStore
  BY <1>3 DEF RegistryMatchesStore
<1> QED
  BY <1>1, <1>4, PTL
=============================================================================
