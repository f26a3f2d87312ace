-------------------------- MODULE DeviceSyncProofs --------------------------
(* What TLAPS proves of DeviceSync, for every value of its constants.        *)
EXTENDS DeviceSync, SequenceTheorems, FiniteSetTheorems, TLAPS

USE DEF relay, member, inbox, stores, durable, joining, cached, counts, history

----------------------------------------------------------------------------
(* Types.  A continuation past its first await has what it works on. *)

WorkersTyped ==
  /\ JoiningTyped
  /\ \A d \in Device, w \in Worker :
       worker[d][w].pc # "idle" => worker[d][w].cur \in Welcome

TasksTyped ==
  /\ task \in [Device -> [Task -> TaskState]]
  /\ \A d \in Device, t \in Task :
       /\ task[d][t].pc # "idle" => task[d][t].slot \in Device
       /\ task[d][t].pc \in {"list", "invite", "persist"} => task[d][t].group \in Group

ForgetsTyped ==
  /\ forget \in [Device -> ForgetState]
  /\ \A d \in Device :
       /\ forget[d].pc # "idle" => forget[d].slot \in Device
       /\ forget[d].pc \in {"remove", "retry"} => forget[d].group \in Group

TypeInv ==
  /\ RelayTyped /\ MemberTyped /\ InboxTyped /\ StoresTyped /\ WorkersTyped /\ CachedTyped
  /\ TasksTyped /\ ForgetsTyped /\ HistoryTyped

\* What a step leaves alone keeps its type.
LEMMA Kept ==
  ASSUME TypeInv
  PROVE  /\ UNCHANGED relay => RelayTyped'
         /\ UNCHANGED member => MemberTyped'
         /\ UNCHANGED inbox => InboxTyped'
         /\ UNCHANGED stores => StoresTyped'
         /\ UNCHANGED joining => WorkersTyped'
         /\ UNCHANGED cached => CachedTyped'
         /\ UNCHANGED task => TasksTyped'
         /\ UNCHANGED forget => ForgetsTyped'
         /\ UNCHANGED history => HistoryTyped'
BY DEF TypeInv, RelayTyped, MemberTyped, InboxTyped, StoresTyped, WorkersTyped, JoiningTyped,
       CachedTyped, TasksTyped, ForgetsTyped, HistoryTyped

\* The running continuations of one device; the others stay where they are.
LEMMA StepWorkerTyped ==
  ASSUME WorkersTyped, NEW d \in Device, NEW w \in Worker, NEW to \in WorkerState,
         to.pc # "idle" => to.cur \in Welcome, StepWorker(d, w, to),
         initial' \in [Device -> {"mount", None} \union Worker],
         joinBarrier' \in [Device -> Worker \union {None}],
         rotating' \in [Device -> SUBSET Version]
  PROVE  WorkersTyped'
<1>1. /\ worker' \in [Device -> [Worker -> WorkerState]]
      /\ \A e \in Device, v \in Worker :
           worker'[e][v] = IF e = d /\ v = w THEN to ELSE worker[e][v]
  BY DEF WorkersTyped, JoiningTyped, StepWorker
<1> QED
  BY <1>1 DEF WorkersTyped, JoiningTyped

LEMMA StepTaskTyped ==
  ASSUME TasksTyped, NEW d \in Device, NEW t \in Task, NEW to \in TaskState,
         to.pc # "idle" => to.slot \in Device,
         to.pc \in {"list", "invite", "persist"} => to.group \in Group,
         StepTask(d, t, to)
  PROVE  TasksTyped'
<1>1. /\ task' \in [Device -> [Task -> TaskState]]
      /\ \A e \in Device, u \in Task :
           task'[e][u] = IF e = d /\ u = t THEN to ELSE task[e][u]
  BY DEF TasksTyped, StepTask
<1> QED
  BY <1>1 DEF TasksTyped

LEMMA StepForgetTyped ==
  ASSUME ForgetsTyped, NEW d \in Device, NEW to \in ForgetState,
         to.pc # "idle" => to.slot \in Device,
         to.pc \in {"remove", "retry"} => to.group \in Group,
         StepForget(d, to)
  PROVE  ForgetsTyped'
<1>1. /\ forget' \in [Device -> ForgetState]
      /\ \A e \in Device : forget'[e] = IF e = d THEN to ELSE forget[e]
  BY DEF ForgetsTyped, StepForget
<1> QED
  BY <1>1 DEF ForgetsTyped

\* The constant states and the steps of a loop are typed.
LEMMA IdleTyped ==
  /\ IdleWorker \in WorkerState /\ IdleWorker.pc = "idle"
  /\ IdleTask \in TaskState /\ IdleTask.pc = "idle" /\ IdleTask.wait = None
  /\ IdleForget \in ForgetState /\ IdleForget.pc = "idle"
  /\ 0 \in Version /\ 1 \in Version /\ 1 \in 1 .. MaxVersion
BY DeviceAssumption DEF IdleWorker, WorkerState, IdleTask, TaskState, IdleForget, ForgetState,
   Version

LEMMA NextTurnTyped ==
  ASSUME NEW k \in TaskState, k.slot \in Device
  PROVE  /\ NextTurn(k) \in TaskState
         /\ NextTurn(k).pc \in {"idle", "groups"}
         /\ NextTurn(k).pc # "idle" => NextTurn(k).slot = k.slot /\ NextTurn(k).kp = k.kp
         /\ NextTurn(k).wait \in {None, k.wait}
BY IdleTyped DEF NextTurn, TaskState

LEMMA NextLeafTyped ==
  ASSUME NEW f \in ForgetState, f.slot \in Device, f.group \in Group
  PROVE  /\ NextLeaf(f) \in ForgetState /\ NextLeaf(f).slot \in Device
         /\ NextLeaf(f).pc \in {"remove", "retry"} => NextLeaf(f).group \in Group
BY IdleTyped DEF NextLeaf, EndGroup, ForgetState

LEMMA TurnTyped ==
  ASSUME WorkersTyped, NEW d \in Device, NEW w \in Worker, NEW todo \in SUBSET Welcome,
         Turn(d, w, todo), initial' \in [Device -> {"mount", None} \union Worker],
         UNCHANGED rotating
  PROVE  WorkersTyped'
<1>1. joinBarrier' \in [Device -> Worker \union {None}] /\ rotating' \in [Device -> SUBSET Version]
  BY DEF Turn, WorkersTyped, JoiningTyped
<1>2. CASE StepWorker(d, w, IdleWorker)
  BY <1>1, <1>2, IdleTyped, StepWorkerTyped
<1>3. CASE \E i \in todo : StepWorker(d, w, [pc |-> "join", todo |-> todo \ {i}, cur |-> i])
  <2>1. PICK i \in todo : StepWorker(d, w, [pc |-> "join", todo |-> todo \ {i}, cur |-> i])
    BY <1>3
  <2>2. [pc |-> "join", todo |-> todo \ {i}, cur |-> i] \in WorkerState
    BY DEF WorkerState
  <2> QED
    BY <1>1, <2>1, <2>2, StepWorkerTyped
<1> QED
  BY <1>2, <1>3 DEF Turn

\* A handler whose wait is over is otherwise as it was.
LEMMA WaitOver ==
  ASSUME NEW k \in TaskState
  PROVE  LET r == [k EXCEPT !.wait = None] IN
         /\ r \in TaskState /\ r.wait = None
         /\ r.pc = k.pc /\ r.slot = k.slot /\ r.group = k.group
BY DEF TaskState

LEMMA ReleaseTyped ==
  ASSUME TasksTyped, NEW d \in Device, NEW w \in Worker, Release(d, w)
  PROVE  /\ TasksTyped'
         /\ \A e \in Device, t \in Task :
              /\ task'[e][t].pc = task[e][t].pc
              /\ task'[e][t].slot = task[e][t].slot /\ task'[e][t].group = task[e][t].group
              /\ task'[e][t].wait = IF e = d /\ task[e][t].wait = w THEN None ELSE task[e][t].wait
<1> DEFINE Over(k) == [k EXCEPT !.wait = None]
<1>1. \A e \in Device, t \in Task :
        /\ task[e][t] \in TaskState /\ Over(task[e][t]) \in TaskState
        /\ Over(task[e][t]).wait = None /\ Over(task[e][t]).pc = task[e][t].pc
        /\ Over(task[e][t]).slot = task[e][t].slot /\ Over(task[e][t]).group = task[e][t].group
  BY WaitOver DEF TasksTyped
<1>2. task' = [task EXCEPT ![d] = [t \in Task |-> IF task[d][t].wait = w THEN Over(task[d][t])
                                                 ELSE task[d][t]]]
  BY DEF Release
<1> HIDE DEF Over
<1>3. /\ task' \in [Device -> [Task -> TaskState]]
      /\ \A e \in Device, t \in Task :
           task'[e][t] = IF e = d /\ task[e][t].wait = w THEN Over(task[e][t]) ELSE task[e][t]
  BY <1>1, <1>2 DEF TasksTyped
<1>4. \A e \in Device, t \in Task :
        /\ task'[e][t].pc = task[e][t].pc
        /\ task'[e][t].slot = task[e][t].slot /\ task'[e][t].group = task[e][t].group
        /\ task'[e][t].wait = IF e = d /\ task[e][t].wait = w THEN None ELSE task[e][t].wait
  <2>1. TAKE e \in Device, t \in Task
  <2>2. CASE e = d /\ task[e][t].wait = w
    BY <1>1, <1>3, <2>2
  <2>3. CASE ~(e = d /\ task[e][t].wait = w)
    BY <1>3, <2>3
  <2> QED
    BY <2>2, <2>3
<1> QED
  BY <1>3, <1>4 DEF TasksTyped

LEMMA EndTurnTyped ==
  ASSUME WorkersTyped, TasksTyped, NEW d \in Device, NEW w \in Worker, NEW todo \in SUBSET Welcome,
         EndTurn(d, w, todo), UNCHANGED rotating
  PROVE  WorkersTyped' /\ TasksTyped'
<1>1. initial' \in [Device -> {"mount", None} \union Worker]
  BY DEF EndTurn, EndRun, WorkersTyped, JoiningTyped
<1> QED
  BY <1>1, TurnTyped, ReleaseTyped DEF EndTurn

LEMMA StartTaskTyped ==
  ASSUME TypeInv, NEW d \in Device, NEW t \in Task, NEW s \in Device, NEW v \in Version,
         StartTask(d, t, s, v)
  PROVE  TasksTyped' /\ HistoryTyped'
<1>1. joinBarrier[d] \in Worker \union {None}
  BY DEF TypeInv, WorkersTyped, JoiningTyped
<1>2. [IdleTask EXCEPT !.pc = "wait", !.slot = s, !.kp = v, !.wait = joinBarrier[d]] \in TaskState
  BY <1>1, IdleTyped DEF TaskState
<1>3. TasksTyped'
  <2> DEFINE to == [IdleTask EXCEPT !.pc = "wait", !.slot = s, !.kp = v, !.wait = joinBarrier[d]]
  <2>1. to \in TaskState /\ to.pc = "wait" /\ to.slot = s
    BY <1>2 DEF IdleTask, TaskState
  <2>2. StepTask(d, t, to)
    BY DEF StartTask
  <2> HIDE DEF to
  <2> QED
    BY <2>1, <2>2, StepTaskTyped DEF TypeInv
<1>4. HistoryTyped'
  BY DeviceAssumption DEF TypeInv, StartTask, HistoryTyped
<1> QED
  BY <1>3, <1>4

LEMMA KeyTyped ==
  ASSUME TasksTyped, NEW d \in Device, NEW t \in Task,
         task[d][t].pc \in {"list", "invite", "persist"}
  PROVE  Key(d, t) \in Group \X Device
BY DEF TasksTyped, TaskState, Key, DedupKey

LEMMA EndInviteTyped ==
  ASSUME TypeInv, NEW d \in Device, NEW t \in Task, EndInvite(d, t),
         task[d][t].pc \in {"list", "invite", "persist"}
  PROVE  TasksTyped' /\ pendingInvites' \in [Device -> SUBSET (Group \X Device)]
<1>1. task[d][t] \in TaskState /\ task[d][t].slot \in Device
  BY DEF TypeInv, TasksTyped
<1>2. TasksTyped'
  BY <1>1, NextTurnTyped, StepTaskTyped DEF EndInvite, TypeInv
<1>3. pendingInvites' \in [Device -> SUBSET (Group \X Device)]
  BY DEF TypeInv, CachedTyped, EndInvite
<1> QED
  BY <1>2, <1>3

LEMMA FaultTyped ==
  ASSUME HistoryTyped, Fault, UNCHANGED unrecorded
  PROVE  HistoryTyped'
BY DeviceAssumption DEF HistoryTyped, Fault

\* Replacing or adding a leaf.
LEMMA ExceptTyped ==
  ASSUME NEW S, NEW s \in Seq(S), NEW n, NEW x \in S
  PROVE  [s EXCEPT ![n] = x] \in Seq(S)
<1>1. CASE n \in 1 .. Len(s)
  BY <1>1, ExceptSeq
<1>2. CASE n \notin 1 .. Len(s)
  <2>1. DOMAIN s = 1 .. Len(s) /\ s = [i \in DOMAIN s |-> s[i]]
    BY LenProperties
  <2>2. [s EXCEPT ![n] = x] = s
    BY <1>2, <2>1
  <2> QED
    BY <2>2
<1> QED
  BY <1>1, <1>2

LEMMA AddLeafTyped ==
  ASSUME RelayTyped, NEW g \in Group, NEW leaf \in Leaf, AddLeaf(g, leaf)
  PROVE  tree' \in [Group -> Seq(Leaf \union {None})]
<1> DEFINE S == Leaf \union {None}
           blank == {n \in DOMAIN tree[g] : tree[g][n] = None}
           filled == IF blank = {} THEN Append(tree[g], leaf)
                     ELSE [tree[g] EXCEPT ![First(blank)] = leaf]
<1>1. tree \in [Group -> Seq(S)]
  BY DEF RelayTyped
<1>2. tree[g] \in Seq(S) /\ leaf \in S
  BY <1>1
<1>3. [tree[g] EXCEPT ![First(blank)] = leaf] \in Seq(S)
  BY <1>2, ExceptTyped
<1>4. Append(tree[g], leaf) \in Seq(S)
  BY <1>2, AppendProperties
<1>5. filled \in Seq(S)
  BY <1>3, <1>4
<1>6. tree' = [tree EXCEPT ![g] = filled]
  BY DEF AddLeaf
<1> HIDE DEF filled, S
<1>7. tree' \in [Group -> Seq(S)]
  BY <1>1, <1>5, <1>6
<1> QED
  BY <1>7 DEF S

----------------------------------------------------------------------------
(* Type correctness: one lemma per action that writes more than its own state. *)

LEMMA UnreadTyped ==
  ASSUME TypeInv, NEW d \in Device, NEW w \in Worker, FirstUnread(d, w) \/ LiveUnread(d, w)
  PROVE  TypeInv'
<1>1. welcomes \in SUBSET Welcome /\ ingested[d] \in SUBSET Welcome
  BY DEF TypeInv, RelayTyped, InboxTyped
<1>2. InboxTyped'
  BY <1>1 DEF TypeInv, InboxTyped, FirstUnread, LiveUnread
<1>3. WorkersTyped'
  <2>1. initial' \in [Device -> {"mount", None} \union Worker]
    BY DEF TypeInv, WorkersTyped, JoiningTyped, FirstUnread, LiveUnread
  <2>2. PICK todo \in SUBSET Welcome : Turn(d, w, todo)
    <3>1. CASE FirstUnread(d, w)
      BY <1>1, <3>1 DEF FirstUnread
    <3>2. CASE LiveUnread(d, w)
      BY <1>2, <3>2 DEF LiveUnread, InboxTyped
    <3> QED
      BY <3>1, <3>2
  <2> QED
    BY <2>1, <2>2, TurnTyped DEF TypeInv, FirstUnread, LiveUnread
<1> QED
  BY <1>2, <1>3, Kept DEF TypeInv, FirstUnread, LiveUnread

LEMMA FirstFailsTyped ==
  ASSUME TypeInv, NEW d \in Device, FirstFails(d)
  PROVE  TypeInv'
<1>1. WorkersTyped'
  BY DEF TypeInv, WorkersTyped, JoiningTyped, FirstFails
<1>2. HistoryTyped'
  BY FaultTyped DEF TypeInv, FirstFails
<1> QED
  BY <1>1, <1>2, Kept DEF TypeInv, FirstFails

LEMMA JoinTyped ==
  ASSUME TypeInv, NEW d \in Device, NEW w \in Worker, Join(d, w)
  PROVE  TypeInv'
<1> DEFINE k == worker[d][w]
           i == k.cur
<1>1. k \in WorkerState /\ k.pc = "join" /\ i \in Welcome
  BY DEF TypeInv, WorkersTyped, JoiningTyped, Join
<1>2. i.group \in Group /\ i.kp \in Version
  BY <1>1 DEF Welcome
<1>3. MemberTyped'
  BY <1>2 DEF TypeInv, MemberTyped, Join
<1>4. rotating' \in [Device -> SUBSET Version]
  BY <1>3 DEF TypeInv, WorkersTyped, JoiningTyped, MemberTyped, Join
<1>5. WorkersTyped'
  <2>1. LET to == [k EXCEPT !.pc = "readJoined"] IN to \in WorkerState /\ to.cur = i
    BY <1>1 DEF WorkerState
  <2> QED
    BY <1>1, <1>4, <2>1, StepWorkerTyped DEF TypeInv, WorkersTyped, JoiningTyped, Join
<1> QED
  BY <1>3, <1>5, Kept DEF TypeInv, Join

\* The steps of joinFromWelcomeInvite that stay within a turn.
LEMMA StepInTurnTyped ==
  ASSUME WorkersTyped, NEW d \in Device, NEW w \in Worker, worker[d][w].pc # "idle",
         NEW p \in {"mark", "log", "readFailed"},
         StepWorker(d, w, [worker[d][w] EXCEPT !.pc = p]),
         UNCHANGED <<initial, joinBarrier, rotating>>
  PROVE  WorkersTyped'
<1>1. worker[d][w] \in WorkerState /\ worker[d][w].cur \in Welcome
  BY DEF WorkersTyped, JoiningTyped
<1>2. LET to == [worker[d][w] EXCEPT !.pc = p] IN to \in WorkerState /\ to.cur \in Welcome
  BY <1>1 DEF WorkerState
<1> QED
  BY <1>2, StepWorkerTyped DEF WorkersTyped, JoiningTyped

LEMMA JoinFailsTyped ==
  ASSUME TypeInv, NEW d \in Device, NEW w \in Worker, JoinFails(d, w)
  PROVE  TypeInv'
<1>1. WorkersTyped'
  BY StepInTurnTyped DEF TypeInv, JoinFails
<1>2. HistoryTyped'
  BY FaultTyped DEF TypeInv, HistoryTyped, JoinFails
<1> QED
  BY <1>1, <1>2, Kept DEF TypeInv, JoinFails

LEMMA ReadJoinedTyped ==
  ASSUME TypeInv, NEW d \in Device, NEW w \in Worker, ReadJoined(d, w)
  PROVE  TypeInv'
<1>1. worker[d][w].cur \in Welcome
  BY DEF TypeInv, WorkersTyped, ReadJoined
<1>2. InboxTyped'
  BY <1>1 DEF TypeInv, InboxTyped, ReadJoined, MarkAsRead
<1>3. WorkersTyped'
  BY StepInTurnTyped DEF TypeInv, ReadJoined
<1> QED
  BY <1>2, <1>3, Kept DEF TypeInv, ReadJoined

LEMMA MarkGroupJoinedTyped ==
  ASSUME TypeInv, NEW d \in Device, NEW w \in Worker, MarkGroupJoined(d, w)
  PROVE  TypeInv'
<1>1. worker[d][w].cur \in Welcome
  BY DEF TypeInv, WorkersTyped, MarkGroupJoined
<1>2. InboxTyped'
  BY <1>1 DEF TypeInv, InboxTyped, MarkGroupJoined, Welcome
<1>3. WorkersTyped' /\ TasksTyped'
  <2>1. worker[d][w].todo \in SUBSET Welcome
    BY DEF TypeInv, WorkersTyped, JoiningTyped, WorkerState
  <2> QED
    BY <2>1, EndTurnTyped DEF TypeInv, MarkGroupJoined
<1> QED
  BY <1>2, <1>3, Kept DEF TypeInv, MarkGroupJoined

LEMMA AppendFailedWelcomeTyped ==
  ASSUME TypeInv, NEW d \in Device, NEW w \in Worker, AppendFailedWelcome(d, w)
  PROVE  TypeInv'
<1>1. worker[d][w].cur \in Welcome
  BY DEF TypeInv, WorkersTyped, AppendFailedWelcome
<1>2. InboxTyped'
  BY <1>1 DEF TypeInv, InboxTyped, AppendFailedWelcome
<1>3. WorkersTyped'
  BY StepInTurnTyped DEF TypeInv, AppendFailedWelcome
<1> QED
  BY <1>2, <1>3, Kept DEF TypeInv, AppendFailedWelcome

LEMMA ReadFailedTyped ==
  ASSUME TypeInv, NEW d \in Device, NEW w \in Worker, ReadFailed(d, w)
  PROVE  TypeInv'
<1>1. worker[d][w].cur \in Welcome
  BY DEF TypeInv, WorkersTyped, ReadFailed
<1>2. InboxTyped'
  BY <1>1 DEF TypeInv, InboxTyped, ReadFailed, MarkAsRead
<1>3. WorkersTyped' /\ TasksTyped'
  <2>1. worker[d][w].todo \in SUBSET Welcome
    BY DEF TypeInv, WorkersTyped, JoiningTyped, WorkerState
  <2> QED
    BY <2>1, EndTurnTyped DEF TypeInv, ReadFailed
<1> QED
  BY <1>2, <1>3, Kept DEF TypeInv, ReadFailed

LEMMA RunRejectsTyped ==
  ASSUME TypeInv, NEW d \in Device, NEW w \in Worker, RunRejects(d, w)
  PROVE  TypeInv'
<1>1. WorkersTyped' /\ TasksTyped'
  BY EndTurnTyped DEF TypeInv, RunRejects
<1>2. HistoryTyped'
  BY FaultTyped DEF TypeInv, RunRejects
<1> QED
  BY <1>1, <1>2, Kept DEF TypeInv, RunRejects

LEMMA RotateTyped ==
  ASSUME TypeInv, NEW d \in Device, Rotate(d) \/ CreateKeyPackage(d)
  PROVE  TypeInv'
<1>1. published[d] + 1 \in 1 .. MaxVersion /\ published[d] + 1 \in Version
  BY DeviceAssumption DEF TypeInv, RelayTyped, Version, Rotate, CreateKeyPackage
<1>2. RelayTyped'
  BY <1>1 DEF TypeInv, RelayTyped, Rotate, CreateKeyPackage
<1>3. MemberTyped'
  BY <1>1 DEF TypeInv, MemberTyped, Rotate, CreateKeyPackage
<1>4. WorkersTyped'
  <2>1. initial' = initial /\ joinBarrier' = joinBarrier /\ worker' = worker
    BY DEF Rotate, CreateKeyPackage, joining
  <2>2. rotating' \in [Device -> SUBSET Version]
    <3>1. rotating \in [Device -> SUBSET Version]
      BY DEF TypeInv, WorkersTyped, JoiningTyped
    <3>2. CASE Rotate(d)
      BY <3>1, <3>2 DEF Rotate
    <3>3. CASE CreateKeyPackage(d)
      BY <3>1, <3>3 DEF CreateKeyPackage, joining
    <3> QED
      BY <3>2, <3>3
  <2> QED
    BY <2>1, <2>2 DEF TypeInv, WorkersTyped, JoiningTyped
<1> QED
  BY <1>2, <1>3, <1>4, Kept DEF TypeInv, Rotate, CreateKeyPackage

LEMMA HandleKeyPackageEventTyped ==
  ASSUME TypeInv, NEW d \in Device, NEW t \in Task, NEW s \in Device,
         HandleKeyPackageEvent(d, t, s) \/ SyncKnown(d, t, s)
  PROVE  TypeInv'
<1>1. published[s] \in Version /\ known[d][s] \in Version
  BY DeviceAssumption DEF TypeInv, RelayTyped, CachedTyped, Version
<1>2. TasksTyped' /\ HistoryTyped'
  BY <1>1, StartTaskTyped DEF HandleKeyPackageEvent, SyncKnown
<1>3. CachedTyped'
  BY <1>1 DEF TypeInv, CachedTyped, HandleKeyPackageEvent, SyncKnown, StartTask
<1> QED
  BY <1>2, <1>3, Kept DEF TypeInv, HandleKeyPackageEvent, SyncKnown, StartTask

LEMMA CheckSlotTyped ==
  ASSUME TypeInv, NEW d \in Device, NEW t \in Task, CheckSlot(d, t)
  PROVE  TypeInv'
<1> DEFINE k == task[d][t]
           go == NextTurn([k EXCEPT !.todo = Loaded(d)])
           to == IF k.slot \in forgottenSlots[d] THEN IdleTask ELSE go
<1>1. k \in TaskState /\ k.slot \in Device
  BY DEF TypeInv, TasksTyped, CheckSlot
<1>2. Loaded(d) \in SUBSET Group
  BY DEF Loaded
<1>3. LET l == [k EXCEPT !.todo = Loaded(d)] IN l \in TaskState /\ l.slot \in Device
  BY <1>1, <1>2 DEF TaskState
<1>4. go \in TaskState /\ go.pc \in {"idle", "groups"} /\ (go.pc # "idle" => go.slot \in Device)
  BY <1>3, NextTurnTyped
<1>5. to \in TaskState /\ to.pc \in {"idle", "groups"} /\ (to.pc # "idle" => to.slot \in Device)
  BY <1>4, IdleTyped
<1>6. StepTask(d, t, to)
  BY DEF CheckSlot
<1> HIDE DEF to
<1>7. TasksTyped'
  BY <1>5, <1>6, StepTaskTyped DEF TypeInv
<1> QED
  BY <1>7, Kept DEF TypeInv, CheckSlot

LEMMA NextGroupTyped ==
  ASSUME TypeInv, NEW d \in Device, NEW t \in Task, NextGroup(d, t)
  PROVE  TypeInv'
<1> DEFINE k == task[d][t]
           skip(g) == NextTurn([k EXCEPT !.todo = @ \ {g}])
           take(g) == [k EXCEPT !.todo = @ \ {g}, !.pc = "list", !.group = g]
<1>1. k \in TaskState /\ k.slot \in Device
  BY DEF TypeInv, TasksTyped, NextGroup
<1>2. PICK g \in k.todo : StepTask(d, t, skip(g)) \/ StepTask(d, t, take(g))
  BY DEF NextGroup
<1>3. g \in Group
  BY <1>1 DEF TaskState
<1>4. LET l == [k EXCEPT !.todo = @ \ {g}] IN l \in TaskState /\ l.slot \in Device
  BY <1>1 DEF TaskState
<1>5. /\ skip(g) \in TaskState /\ skip(g).pc \in {"idle", "groups"}
      /\ skip(g).pc # "idle" => skip(g).slot \in Device
  BY <1>4, NextTurnTyped
<1>6. take(g) \in TaskState /\ take(g).slot \in Device /\ take(g).group \in Group
  BY <1>1, <1>3 DEF TaskState
<1> HIDE DEF skip, take
<1>7. TasksTyped'
  BY <1>2, <1>5, <1>6, StepTaskTyped DEF TypeInv
<1> QED
  BY <1>7, Kept DEF TypeInv, NextGroup

LEMMA ReserveTyped ==
  ASSUME TypeInv, NEW d \in Device, NEW t \in Task, Reserve(d, t)
  PROVE  TypeInv'
<1> DEFINE k == task[d][t]
           take == [k EXCEPT !.pc = "invite"]
<1>1. k \in TaskState /\ k.slot \in Device /\ k.group \in Group /\ k.pc = "list"
  BY DEF TypeInv, TasksTyped, Reserve
<1>2. take \in TaskState /\ take.slot \in Device /\ take.group \in Group
  BY <1>1 DEF TaskState
<1>3. /\ NextTurn(k) \in TaskState /\ NextTurn(k).pc \in {"idle", "groups"}
      /\ NextTurn(k).pc # "idle" => NextTurn(k).slot \in Device
  BY <1>1, NextTurnTyped
<1>4. StepTask(d, t, NextTurn(k)) \/ StepTask(d, t, take)
  BY DEF Reserve
<1>5. TasksTyped'
  BY <1>2, <1>3, <1>4, StepTaskTyped DEF TypeInv
<1>6. Key(d, t) \in Group \X Device
  BY <1>1, KeyTyped DEF TypeInv
<1>7. CachedTyped'
  BY <1>6 DEF TypeInv, CachedTyped, Reserve
<1> QED
  BY <1>5, <1>7, Kept DEF TypeInv, Reserve

\* What an invite does to the sweeps of all devices.
LEMMA InviteForgets ==
  ASSUME TypeInv, NEW d \in Device, NEW t \in Task, Invite(d, t)
  PROVE  LET k == task[d][t]
             leaf == [dev |-> k.slot, kp |-> k.kp] IN
         /\ forget' \in [Device -> ForgetState]
         /\ \A c \in Device :
              LET f == forget[c] IN
              /\ forget'[c].pc = f.pc /\ forget'[c].slot = f.slot /\ forget'[c].kp = f.kp
              /\ forget'[c].todo = f.todo /\ forget'[c].group = f.group
              /\ forget'[c].leaves = f.leaves
              /\ forget'[c].escaped = f.escaped \union Escapes(f, k.group, leaf)
              /\ forget'[c].done = IF f.slot = k.slot THEN f.done \ {k.group} ELSE f.done
<1> DEFINE k == task[d][t]
           leaf == [dev |-> k.slot, kp |-> k.kp]
           done(f) == IF f.slot = k.slot THEN f.done \ {k.group} ELSE f.done
           escaped(f) == f.escaped \union Escapes(f, k.group, leaf)
           after(f) == [f EXCEPT !.done = done(f), !.escaped = escaped(f)]
<1>1. k.group \in Group
  BY DEF TypeInv, TasksTyped, TaskState, Invite
<1>2. forget' = [c \in Device |-> after(forget[c])]
  BY DEF Invite, TypeInv, ForgetsTyped, ForgetState
<1>3. \A f \in ForgetState : done(f) \in SUBSET Group /\ escaped(f) \in SUBSET Group
  BY <1>1 DEF ForgetState, Escapes
<1>4. \A c \in Device : forget[c] \in ForgetState
  BY DEF TypeInv, ForgetsTyped
<1> HIDE DEF done, escaped
<1>5. \A f \in ForgetState :
        /\ after(f) \in ForgetState
        /\ after(f).pc = f.pc /\ after(f).slot = f.slot /\ after(f).kp = f.kp
        /\ after(f).todo = f.todo /\ after(f).group = f.group /\ after(f).leaves = f.leaves
        /\ after(f).escaped = escaped(f) /\ after(f).done = done(f)
  BY <1>3 DEF ForgetState
<1> HIDE DEF after
<1>6. /\ forget' \in [Device -> ForgetState]
      /\ \A c \in Device : forget'[c] = after(forget[c])
  BY <1>2, <1>4, <1>5
<1> QED
  BY <1>4, <1>5, <1>6 DEF done, escaped

LEMMA InviteTyped ==
  ASSUME TypeInv, NEW d \in Device, NEW t \in Task, Invite(d, t)
  PROVE  TypeInv'
<1> DEFINE k == task[d][t]
           leaf == [dev |-> k.slot, kp |-> k.kp]
           sent == [group |-> k.group, dev |-> k.slot, kp |-> k.kp, from |-> d]
           to == [k EXCEPT !.pc = "persist"]
<1>1. k \in TaskState /\ k.slot \in Device /\ k.group \in Group /\ k.kp \in Version
  BY DEF TypeInv, TasksTyped, TaskState, Invite
<1>2. leaf \in Leaf /\ sent \in Welcome
  BY <1>1 DEF Leaf, Welcome
<1>3. RelayTyped'
  BY <1>1, <1>2, AddLeafTyped DEF TypeInv, RelayTyped, Invite
<1>4. Key(d, t) \in Group \X Device
  BY KeyTyped DEF TypeInv, Invite
<1>5. CachedTyped'
  BY <1>4 DEF TypeInv, CachedTyped, Invite
<1>6. TasksTyped'
  <2>1. to \in TaskState /\ to.slot \in Device /\ to.group \in Group
    BY <1>1 DEF TaskState
  <2> QED
    BY <2>1, StepTaskTyped DEF TypeInv, Invite
<1>7. ForgetsTyped'
  BY InviteForgets DEF TypeInv, ForgetsTyped
<1> QED
  BY <1>3, <1>5, <1>6, <1>7, Kept DEF TypeInv, Invite

LEMMA InviteFailsTyped ==
  ASSUME TypeInv, NEW d \in Device, NEW t \in Task, InviteFails(d, t)
  PROVE  TypeInv'
<1>1. TasksTyped' /\ pendingInvites' \in [Device -> SUBSET (Group \X Device)]
  BY EndInviteTyped DEF InviteFails
<1>2. CachedTyped'
  BY <1>1 DEF TypeInv, CachedTyped, InviteFails
<1>3. HistoryTyped'
  BY FaultTyped DEF TypeInv, HistoryTyped, InviteFails
<1> QED
  BY <1>1, <1>2, <1>3, Kept DEF TypeInv, InviteFails

LEMMA PersistInvitedKeyTyped ==
  ASSUME TypeInv, NEW d \in Device, NEW t \in Task, PersistInvitedKey(d, t)
  PROVE  TypeInv'
<1>1. TasksTyped' /\ pendingInvites' \in [Device -> SUBSET (Group \X Device)]
  BY EndInviteTyped DEF PersistInvitedKey
<1>2. Key(d, t) \in Group \X Device
  BY KeyTyped DEF TypeInv, PersistInvitedKey
<1>3. StoresTyped'
  BY <1>2 DEF TypeInv, StoresTyped, PersistInvitedKey
<1>4. CachedTyped'
  BY <1>1 DEF TypeInv, CachedTyped, PersistInvitedKey
<1> QED
  BY <1>1, <1>3, <1>4, Kept DEF TypeInv, PersistInvitedKey

LEMMA PersistFailsTyped ==
  ASSUME TypeInv, NEW d \in Device, NEW t \in Task, PersistFails(d, t)
  PROVE  TypeInv'
<1>1. TasksTyped' /\ pendingInvites' \in [Device -> SUBSET (Group \X Device)]
  BY EndInviteTyped DEF PersistFails
<1>2. CachedTyped'
  BY <1>1 DEF TypeInv, CachedTyped, PersistFails
<1>3. HistoryTyped'
  <2>1. Key(d, t) \in Group \X Device
    BY KeyTyped DEF TypeInv, PersistFails
  <2>2. unrecorded' \subseteq Device \X (Group \X Device)
    BY <2>1 DEF TypeInv, HistoryTyped, PersistFails
  <2> QED
    BY <2>2, DeviceAssumption DEF TypeInv, HistoryTyped, PersistFails, Fault
<1> QED
  BY <1>1, <1>2, <1>3, Kept DEF TypeInv, PersistFails

LEMMA ForgetSiblingDeviceTyped ==
  ASSUME TypeInv, NEW d \in Device, NEW s \in Device, ForgetSiblingDevice(d, s)
  PROVE  TypeInv'
<1> DEFINE to == [IdleForget EXCEPT !.pc = "groups", !.slot = s, !.todo = Loaded(d)]
<1>1. Loaded(d) \in SUBSET Group
  BY DEF Loaded
<1>2. to \in ForgetState /\ to.pc = "groups" /\ to.slot = s
  BY <1>1, IdleTyped DEF IdleForget, ForgetState
<1>3. ForgetsTyped'
  BY <1>2, StepForgetTyped DEF TypeInv, ForgetSiblingDevice
<1>4. HistoryTyped'
  BY DEF TypeInv, HistoryTyped, ForgetSiblingDevice
<1> QED
  BY <1>3, <1>4, Kept DEF TypeInv, ForgetSiblingDevice

LEMMA RequestKeyPackagesTyped ==
  ASSUME TypeInv, NEW d \in Device, RequestKeyPackages(d)
  PROVE  TypeInv'
<1> DEFINE f == forget[d]
           v == published[f.slot]
           to(g) == [f EXCEPT !.todo = @ \ {g}, !.group = g, !.kp = v,
                              !.leaves = LeafIndexes(d, g, f.slot, v)]
<1>1. f \in ForgetState /\ f.slot \in Device
  BY DEF TypeInv, ForgetsTyped, RequestKeyPackages
<1>2. PICK g \in f.todo : StepForget(d, NextLeaf(to(g)))
  BY DEF RequestKeyPackages
<1>3. g \in Group /\ v \in Version
  BY <1>1, DeviceAssumption DEF ForgetState, TypeInv, RelayTyped, Version
<1>4. LeafIndexes(d, g, f.slot, v) \in SUBSET Nat
  <2>1. tree[g] \in Seq(Leaf \union {None})
    BY <1>3 DEF TypeInv, RelayTyped
  <2>2. DOMAIN tree[g] \subseteq Nat
    BY <2>1, LenProperties
  <2> QED
    BY <2>2 DEF LeafIndexes
<1>5. to(g) \in ForgetState /\ to(g).slot \in Device /\ to(g).group \in Group
  BY <1>1, <1>3, <1>4 DEF ForgetState
<1> HIDE DEF to
<1>6. ForgetsTyped'
  BY <1>2, <1>5, NextLeafTyped, StepForgetTyped DEF TypeInv
<1> QED
  BY <1>6, Kept DEF TypeInv, RequestKeyPackages

LEMMA RequestFailsTyped ==
  ASSUME TypeInv, NEW d \in Device, RequestFails(d)
  PROVE  TypeInv'
<1> DEFINE to(g) == [forget[d] EXCEPT !.todo = @ \ {g}]
<1>1. PICK g \in forget[d].todo : StepForget(d, to(g))
  BY DEF RequestFails
<1>2. /\ to(g) \in ForgetState /\ to(g).pc = forget[d].pc
      /\ to(g).slot \in Device
  BY DEF TypeInv, ForgetsTyped, ForgetState, RequestFails
<1>3. ForgetsTyped'
  BY <1>1, <1>2, StepForgetTyped DEF TypeInv, RequestFails
<1>4. HistoryTyped'
  BY FaultTyped DEF TypeInv, RequestFails
<1> QED
  BY <1>3, <1>4, Kept DEF TypeInv, RequestFails

\* The loop over the leaves goes on behind the first.
LEMMA SkipLeafTyped ==
  ASSUME ForgetsTyped, NEW d \in Device, forget[d].pc \in {"remove", "retry"},
         StepForget(d, NextLeaf([forget[d] EXCEPT !.leaves = @ \ {First(@)}]))
  PROVE  ForgetsTyped'
<1> DEFINE f == forget[d]
           to == [f EXCEPT !.leaves = @ \ {First(@)}]
<1>1. f \in ForgetState /\ f.slot \in Device /\ f.group \in Group
  BY DEF ForgetsTyped
<1>2. to \in ForgetState /\ to.slot \in Device /\ to.group \in Group
  BY <1>1 DEF ForgetState
<1> QED
  BY <1>2, NextLeafTyped, StepForgetTyped

LEMMA RemoveTyped ==
  ASSUME TypeInv, NEW d \in Device, NEW n, forget[d].pc \in {"remove", "retry"}, Remove(d, n)
  PROVE  TypeInv'
<1> DEFINE g == forget[d].group
           S == Leaf \union {None}
           less == [tree[g] EXCEPT ![n] = None]
<1>1. g \in Group
  BY DEF TypeInv, ForgetsTyped
<1>2. tree \in [Group -> Seq(S)] /\ tree[g] \in Seq(S)
  BY <1>1 DEF TypeInv, RelayTyped
<1>3. less \in Seq(S)
  BY <1>2, ExceptTyped
<1>4. tree' = [tree EXCEPT ![g] = less]
  BY DEF Remove
<1> HIDE DEF less, S
<1>5. tree' \in [Group -> Seq(S)]
  BY <1>2, <1>3, <1>4
<1>6. RelayTyped'
  BY <1>5 DEF S, TypeInv, RelayTyped, Remove
<1>7. ForgetsTyped'
  BY SkipLeafTyped DEF TypeInv, Remove
<1> QED
  BY <1>6, <1>7, Kept DEF TypeInv, Remove

LEMMA RetryTyped ==
  ASSUME TypeInv, NEW d \in Device, RemoveIsStale(d) \/ RetryRemove(d)
  PROVE  TypeInv'
<1>1. CASE RemoveIsStale(d)
  <2>1. LET to == [forget[d] EXCEPT !.pc = "retry"] IN
        to \in ForgetState /\ to.slot \in Device /\ to.group \in Group
    BY <1>1 DEF TypeInv, ForgetsTyped, ForgetState, RemoveIsStale
  <2>2. ForgetsTyped'
    BY <1>1, <2>1, StepForgetTyped DEF TypeInv, RemoveIsStale
  <2>3. HistoryTyped'
    BY <1>1, FaultTyped DEF TypeInv, RemoveIsStale
  <2> QED
    BY <1>1, <2>2, <2>3, Kept DEF TypeInv, RemoveIsStale
<1>2. CASE RetryRemove(d)
  <2>1. CASE \E n : Remove(d, n)
    BY <1>2, <2>1, RemoveTyped DEF RetryRemove
  <2>2. CASE ~\E n : Remove(d, n)
    <3>1. ForgetsTyped'
      BY <1>2, <2>2, SkipLeafTyped DEF TypeInv, RetryRemove
    <3> QED
      BY <1>2, <2>2, <3>1, Kept DEF TypeInv, RetryRemove
  <2> QED
    BY <2>1, <2>2
<1> QED
  BY <1>1, <1>2

LEMMA ForgetFailsTyped ==
  ASSUME TypeInv, NEW d \in Device, ForgetFails(d)
  PROVE  TypeInv'
<1>1. ForgetsTyped'
  BY IdleTyped, StepForgetTyped DEF TypeInv, ForgetFails
<1>2. HistoryTyped'
  BY FaultTyped DEF TypeInv, HistoryTyped, ForgetFails
<1> QED
  BY <1>1, <1>2, Kept DEF TypeInv, ForgetFails

LEMMA MarkSlotForgottenTyped ==
  ASSUME TypeInv, NEW d \in Device, MarkSlotForgotten(d)
  PROVE  TypeInv'
<1>1. forget[d] \in ForgetState /\ forget[d].slot \in Device
  BY DEF TypeInv, ForgetsTyped, MarkSlotForgotten
<1>2. StoresTyped'
  BY <1>1 DEF TypeInv, StoresTyped, MarkSlotForgotten
<1>3. LET to == [forget[d] EXCEPT !.pc = "refresh"] IN
      to \in ForgetState /\ to.pc = "refresh" /\ to.slot \in Device
  BY <1>1 DEF ForgetState
<1>4. ForgetsTyped'
  BY <1>3, StepForgetTyped DEF TypeInv, MarkSlotForgotten
<1> QED
  BY <1>2, <1>4, Kept DEF TypeInv, MarkSlotForgotten

LEMMA RefreshForgottenTyped ==
  ASSUME TypeInv, NEW d \in Device, RefreshForgotten(d)
  PROVE  TypeInv'
<1>1. CachedTyped'
  BY DEF TypeInv, CachedTyped, StoresTyped, RefreshForgotten
<1>2. ForgetsTyped'
  BY IdleTyped, StepForgetTyped DEF TypeInv, RefreshForgotten
<1> QED
  BY <1>1, <1>2, Kept DEF TypeInv, RefreshForgotten

LEMMA ReloadTyped ==
  ASSUME TypeInv, NEW d \in Device, Reload(d)
  PROVE  TypeInv'
<1>1. CachedTyped'
  BY IdleTyped DEF TypeInv, CachedTyped, StoresTyped, Reload, LoadForgottenSlots
<1>2. WorkersTyped'
  BY IdleTyped DEF TypeInv, WorkersTyped, JoiningTyped, Reload
<1>3. TasksTyped'
  BY IdleTyped DEF TypeInv, TasksTyped, Reload
<1>4. ForgetsTyped'
  BY IdleTyped DEF TypeInv, ForgetsTyped, Reload
<1>5. HistoryTyped'
  <2>1. \A t \in Task : task[d][t].pc = "persist" => Key(d, t) \in Group \X Device
    BY KeyTyped DEF TypeInv
  <2>2. unrecorded' \subseteq Device \X (Group \X Device)
    BY <2>1 DEF TypeInv, HistoryTyped, Reload
  <2> QED
    BY <2>2, DeviceAssumption DEF TypeInv, HistoryTyped, Reload, Fault
<1> QED
  BY <1>1, <1>2, <1>3, <1>4, <1>5, Kept DEF TypeInv, Reload

LEMMA InitTyped == Init => TypeInv
<1> SUFFICES ASSUME Init PROVE TypeInv
  OBVIOUS
<1>1. \A g \in Group : <<[dev |-> Creator[g], kp |-> 0]>> \in Seq(Leaf \union {None})
  BY IdleTyped, DeviceAssumption DEF Leaf
<1>2. RelayTyped
  BY <1>1, IdleTyped DEF Init, RelayTyped
<1>3. MemberTyped /\ InboxTyped /\ StoresTyped
  BY IdleTyped DEF Init, MemberTyped, InboxTyped, StoresTyped
<1>4. WorkersTyped /\ CachedTyped
  BY IdleTyped DEF Init, WorkersTyped, JoiningTyped, CachedTyped
<1>5. TasksTyped /\ ForgetsTyped
  BY IdleTyped DEF Init, TasksTyped, ForgetsTyped
<1>6. HistoryTyped
  BY DeviceAssumption DEF Init, HistoryTyped
<1> QED
  BY <1>2, <1>3, <1>4, <1>5, <1>6 DEF TypeInv

LEMMA TypeStep == TypeInv /\ [Next]_vars => TypeInv'
<1> SUFFICES ASSUME TypeInv, [Next]_vars PROVE TypeInv'
  OBVIOUS
<1>1. CASE UNCHANGED vars
  BY <1>1, Kept DEF TypeInv, vars
<1>2. ASSUME NEW d \in Device, NEW w \in Worker,
             FirstUnread(d, w) \/ LiveUnread(d, w) \/ WorkerStep(d, w)
      PROVE  TypeInv'
  BY <1>2, UnreadTyped, JoinTyped, JoinFailsTyped, ReadJoinedTyped, MarkGroupJoinedTyped,
     AppendFailedWelcomeTyped, ReadFailedTyped, RunRejectsTyped DEF WorkerStep
<1>3. ASSUME NEW d \in Device, NEW t \in Task, TaskStep(d, t)
      PROVE  TypeInv'
  BY <1>3, CheckSlotTyped, NextGroupTyped, ReserveTyped, InviteTyped, InviteFailsTyped,
     PersistInvitedKeyTyped, PersistFailsTyped DEF TaskStep
<1>4. ASSUME NEW d \in Device, ForgetStep(d)
      PROVE  TypeInv'
  BY <1>4, RequestKeyPackagesTyped, RequestFailsTyped, RemoveTyped, RetryTyped,
     ForgetFailsTyped, MarkSlotForgottenTyped, RefreshForgottenTyped DEF ForgetStep, RemoveLeaf
<1>5. ASSUME NEW d \in Device, NEW t \in Task, NEW s \in Device,
             HandleKeyPackageEvent(d, t, s) \/ SyncKnown(d, t, s)
      PROVE  TypeInv'
  BY <1>5, HandleKeyPackageEventTyped
<1>6. ASSUME NEW d \in Device, NEW s \in Device, ForgetSiblingDevice(d, s)
      PROVE  TypeInv'
  BY <1>6, ForgetSiblingDeviceTyped
<1>7. ASSUME NEW d \in Device, FirstFails(d) \/ Rotate(d) \/ CreateKeyPackage(d) \/ Reload(d)
      PROVE  TypeInv'
  BY <1>7, FirstFailsTyped, RotateTyped, ReloadTyped
<1> QED
  BY <1>1, <1>2, <1>3, <1>4, <1>5, <1>6, <1>7 DEF Next

\* The types are an invariant.
LEMMA TypeInvHolds == Spec => []TypeInv
BY InitTyped, TypeStep, PTL DEF Spec

\* Every reachable state has its types, for any devices, groups and bounds.
THEOREM TypeCorrect == Spec => []TypeOK
<1>1. TypeInv => TypeOK
  BY DEF TypeInv, TypeOK, WorkersTyped, TasksTyped, ForgetsTyped
<1> QED
  BY <1>1, TypeInvHolds, PTL

----------------------------------------------------------------------------
(* Who moves which continuation. *)

\* The run w of d is now at `to`; all others are where they were.
OnlyWorker(d, w, to) ==
  \A e \in Device, v \in Worker : worker'[e][v] = IF e = d /\ v = w THEN to ELSE worker[e][v]

OnlyTask(d, t, to) ==
  \A e \in Device, u \in Task : task'[e][u] = IF e = d /\ u = t THEN to ELSE task[e][u]

LEMMA OneWorker ==
  ASSUME TypeInv, NEW d \in Device, NEW w \in Worker, NEW to, StepWorker(d, w, to)
  PROVE  OnlyWorker(d, w, to)
BY DEF TypeInv, WorkersTyped, JoiningTyped, StepWorker, OnlyWorker

LEMMA OneTask ==
  ASSUME TypeInv, NEW d \in Device, NEW t \in Task, NEW to, StepTask(d, t, to)
  PROVE  OnlyTask(d, t, to)
BY DEF TypeInv, TasksTyped, StepTask, OnlyTask

\* A turn begins with its barrier set, or the run is over and the barrier is clear.
LEMMA TurnMoves ==
  ASSUME TypeInv, NEW d \in Device, NEW w \in Worker, NEW todo, Turn(d, w, todo)
  PROVE  \E to :
           /\ OnlyWorker(d, w, to)
           /\ \/ to = IdleWorker /\ joinBarrier' = [joinBarrier EXCEPT ![d] = None]
              \/ to.pc = "join" /\ joinBarrier' = [joinBarrier EXCEPT ![d] = w]
<1>1. CASE StepWorker(d, w, IdleWorker) /\ joinBarrier' = [joinBarrier EXCEPT ![d] = None]
  BY <1>1, OneWorker
<1>2. CASE \E i \in todo : /\ StepWorker(d, w, [pc |-> "join", todo |-> todo \ {i}, cur |-> i])
                           /\ joinBarrier' = [joinBarrier EXCEPT ![d] = w]
  BY <1>2, OneWorker
<1> QED
  BY <1>1, <1>2 DEF Turn

LEMMA UnreadTurn ==
  ASSUME NEW d, NEW w, FirstUnread(d, w) \/ LiveUnread(d, w)
  PROVE  worker[d][w] = IdleWorker /\ \E todo : Turn(d, w, todo)
BY DEF FirstUnread, LiveUnread

\* A handler takes the barrier of its device when it starts, and no other later.
LEMMA TaskMoves ==
  ASSUME TypeInv, NEW d \in Device, NEW t \in Task, TaskStep(d, t)
  PROVE  \E to : OnlyTask(d, t, to) /\ to.wait \in {None, task[d][t].wait}
<1> DEFINE k == task[d][t]
<1>1. k \in TaskState
  BY DEF TypeInv, TasksTyped
<1>2. NextTurn(k).wait \in {None, k.wait}
  BY <1>1, IdleTyped DEF NextTurn, TaskState
<1>3. CASE CheckSlot(d, t)
  <2>1. LET l == [k EXCEPT !.todo = Loaded(d)] IN l \in TaskState /\ l.wait = k.wait
    BY <1>1 DEF TaskState, Loaded
  <2>2. NextTurn([k EXCEPT !.todo = Loaded(d)]).wait \in {None, k.wait}
    BY <2>1, IdleTyped DEF NextTurn, TaskState
  <2>3. \/ StepTask(d, t, IdleTask)
        \/ StepTask(d, t, NextTurn([k EXCEPT !.todo = Loaded(d)]))
    BY <1>3 DEF CheckSlot
  <2> QED
    BY <2>2, <2>3, IdleTyped, OneTask
<1>4. CASE NextGroup(d, t)
  <2>1. PICK g \in k.todo :
          \/ StepTask(d, t, NextTurn([k EXCEPT !.todo = @ \ {g}]))
          \/ StepTask(d, t, [k EXCEPT !.todo = @ \ {g}, !.pc = "list", !.group = g])
    BY <1>4 DEF NextGroup
  <2>2. LET l == [k EXCEPT !.todo = @ \ {g}] IN l \in TaskState /\ l.wait = k.wait
    BY <1>1 DEF TaskState
  <2>3. NextTurn([k EXCEPT !.todo = @ \ {g}]).wait \in {None, k.wait}
    BY <2>2, IdleTyped DEF NextTurn, TaskState
  <2>4. [k EXCEPT !.todo = @ \ {g}, !.pc = "list", !.group = g].wait = k.wait
    BY <1>1 DEF TaskState
  <2> QED
    BY <2>1, <2>3, <2>4, OneTask
<1>5. CASE Reserve(d, t)
  <2>1. [k EXCEPT !.pc = "invite"].wait = k.wait
    BY <1>1 DEF TaskState
  <2>2. StepTask(d, t, NextTurn(k)) \/ StepTask(d, t, [k EXCEPT !.pc = "invite"])
    BY <1>5 DEF Reserve
  <2> QED
    BY <1>2, <2>1, <2>2, OneTask
<1>6. CASE Invite(d, t)
  <2>1. [k EXCEPT !.pc = "persist"].wait = k.wait
    BY <1>1 DEF TaskState
  <2> QED
    BY <1>6, <2>1, OneTask DEF Invite
<1>7. CASE InviteFails(d, t) \/ PersistInvitedKey(d, t) \/ PersistFails(d, t)
  BY <1>2, <1>7, OneTask DEF InviteFails, PersistInvitedKey, PersistFails, EndInvite
<1> QED
  BY <1>3, <1>4, <1>5, <1>6, <1>7 DEF TaskStep

----------------------------------------------------------------------------
(* The barrier. *)

\* Inductive: the variable, too, names a run that is in a turn.
BarrierInv ==
  \A d \in Device :
    /\ joinBarrier[d] # None => worker[d][joinBarrier[d]].pc # "idle"
    /\ \A t \in Task : task[d][t].wait # None => worker[d][task[d][t].wait].pc # "idle"

LEMMA BarrierTyped ==
  ASSUME TypeInv, NEW d \in Device
  PROVE  /\ joinBarrier[d] \in Worker \union {None}
         /\ \A t \in Task : task[d][t].wait \in Worker \union {None}
BY DEF TypeInv, WorkersTyped, JoiningTyped, TasksTyped, TaskState

LEMMA BarrierWorker ==
  ASSUME TypeInv, BarrierInv, NEW d \in Device, NEW w \in Worker, NEW to, to.pc # "idle",
         OnlyWorker(d, w, to), UNCHANGED <<joinBarrier, task>>
  PROVE  BarrierInv'
BY BarrierTyped DEF BarrierInv, OnlyWorker

LEMMA BarrierTask ==
  ASSUME TypeInv, BarrierInv, NEW d \in Device, NEW t \in Task, NEW to,
         to.wait \in {None, task[d][t].wait, joinBarrier[d]},
         OnlyTask(d, t, to), UNCHANGED <<joinBarrier, worker>>
  PROVE  BarrierInv'
BY DEF BarrierInv, OnlyTask

LEMMA BarrierTurn ==
  ASSUME TypeInv, BarrierInv, NEW d \in Device, NEW w \in Worker, NEW todo, Turn(d, w, todo),
         \A e \in Device, t \in Task :
           task'[e][t].wait \in {None, task[e][t].wait} /\ (e = d => task'[e][t].wait # w),
         None \notin Worker
  PROVE  BarrierInv'
<1>1. PICK to :
        /\ OnlyWorker(d, w, to)
        /\ \/ to = IdleWorker /\ joinBarrier' = [joinBarrier EXCEPT ![d] = None]
           \/ to.pc = "join" /\ joinBarrier' = [joinBarrier EXCEPT ![d] = w]
  BY TurnMoves
<1>2. joinBarrier \in [Device -> Worker \union {None}]
  BY DEF TypeInv, WorkersTyped, JoiningTyped
<1>3. ASSUME NEW e \in Device, joinBarrier'[e] # None
      PROVE  worker'[e][joinBarrier'[e]].pc # "idle"
  <2>1. CASE e = d
    BY <1>1, <1>2, <1>3, <2>1 DEF OnlyWorker
  <2>2. CASE e # d
    BY <1>1, <1>2, <1>3, <2>2 DEF OnlyWorker, BarrierInv
  <2> QED
    BY <2>1, <2>2
<1>4. ASSUME NEW e \in Device, NEW t \in Task, task'[e][t].wait # None
      PROVE  worker'[e][task'[e][t].wait].pc # "idle"
  BY <1>1, <1>4, BarrierTyped DEF OnlyWorker, BarrierInv
<1> QED
  BY <1>3, <1>4 DEF BarrierInv

\* The finally of a turn lets go of every handler that awaits its barrier.
LEMMA BarrierEndTurn ==
  ASSUME TypeInv, BarrierInv, NEW d \in Device, NEW w \in Worker, NEW todo,
         EndTurn(d, w, todo)
  PROVE  BarrierInv'
<1>1. None \notin Worker
  BY NoneAssumption
<1>2. \A e \in Device, t \in Task :
        task'[e][t].wait = IF e = d /\ task[e][t].wait = w THEN None ELSE task[e][t].wait
  BY ReleaseTyped DEF EndTurn, TypeInv
<1> QED
  BY <1>1, <1>2, BarrierTurn DEF EndTurn

LEMMA BarrierStep == TypeInv /\ BarrierInv /\ [Next]_vars => BarrierInv'
<1> SUFFICES ASSUME TypeInv, BarrierInv, [Next]_vars PROVE BarrierInv'
  OBVIOUS
<1>0. None \notin Worker
  BY NoneAssumption
<1>1. CASE UNCHANGED <<worker, joinBarrier, task>>
  BY <1>1 DEF BarrierInv
<1>2. ASSUME NEW d \in Device, NEW w \in Worker, FirstUnread(d, w) \/ LiveUnread(d, w)
      PROVE  BarrierInv'
  <2>1. PICK todo : Turn(d, w, todo)
    BY <1>2, UnreadTurn
  <2>2. worker[d][w].pc = "idle" /\ UNCHANGED task
    BY <1>2, UnreadTurn, IdleTyped DEF FirstUnread, LiveUnread
  <2>3. \A t \in Task : task[d][t].wait # w
    BY <1>0, <2>2 DEF BarrierInv
  <2> QED
    BY <1>0, <2>1, <2>2, <2>3, BarrierTurn
<1>3. ASSUME NEW d \in Device, NEW w \in Worker,
             Join(d, w) \/ JoinFails(d, w) \/ ReadJoined(d, w) \/ AppendFailedWelcome(d, w)
      PROVE  BarrierInv'
  <2>1. worker[d][w] \in WorkerState
    BY DEF TypeInv, WorkersTyped, JoiningTyped
  <2>2. PICK p \in {"readJoined", "log", "mark", "readFailed"} :
          StepWorker(d, w, [worker[d][w] EXCEPT !.pc = p])
    BY <1>3 DEF Join, JoinFails, ReadJoined, AppendFailedWelcome
  <2>3. [worker[d][w] EXCEPT !.pc = p].pc # "idle"
    BY <2>1 DEF WorkerState
  <2>4. UNCHANGED <<joinBarrier, task>>
    BY <1>3 DEF Join, JoinFails, ReadJoined, AppendFailedWelcome
  <2> QED
    BY <2>2, <2>3, <2>4, OneWorker, BarrierWorker
<1>4. ASSUME NEW d \in Device, NEW w \in Worker,
             MarkGroupJoined(d, w) \/ ReadFailed(d, w) \/ RunRejects(d, w)
      PROVE  BarrierInv'
  BY <1>4, BarrierEndTurn DEF MarkGroupJoined, ReadFailed, RunRejects
<1>5. ASSUME NEW d \in Device, NEW t \in Task, TaskStep(d, t)
      PROVE  BarrierInv'
  <2>1. UNCHANGED <<joinBarrier, worker>>
    BY <1>5 DEF TaskStep, CheckSlot, NextGroup, Reserve, Invite, InviteFails, PersistInvitedKey,
       PersistFails
  <2> QED
    BY <1>5, <2>1, TaskMoves, BarrierTask
<1>6. ASSUME NEW d \in Device, NEW t \in Task, NEW s \in Device,
             HandleKeyPackageEvent(d, t, s) \/ SyncKnown(d, t, s)
      PROVE  BarrierInv'
  <2>1. PICK v : StartTask(d, t, s, v)
    BY <1>6 DEF HandleKeyPackageEvent, SyncKnown
  <2> DEFINE to == [IdleTask EXCEPT !.pc = "wait", !.slot = s, !.kp = v, !.wait = joinBarrier[d]]
  <2>2. to.wait = joinBarrier[d]
    BY DEF IdleTask
  <2>3. StepTask(d, t, to) /\ UNCHANGED <<joinBarrier, worker>>
    BY <2>1 DEF StartTask
  <2> HIDE DEF to
  <2> QED
    BY <2>2, <2>3, OneTask, BarrierTask
<1>7. ASSUME NEW d \in Device, Reload(d)
      PROVE  BarrierInv'
  <2>1. /\ \A e \in Device \ {d} : /\ worker'[e] = worker[e] /\ joinBarrier'[e] = joinBarrier[e]
                                   /\ task'[e] = task[e]
        /\ joinBarrier'[d] = None /\ \A t \in Task : task'[d][t] = IdleTask
    BY <1>7 DEF Reload, TypeInv, WorkersTyped, JoiningTyped, TasksTyped
  <2> QED
    BY <2>1, IdleTyped DEF BarrierInv
<1>8. ASSUME NEW d \in Device, ForgetStep(d) \/ FirstFails(d) \/ Rotate(d) \/ CreateKeyPackage(d)
      PROVE  UNCHANGED <<worker, joinBarrier, task>>
  BY <1>8 DEF ForgetStep, RequestKeyPackages, RequestFails, RemoveLeaf, Remove, RemoveIsStale,
     RetryRemove, ForgetFails, MarkSlotForgotten, RefreshForgotten, FirstFails, Rotate,
     CreateKeyPackage
<1>9. ASSUME NEW d \in Device, NEW s \in Device, ForgetSiblingDevice(d, s)
      PROVE  UNCHANGED <<worker, joinBarrier, task>>
  BY <1>9 DEF ForgetSiblingDevice
<1>10. CASE UNCHANGED vars
  BY <1>1, <1>10 DEF vars
<1> QED
  BY <1>1, <1>2, <1>3, <1>4, <1>5, <1>6, <1>7, <1>8, <1>9, <1>10 DEF Next, WorkerStep

\* A KeyPackage handler never awaits the barrier of a run that is over, however
\* many runs overwrite and clear the one joinBarrier.
THEOREM BarriersAreHeld == Spec => []BarrierIsHeld
<1>1. Init => BarrierInv
  BY IdleTyped DEF Init, BarrierInv
<1>2. BarrierInv => BarrierIsHeld
  BY IdleTyped DEF BarrierInv, BarrierIsHeld
<1> QED
  BY <1>1, <1>2, BarrierStep, TypeInvHolds, PTL DEF Spec

----------------------------------------------------------------------------
(* Welcomes. *)

\* d has the group of i, and i is for d.
HasGroup(d, i) == i.dev = d /\ i.group \in Group /\ own[d][i.group] # None

\* Inductive: a run about to mark its Welcome as read has joined the group, or has
\* put the failure on record.
AccountInv ==
  /\ \A d \in Device : \A i \in read[d] : i \in failed[d] \/ HasGroup(d, i)
  /\ \A d \in Device, w \in Worker :
       /\ worker[d][w].pc = "readJoined" => HasGroup(d, worker[d][w].cur)
       /\ worker[d][w].pc = "readFailed" => worker[d][w].cur \in failed[d]

Grows(d) ==
  /\ \A g \in Group : own[d][g] # None => own'[d][g] # None
  /\ failed[d] \subseteq failed'[d]

\* Groups stay loaded, and failures on record.
LEMMA AccountsGrow ==
  ASSUME TypeInv, [Next]_vars, NEW d \in Device
  PROVE  Grows(d)
<1>1. CASE UNCHANGED <<own, failed>>
  BY <1>1 DEF Grows
<1>2. ASSUME NEW e \in Device, NEW w \in Worker, Join(e, w)
      PROVE  Grows(d)
  <2>1. worker[e][w].cur.kp \in Version
    BY <1>2 DEF Join, TypeInv, WorkersTyped, Welcome
  <2>2. worker[e][w].cur.kp # None
    BY <2>1, NoneAssumption, DeviceAssumption DEF Version
  <2> QED
    BY <1>2, <2>2 DEF Join, Grows, TypeInv, MemberTyped
<1>3. ASSUME NEW e \in Device, NEW w \in Worker, AppendFailedWelcome(e, w)
      PROVE  Grows(d)
  BY <1>3 DEF AppendFailedWelcome, Grows, TypeInv, InboxTyped
<1>4. ASSUME NEW e \in Device, NEW w \in Worker,
             \/ FirstUnread(e, w) \/ LiveUnread(e, w) \/ JoinFails(e, w)
             \/ ReadJoined(e, w) \/ MarkGroupJoined(e, w) \/ ReadFailed(e, w) \/ RunRejects(e, w)
      PROVE  UNCHANGED <<own, failed>>
  BY <1>4 DEF FirstUnread, LiveUnread, JoinFails, ReadJoined, MarkGroupJoined, ReadFailed,
     RunRejects
<1>5. ASSUME NEW e \in Device, NEW t \in Task, TaskStep(e, t)
      PROVE  UNCHANGED <<own, failed>>
  BY <1>5 DEF TaskStep, CheckSlot, NextGroup, Reserve, Invite, InviteFails, PersistInvitedKey,
     PersistFails
<1>6. ASSUME NEW e \in Device, NEW t \in Task, NEW s \in Device,
             HandleKeyPackageEvent(e, t, s) \/ SyncKnown(e, t, s)
      PROVE  UNCHANGED <<own, failed>>
  BY <1>6 DEF HandleKeyPackageEvent, SyncKnown, StartTask
<1>7. ASSUME NEW e \in Device, ForgetStep(e) \/ \E s \in Device : ForgetSiblingDevice(e, s)
      PROVE  UNCHANGED <<own, failed>>
  BY <1>7 DEF ForgetStep, RequestKeyPackages, RequestFails, RemoveLeaf, Remove, RemoveIsStale,
     RetryRemove, ForgetFails, MarkSlotForgotten, RefreshForgotten, ForgetSiblingDevice
<1>8. ASSUME NEW e \in Device,
             FirstFails(e) \/ Rotate(e) \/ CreateKeyPackage(e) \/ Reload(e)
      PROVE  UNCHANGED <<own, failed>>
  BY <1>8 DEF FirstFails, Rotate, CreateKeyPackage, Reload
<1>9. CASE UNCHANGED vars
  BY <1>1, <1>9 DEF vars
<1> QED
  BY <1>1, <1>2, <1>3, <1>4, <1>5, <1>6, <1>7, <1>8, <1>9 DEF Next, WorkerStep

\* Nothing new is read, and the run that moves, if any, is not about to read.
LEMMA AccountQuiet ==
  ASSUME AccountInv, UNCHANGED read,
         \A d \in Device : Grows(d),
         \A d \in Device, w \in Worker :
           worker'[d][w] = worker[d][w] \/ worker'[d][w].pc \notin {"readJoined", "readFailed"}
  PROVE  AccountInv'
BY DEF AccountInv, HasGroup, Grows

LEMMA AccountStep == TypeInv /\ AccountInv /\ [Next]_vars => AccountInv'
<1> SUFFICES ASSUME TypeInv, AccountInv, [Next]_vars PROVE AccountInv'
  OBVIOUS
<1>0. \A d \in Device : Grows(d)
  BY AccountsGrow
<1>1. CASE UNCHANGED <<worker, read>>
  BY <1>0, <1>1, AccountQuiet
<1>2. ASSUME NEW d \in Device, NEW w \in Worker, FirstUnread(d, w) \/ LiveUnread(d, w)
      PROVE  AccountInv'
  <2>1. PICK to : OnlyWorker(d, w, to) /\ to.pc \in {"idle", "join"}
    BY <1>2, UnreadTurn, TurnMoves, IdleTyped
  <2>2. UNCHANGED read
    BY <1>2 DEF FirstUnread, LiveUnread
  <2> QED
    BY <1>0, <2>1, <2>2, AccountQuiet DEF OnlyWorker
<1>3. ASSUME NEW d \in Device, NEW w \in Worker, Join(d, w)
      PROVE  AccountInv'
  <2> DEFINE to == [worker[d][w] EXCEPT !.pc = "readJoined"]
             i == worker[d][w].cur
  <2>1. worker[d][w] \in WorkerState /\ i \in Welcome /\ i.group \in Group /\ i.kp \in Version
    BY <1>3 DEF Join, TypeInv, WorkersTyped, JoiningTyped, Welcome
  <2>2. OnlyWorker(d, w, to) /\ to.pc = "readJoined" /\ to.cur = i
    BY <1>3, <2>1, OneWorker DEF Join, WorkerState
  <2>3. i.kp # None
    BY <2>1, NoneAssumption, DeviceAssumption DEF Version
  <2>4. i.dev = d /\ own'[d][i.group] # None
    BY <1>3, <2>1, <2>3 DEF Join, TypeInv, MemberTyped
  <2>5. UNCHANGED read
    BY <1>3 DEF Join
  <2> HIDE DEF to
  <2> QED
    BY <1>0, <2>1, <2>2, <2>4, <2>5 DEF AccountInv, OnlyWorker, HasGroup, Grows
<1>4. ASSUME NEW d \in Device, NEW w \in Worker, JoinFails(d, w)
      PROVE  AccountInv'
  <2>1. worker[d][w] \in WorkerState
    BY DEF TypeInv, WorkersTyped, JoiningTyped
  <2>2. OnlyWorker(d, w, [worker[d][w] EXCEPT !.pc = "log"])
    BY <1>4, OneWorker DEF JoinFails
  <2>3. [worker[d][w] EXCEPT !.pc = "log"].pc = "log" /\ UNCHANGED read
    BY <1>4, <2>1 DEF WorkerState, JoinFails
  <2> QED
    BY <1>0, <2>2, <2>3, AccountQuiet DEF OnlyWorker
<1>5. ASSUME NEW d \in Device, NEW w \in Worker, ReadJoined(d, w)
      PROVE  AccountInv'
  <2> DEFINE to == [worker[d][w] EXCEPT !.pc = "mark"]
  <2>1. worker[d][w] \in WorkerState
    BY DEF TypeInv, WorkersTyped, JoiningTyped
  <2>2. OnlyWorker(d, w, to) /\ to.pc = "mark"
    BY <1>5, <2>1, OneWorker DEF ReadJoined, WorkerState
  <2>3. read' = [read EXCEPT ![d] = @ \union {worker[d][w].cur}]
    BY <1>5 DEF ReadJoined, MarkAsRead
  <2>4. HasGroup(d, worker[d][w].cur)
    BY <1>5 DEF ReadJoined, AccountInv
  <2>5. \A e \in Device : \A i \in read'[e] : i \in read[e] \/ (e = d /\ i = worker[d][w].cur)
    BY <2>3 DEF TypeInv, InboxTyped
  <2> HIDE DEF to
  <2> QED
    BY <1>0, <2>2, <2>4, <2>5 DEF AccountInv, OnlyWorker, HasGroup, Grows
<1>6. ASSUME NEW d \in Device, NEW w \in Worker, AppendFailedWelcome(d, w)
      PROVE  AccountInv'
  <2> DEFINE to == [worker[d][w] EXCEPT !.pc = "readFailed"]
             i == worker[d][w].cur
  <2>1. worker[d][w] \in WorkerState
    BY DEF TypeInv, WorkersTyped, JoiningTyped
  <2>2. OnlyWorker(d, w, to) /\ to.pc = "readFailed" /\ to.cur = i
    BY <1>6, <2>1, OneWorker DEF AppendFailedWelcome, WorkerState
  <2>3. i \in failed'[d] /\ UNCHANGED read
    BY <1>6 DEF AppendFailedWelcome, TypeInv, InboxTyped
  <2> HIDE DEF to
  <2> QED
    BY <1>0, <2>2, <2>3 DEF AccountInv, OnlyWorker, HasGroup, Grows
<1>7. ASSUME NEW d \in Device, NEW w \in Worker, MarkGroupJoined(d, w) \/ RunRejects(d, w)
      PROVE  AccountInv'
  <2>1. PICK to : OnlyWorker(d, w, to) /\ to.pc \in {"idle", "join"}
    BY <1>7, TurnMoves, IdleTyped DEF MarkGroupJoined, RunRejects, EndTurn
  <2>2. UNCHANGED read
    BY <1>7 DEF MarkGroupJoined, RunRejects
  <2> QED
    BY <1>0, <2>1, <2>2, AccountQuiet DEF OnlyWorker
<1>8. ASSUME NEW d \in Device, NEW w \in Worker, ReadFailed(d, w)
      PROVE  AccountInv'
  <2>1. PICK to : OnlyWorker(d, w, to) /\ to.pc \in {"idle", "join"}
    BY <1>8, TurnMoves, IdleTyped DEF ReadFailed, EndTurn
  <2>2. read' = [read EXCEPT ![d] = @ \union {worker[d][w].cur}]
    BY <1>8 DEF ReadFailed, MarkAsRead
  <2>3. worker[d][w].cur \in failed[d]
    BY <1>8 DEF ReadFailed, AccountInv
  <2>4. \A e \in Device : \A i \in read'[e] : i \in read[e] \/ (e = d /\ i = worker[d][w].cur)
    BY <2>2 DEF TypeInv, InboxTyped
  <2> QED
    BY <1>0, <2>1, <2>3, <2>4 DEF AccountInv, OnlyWorker, HasGroup, Grows
<1>9. ASSUME NEW d \in Device, Reload(d)
      PROVE  AccountInv'
  <2>1. \A e \in Device, v \in Worker :
          worker'[e][v] = worker[e][v] \/ worker'[e][v] = IdleWorker
    BY <1>9 DEF Reload, TypeInv, WorkersTyped, JoiningTyped
  <2>2. UNCHANGED read
    BY <1>9 DEF Reload
  <2> QED
    BY <1>0, <2>1, <2>2, IdleTyped, AccountQuiet
<1>10. ASSUME NEW d \in Device, NEW t \in Task, TaskStep(d, t)
       PROVE  UNCHANGED <<worker, read>>
  BY <1>10 DEF TaskStep, CheckSlot, NextGroup, Reserve, Invite, InviteFails, PersistInvitedKey,
     PersistFails
<1>11. ASSUME NEW d \in Device, NEW t \in Task, NEW s \in Device,
              HandleKeyPackageEvent(d, t, s) \/ SyncKnown(d, t, s)
       PROVE  UNCHANGED <<worker, read>>
  BY <1>11 DEF HandleKeyPackageEvent, SyncKnown, StartTask
<1>12. ASSUME NEW d \in Device, ForgetStep(d) \/ \E s \in Device : ForgetSiblingDevice(d, s)
       PROVE  UNCHANGED <<worker, read>>
  BY <1>12 DEF ForgetStep, RequestKeyPackages, RequestFails, RemoveLeaf, Remove, RemoveIsStale,
     RetryRemove, ForgetFails, MarkSlotForgotten, RefreshForgotten, ForgetSiblingDevice
<1>13. ASSUME NEW d \in Device, FirstFails(d) \/ Rotate(d) \/ CreateKeyPackage(d)
       PROVE  UNCHANGED <<worker, read>>
  BY <1>13 DEF FirstFails, Rotate, CreateKeyPackage
<1>14. CASE UNCHANGED vars
  BY <1>1, <1>14 DEF vars
<1> QED
  BY <1>1, <1>2, <1>3, <1>4, <1>5, <1>6, <1>7, <1>8, <1>9, <1>10, <1>11, <1>12, <1>13, <1>14
     DEF Next, WorkerStep

\* No Welcome is taken off the unread list before the group is loaded or the failure
\* is on record, whatever runs beside it and wherever the page is reloaded.
THEOREM WelcomesAreAccounted == Spec => []WelcomeAccounted
<1>1. Init => AccountInv
  BY IdleTyped DEF Init, AccountInv
<1>2. AccountInv => WelcomeAccounted
  BY DEF AccountInv, HasGroup, WelcomeAccounted, Loaded
<1> QED
  BY <1>1, <1>2, AccountStep, TypeInvHolds, PTL DEF Spec

----------------------------------------------------------------------------
(* Invites. *)

Inviting == {"invite", "persist"}

\* Inductive: a Welcome's key is in the cache of its sender, or a reload lost it; what is
\* cached is in the store or about to be, or the write failed; two handlers never hold one
\* key, and one that has yet to send holds a key that is not cached.
InviteInv ==
  /\ \A i \in welcomes :
       \/ <<i.group, i.dev>> \in invited[i.from]
       \/ <<i.from, <<i.group, i.dev>>>> \in unrecorded
  /\ \A d \in Device : \A key \in invited[d] :
       \/ key \in invitedKeys[d] \/ <<d, key>> \in unrecorded
       \/ \E t \in Task : task[d][t].pc = "persist" /\ Key(d, t) = key
  /\ \A d \in Device, t \in Task :
       task[d][t].pc \in Inviting =>
         /\ Key(d, t) \in pendingInvites[d]
         /\ task[d][t].pc = "invite" => Key(d, t) \notin invited[d]
         /\ \A u \in Task \ {t} : task[d][u].pc \in Inviting => Key(d, u) # Key(d, t)
  /\ OneWelcomePerSlot

\* A handler is where it was, as far as invites go.
SameTask(d, t) ==
  /\ task'[d][t].pc = task[d][t].pc
  /\ task'[d][t].slot = task[d][t].slot /\ task'[d][t].group = task[d][t].group

LEMMA SameKey ==
  ASSUME NEW d, NEW t, SameTask(d, t)
  PROVE  Key(d, t)' = Key(d, t)
BY DEF SameTask, Key, DedupKey

\* Whatever writes none of the invite's state keeps it accounted for.
LEMMA InviteQuiet ==
  ASSUME InviteInv, UNCHANGED <<welcomes, invited, invitedKeys, pendingInvites, unrecorded>>,
         \A d \in Device, t \in Task :
           SameTask(d, t) \/ (task[d][t].pc \notin Inviting /\ task'[d][t].pc \notin Inviting)
  PROVE  InviteInv'
<1>1. \A d \in Device, t \in Task :
        task'[d][t].pc \in Inviting \/ task[d][t].pc \in Inviting
          => task'[d][t].pc = task[d][t].pc /\ Key(d, t)' = Key(d, t)
  BY SameKey DEF SameTask
<1>2. \A d \in Device : \A key \in invited[d] :
        \/ key \in invitedKeys[d] \/ <<d, key>> \in unrecorded
        \/ \E t \in Task : task'[d][t].pc = "persist" /\ Key(d, t)' = key
  <2>  TAKE d \in Device
  <2>1. TAKE key \in invited[d]
  <2>2. CASE key \in invitedKeys[d] \/ <<d, key>> \in unrecorded
    BY <2>2
  <2>3. CASE \E t \in Task : task[d][t].pc = "persist" /\ Key(d, t) = key
    BY <1>1, <2>3 DEF Inviting
  <2> QED
    BY <2>2, <2>3 DEF InviteInv
<1>3. \A d \in Device, t \in Task :
       task'[d][t].pc \in Inviting =>
         /\ Key(d, t)' \in pendingInvites[d]
         /\ task'[d][t].pc = "invite" => Key(d, t)' \notin invited[d]
         /\ \A u \in Task \ {t} : task'[d][u].pc \in Inviting => Key(d, u)' # Key(d, t)'
  BY <1>1 DEF InviteInv
<1>4. OneWelcomePerSlot'
  BY DEF InviteInv, OneWelcomePerSlot
<1> QED
  BY <1>2, <1>3, <1>4 DEF InviteInv

\* One handler has moved, to or from outside an invite.
LEMMA InviteQuietTask ==
  ASSUME InviteInv, UNCHANGED <<welcomes, invited, invitedKeys, pendingInvites, unrecorded>>,
         NEW d \in Device, NEW t \in Task, NEW to, OnlyTask(d, t, to),
         task[d][t].pc \notin Inviting, to.pc \notin Inviting
  PROVE  InviteInv'
<1>1. \A e \in Device, u \in Task :
        SameTask(e, u) \/ (task[e][u].pc \notin Inviting /\ task'[e][u].pc \notin Inviting)
  BY DEF OnlyTask, SameTask
<1> QED
  BY <1>1, InviteQuiet

LEMMA ReserveKeeps ==
  ASSUME TypeInv, InviteInv, NEW d \in Device, NEW t \in Task, Reserve(d, t)
  PROVE  InviteInv'
<1> DEFINE k == task[d][t]
           to == [k EXCEPT !.pc = "invite"]
<1>1. k \in TaskState /\ k.slot \in Device /\ k.pc = "list"
  BY DEF TypeInv, TasksTyped, Reserve
<1>2. UNCHANGED <<welcomes, invited, invitedKeys, unrecorded>>
  BY DEF Reserve
<1>3. CASE StepTask(d, t, NextTurn(k)) /\ UNCHANGED pendingInvites
  <2>1. OnlyTask(d, t, NextTurn(k)) /\ NextTurn(k).pc \in {"idle", "groups"}
    BY <1>1, <1>3, OneTask, NextTurnTyped
  <2> QED
    BY <1>1, <1>2, <1>3, <2>1, InviteQuietTask DEF Inviting
<1>4. CASE /\ Key(d, t) \notin invited[d] \union pendingInvites[d]
           /\ StepTask(d, t, to)
           /\ pendingInvites' = [pendingInvites EXCEPT ![d] = @ \union {Key(d, t)}]
  <2>1. OnlyTask(d, t, to) /\ to.pc = "invite" /\ to.slot = k.slot /\ to.group = k.group
    BY <1>1, <1>4, OneTask DEF TaskState
  <2> HIDE DEF to
  <2>2. Key(d, t)' = Key(d, t)
    BY <2>1 DEF OnlyTask, Key, DedupKey
  <2>3. \A e \in Device, u \in Task : ~(e = d /\ u = t) =>
          task'[e][u] = task[e][u] /\ Key(e, u)' = Key(e, u)
    BY <2>1 DEF OnlyTask, Key, DedupKey
  <2>4. \A e \in Device : /\ pendingInvites[e] \subseteq pendingInvites'[e]
                          /\ Key(d, t) \in pendingInvites'[d]
    BY <1>4 DEF TypeInv, CachedTyped
  <2>5. task'[d][t].pc = "invite"
    BY <2>1 DEF OnlyTask
  <2>6. \A e \in Device : \A key \in invited[e] :
          \/ key \in invitedKeys[e] \/ <<e, key>> \in unrecorded
          \/ \E u \in Task : task'[e][u].pc = "persist" /\ Key(e, u)' = key
    <3>  TAKE e \in Device
    <3>1. TAKE key \in invited[e]
    <3>2. CASE key \in invitedKeys[e] \/ <<e, key>> \in unrecorded
      BY <3>2
    <3>3. CASE \E u \in Task : task[e][u].pc = "persist" /\ Key(e, u) = key
      <4>1. PICK u \in Task : task[e][u].pc = "persist" /\ Key(e, u) = key
        BY <3>3
      <4>2. ~(e = d /\ u = t)
        BY <1>1, <4>1
      <4> QED
        BY <2>3, <4>1, <4>2
    <3> QED
      BY <3>2, <3>3 DEF InviteInv
  <2>7. ASSUME NEW e \in Device, NEW u \in Task, task'[e][u].pc \in Inviting
        PROVE  /\ Key(e, u)' \in pendingInvites'[e]
               /\ task'[e][u].pc = "invite" => Key(e, u)' \notin invited[e]
               /\ \A v \in Task \ {u} : task'[e][v].pc \in Inviting => Key(e, v)' # Key(e, u)'
    <3>1. CASE e = d /\ u = t
      BY <1>4, <2>2, <2>3, <2>4, <3>1 DEF InviteInv
    <3>2. CASE ~(e = d /\ u = t)
      <4>1. Key(e, u) \in pendingInvites[e]
        BY <2>3, <2>7, <3>2 DEF InviteInv
      <4> QED
        BY <1>4, <2>2, <2>3, <2>4, <2>7, <3>2, <4>1 DEF InviteInv
    <3> QED
      BY <3>1, <3>2
  <2>8. OneWelcomePerSlot'
    BY <1>2 DEF InviteInv, OneWelcomePerSlot
  <2> QED
    BY <1>2, <2>6, <2>7, <2>8 DEF InviteInv
<1> QED
  <2>1. pendingInvites = [pendingInvites EXCEPT ![d] = @]
    BY DEF TypeInv, CachedTyped
  <2> QED
    BY <1>3, <1>4, <2>1 DEF Reserve

LEMMA InviteKeeps ==
  ASSUME TypeInv, InviteInv, NEW d \in Device, NEW t \in Task, Invite(d, t)
  PROVE  InviteInv'
<1> DEFINE k == task[d][t]
           to == [k EXCEPT !.pc = "persist"]
           sent == [group |-> k.group, dev |-> k.slot, kp |-> k.kp, from |-> d]
<1>1. k \in TaskState /\ k.pc = "invite"
  BY DEF TypeInv, TasksTyped, Invite
<1>2. OnlyTask(d, t, to) /\ to.pc = "persist" /\ to.slot = k.slot /\ to.group = k.group
  BY <1>1, OneTask DEF TaskState, Invite
<1>3. /\ welcomes' = welcomes \union {sent}
      /\ Key(d, t) = <<sent.group, sent.dev>> /\ sent.from = d
      /\ invited' = [invited EXCEPT ![d] = @ \union {Key(d, t)}]
      /\ UNCHANGED <<invitedKeys, pendingInvites, unrecorded>>
  BY DEF Invite, Key, DedupKey
<1> HIDE DEF to, sent
<1>4. \A e \in Device, u \in Task :
        /\ Key(e, u)' = Key(e, u)
        /\ ~(e = d /\ u = t) => task'[e][u] = task[e][u]
  BY <1>2 DEF OnlyTask, Key, DedupKey
<1>5. \A e \in Device : invited'[e] = IF e = d THEN invited[d] \union {Key(d, t)} ELSE invited[e]
  BY <1>3 DEF TypeInv, CachedTyped
<1>6. task'[d][t].pc = "persist"
  BY <1>2 DEF OnlyTask
<1>7. Key(d, t) \notin invited[d]
  BY <1>1 DEF InviteInv, Inviting
<1>8. ASSUME NEW i \in welcomes'
      PROVE  \/ <<i.group, i.dev>> \in invited'[i.from]
             \/ <<i.from, <<i.group, i.dev>>>> \in unrecorded'
  <2>1. CASE i = sent
    BY <1>3, <1>5, <2>1
  <2>2. CASE i \in welcomes
    <3>1. i.from \in Device
      BY <2>2 DEF TypeInv, RelayTyped, Welcome
    <3>2. invited[i.from] \subseteq invited'[i.from]
      BY <1>5, <3>1
    <3> QED
      BY <1>3, <2>2, <3>2 DEF InviteInv
  <2> QED
    BY <1>3, <2>1, <2>2
<1>9. ASSUME NEW e \in Device, NEW key \in invited'[e]
      PROVE  \/ key \in invitedKeys'[e] \/ <<e, key>> \in unrecorded'
             \/ \E u \in Task : task'[e][u].pc = "persist" /\ Key(e, u)' = key
  <2>1. CASE e = d /\ key = Key(d, t)
    BY <1>4, <1>6, <2>1
  <2>2. CASE key \in invited[e]
    <3>1. \A u \in Task : task[e][u].pc = "persist" => ~(e = d /\ u = t)
      BY <1>1
    <3> QED
      BY <1>3, <1>4, <2>2, <3>1 DEF InviteInv
  <2> QED
    BY <1>5, <1>9, <2>1, <2>2
<1>10. ASSUME NEW e \in Device, NEW u \in Task, task'[e][u].pc \in Inviting
       PROVE  /\ Key(e, u)' \in pendingInvites'[e]
              /\ task'[e][u].pc = "invite" => Key(e, u)' \notin invited'[e]
              /\ \A v \in Task \ {u} : task'[e][v].pc \in Inviting => Key(e, v)' # Key(e, u)'
  <2>1. \A v \in Task : task'[e][v].pc \in Inviting => task[e][v].pc \in Inviting
    BY <1>1, <1>4 DEF Inviting
  <2>2. /\ Key(e, u) \in pendingInvites[e]
        /\ \A v \in Task \ {u} : task[e][v].pc \in Inviting => Key(e, v) # Key(e, u)
    BY <1>10, <2>1 DEF InviteInv
  <2>3. ASSUME task'[e][u].pc = "invite" PROVE Key(e, u) \notin invited'[e]
    <3>1. ~(e = d /\ u = t) /\ task[e][u].pc = "invite"
      BY <1>4, <1>6, <2>3
    <3>2. Key(e, u) \notin invited[e]
      BY <3>1 DEF InviteInv, Inviting
    <3>3. e = d => Key(e, u) # Key(d, t)
      BY <1>1, <2>2, <3>1 DEF Inviting
    <3> QED
      BY <1>5, <3>2, <3>3
  <2> QED
    BY <1>3, <1>4, <2>1, <2>2, <2>3
<1>11. OneWelcomePerSlot'
  <2>1. \A i \in welcomes : i.from = d /\ <<i.group, i.dev>> = Key(d, t) =>
          <<d, Key(d, t)>> \in unrecorded
    BY <1>7 DEF InviteInv
  <2> QED
    BY <1>3, <2>1 DEF InviteInv, OneWelcomePerSlot
<1> QED
  BY <1>8, <1>9, <1>10, <1>11 DEF InviteInv

\* The end of an invite: the handler gives its key back, and no other holds it.
LEMMA EndInviteKeeps ==
  ASSUME TypeInv, InviteInv, NEW d \in Device, NEW t \in Task, task[d][t].pc \in Inviting,
         EndInvite(d, t), UNCHANGED <<welcomes, invited>>, unrecorded \subseteq unrecorded',
         invitedKeys \in [Device -> SUBSET (Group \X Device)],
         \A e \in Device : invitedKeys[e] \subseteq invitedKeys'[e],
         task[d][t].pc = "persist" =>
           Key(d, t) \in invitedKeys'[d] \/ <<d, Key(d, t)>> \in unrecorded'
  PROVE  InviteInv'
<1> DEFINE k == task[d][t]
           to == NextTurn(k)
<1>1. k \in TaskState /\ k.slot \in Device
  BY DEF TypeInv, TasksTyped, Inviting
<1>2. OnlyTask(d, t, to) /\ to.pc \in {"idle", "groups"}
  BY <1>1, OneTask, NextTurnTyped DEF EndInvite
<1>3. \A e \in Device : pendingInvites'[e] = IF e = d THEN pendingInvites[d] \ {Key(d, t)}
                                             ELSE pendingInvites[e]
  BY DEF EndInvite, TypeInv, CachedTyped
<1> HIDE DEF to
<1>4. \A e \in Device, u \in Task : ~(e = d /\ u = t) =>
        task'[e][u] = task[e][u] /\ Key(e, u)' = Key(e, u)
  BY <1>2 DEF OnlyTask, Key, DedupKey
<1>5. task'[d][t].pc \notin Inviting
  BY <1>2 DEF OnlyTask, Inviting
<1>6. ASSUME NEW e \in Device, NEW key \in invited[e]
      PROVE  \/ key \in invitedKeys'[e] \/ <<e, key>> \in unrecorded'
             \/ \E u \in Task : task'[e][u].pc = "persist" /\ Key(e, u)' = key
  BY <1>4, <1>6 DEF InviteInv
<1>7. ASSUME NEW e \in Device, NEW u \in Task, task'[e][u].pc \in Inviting
      PROVE  /\ Key(e, u)' \in pendingInvites'[e]
             /\ task'[e][u].pc = "invite" => Key(e, u)' \notin invited[e]
             /\ \A v \in Task \ {u} : task'[e][v].pc \in Inviting => Key(e, v)' # Key(e, u)'
  <2>1. ~(e = d /\ u = t) /\ task[e][u].pc = task'[e][u].pc
    BY <1>4, <1>5, <1>7
  <2>2. e = d => Key(e, u) # Key(d, t)
    BY <1>7, <2>1 DEF InviteInv
  <2> QED
    BY <1>3, <1>4, <1>5, <1>7, <2>1, <2>2 DEF InviteInv
<1>8. OneWelcomePerSlot'
  BY DEF InviteInv, OneWelcomePerSlot
<1> QED
  BY <1>6, <1>7, <1>8 DEF InviteInv

\* A reload puts on record which published invites it kept from the store.
LEMMA ReloadKeeps ==
  ASSUME TypeInv, InviteInv, NEW d \in Device, Reload(d)
  PROVE  InviteInv'
<1>1. /\ \A e \in Device : invited'[e] = IF e = d THEN invitedKeys[d] ELSE invited[e]
      /\ \A e \in Device \ {d} : /\ pendingInvites'[e] = pendingInvites[e]
                                 /\ task'[e] = task[e]
      /\ \A t \in Task : task'[d][t] = IdleTask
      /\ UNCHANGED <<welcomes, invitedKeys>>
  BY DEF Reload, TypeInv, CachedTyped, TasksTyped
<1>2. /\ unrecorded \subseteq unrecorded'
      /\ \A t \in Task : task[d][t].pc = "persist" => <<d, Key(d, t)>> \in unrecorded'
  BY DEF Reload
<1>3. \A e \in Device \ {d}, t \in Task : task'[e][t] = task[e][t] /\ Key(e, t)' = Key(e, t)
  BY <1>1 DEF Key, DedupKey
<1>4. \A t \in Task : task'[d][t].pc \notin Inviting
  BY <1>1, IdleTyped DEF Inviting
<1>5. ASSUME NEW i \in welcomes
      PROVE  \/ <<i.group, i.dev>> \in invited'[i.from]
             \/ <<i.from, <<i.group, i.dev>>>> \in unrecorded'
  <2>1. i.from \in Device
    BY DEF TypeInv, RelayTyped, Welcome
  <2>2. CASE <<i.group, i.dev>> \in invited[i.from]
    BY <1>1, <1>2, <2>1, <2>2 DEF InviteInv
  <2>3. CASE <<i.from, <<i.group, i.dev>>>> \in unrecorded
    BY <1>2, <2>3
  <2> QED
    BY <2>2, <2>3 DEF InviteInv
<1>6. ASSUME NEW e \in Device, NEW key \in invited'[e]
      PROVE  \/ key \in invitedKeys[e] \/ <<e, key>> \in unrecorded'
             \/ \E u \in Task : task'[e][u].pc = "persist" /\ Key(e, u)' = key
  <2>1. CASE e = d
    BY <1>1, <1>6, <2>1
  <2>2. CASE e # d
    BY <1>1, <1>2, <1>3, <1>6, <2>2 DEF InviteInv
  <2> QED
    BY <2>1, <2>2
<1>7. ASSUME NEW e \in Device, NEW u \in Task, task'[e][u].pc \in Inviting
      PROVE  /\ Key(e, u)' \in pendingInvites'[e]
             /\ task'[e][u].pc = "invite" => Key(e, u)' \notin invited'[e]
             /\ \A v \in Task \ {u} : task'[e][v].pc \in Inviting => Key(e, v)' # Key(e, u)'
  <2>1. e # d
    BY <1>4, <1>7
  <2> QED
    BY <1>1, <1>3, <1>7, <2>1 DEF InviteInv
<1>8. OneWelcomePerSlot'
  BY <1>1, <1>2 DEF InviteInv, OneWelcomePerSlot
<1> QED
  BY <1>1, <1>5, <1>6, <1>7, <1>8 DEF InviteInv

LEMMA InviteStep == TypeInv /\ InviteInv /\ [Next]_vars => InviteInv'
<1> SUFFICES ASSUME TypeInv, InviteInv, [Next]_vars PROVE InviteInv'
  OBVIOUS
<1>1. CASE UNCHANGED <<welcomes, invited, invitedKeys, pendingInvites, unrecorded, task>>
  BY <1>1, InviteQuiet DEF SameTask
<1>2. ASSUME NEW d \in Device, NEW t \in Task, NEW s \in Device,
             HandleKeyPackageEvent(d, t, s) \/ SyncKnown(d, t, s)
      PROVE  InviteInv'
  <2>1. PICK v : StartTask(d, t, s, v)
    BY <1>2 DEF HandleKeyPackageEvent, SyncKnown
  <2> DEFINE to == [IdleTask EXCEPT !.pc = "wait", !.slot = s, !.kp = v, !.wait = joinBarrier[d]]
  <2>2. to.pc = "wait" /\ task[d][t].pc = "idle"
    BY <2>1, IdleTyped DEF IdleTask, StartTask
  <2>3. StepTask(d, t, to)
        /\ UNCHANGED <<welcomes, invited, invitedKeys, pendingInvites, unrecorded>>
    BY <2>1 DEF StartTask
  <2> HIDE DEF to
  <2> QED
    BY <2>2, <2>3, OneTask, InviteQuietTask DEF Inviting
<1>3. ASSUME NEW d \in Device, NEW t \in Task, CheckSlot(d, t)
      PROVE  InviteInv'
  <2> DEFINE k == task[d][t]
             l == [k EXCEPT !.todo = Loaded(d)]
  <2>1. k \in TaskState /\ k.slot \in Device /\ k.pc = "wait"
    BY <1>3 DEF TypeInv, TasksTyped, CheckSlot
  <2>2. l \in TaskState /\ l.slot \in Device
    BY <2>1 DEF TaskState, Loaded
  <2>3. NextTurn(l).pc \in {"idle", "groups"}
    BY <2>2, NextTurnTyped
  <2>4. StepTask(d, t, IdleTask) \/ StepTask(d, t, NextTurn(l))
    BY <1>3 DEF CheckSlot
  <2>5. UNCHANGED <<welcomes, invited, invitedKeys, pendingInvites, unrecorded>>
    BY <1>3 DEF CheckSlot
  <2> QED
    BY <2>1, <2>3, <2>4, <2>5, IdleTyped, OneTask, InviteQuietTask DEF Inviting
<1>4. ASSUME NEW d \in Device, NEW t \in Task, NextGroup(d, t)
      PROVE  InviteInv'
  <2> DEFINE k == task[d][t]
             l(g) == [k EXCEPT !.todo = @ \ {g}]
             take(g) == [k EXCEPT !.todo = @ \ {g}, !.pc = "list", !.group = g]
  <2>1. k \in TaskState /\ k.slot \in Device /\ k.pc = "groups"
    BY <1>4 DEF TypeInv, TasksTyped, NextGroup
  <2>2. PICK g \in k.todo : StepTask(d, t, NextTurn(l(g))) \/ StepTask(d, t, take(g))
    BY <1>4 DEF NextGroup
  <2>3. l(g) \in TaskState /\ l(g).slot \in Device /\ take(g).pc = "list"
    BY <2>1 DEF TaskState
  <2>4. NextTurn(l(g)).pc \in {"idle", "groups"}
    BY <2>3, NextTurnTyped
  <2>5. UNCHANGED <<welcomes, invited, invitedKeys, pendingInvites, unrecorded>>
    BY <1>4 DEF NextGroup
  <2> HIDE DEF l, take
  <2> QED
    BY <2>1, <2>2, <2>3, <2>4, <2>5, OneTask, InviteQuietTask DEF Inviting
<1>5. ASSUME NEW d \in Device, NEW t \in Task, InviteFails(d, t)
      PROVE  InviteInv'
  BY <1>5, EndInviteKeeps DEF InviteFails, Inviting, TypeInv, StoresTyped
<1>6. ASSUME NEW d \in Device, NEW t \in Task, PersistInvitedKey(d, t)
      PROVE  InviteInv'
  <2>1. \A e \in Device : invitedKeys'[e] = IF e = d THEN invitedKeys[d] \union {Key(d, t)}
                                            ELSE invitedKeys[e]
    BY <1>6 DEF PersistInvitedKey, TypeInv, StoresTyped
  <2> QED
    BY <1>6, <2>1, EndInviteKeeps DEF PersistInvitedKey, Inviting, TypeInv, StoresTyped
<1>12. ASSUME NEW d \in Device, NEW t \in Task, PersistFails(d, t)
       PROVE  InviteInv'
  <2>1. UNCHANGED <<welcomes, invited, invitedKeys>> /\ EndInvite(d, t)
    BY <1>12 DEF PersistFails
  <2>2. task[d][t].pc \in Inviting /\ invitedKeys \in [Device -> SUBSET (Group \X Device)]
    BY <1>12 DEF PersistFails, Inviting, TypeInv, StoresTyped
  <2>3. unrecorded \subseteq unrecorded' /\ <<d, Key(d, t)>> \in unrecorded'
    BY <1>12 DEF PersistFails
  <2> QED
    BY <2>1, <2>2, <2>3, EndInviteKeeps
<1>7. ASSUME NEW d \in Device, NEW w \in Worker,
             MarkGroupJoined(d, w) \/ ReadFailed(d, w) \/ RunRejects(d, w)
      PROVE  InviteInv'
  <2>1. Release(d, w) /\ UNCHANGED <<welcomes, invited, invitedKeys, pendingInvites, unrecorded>>
    BY <1>7 DEF MarkGroupJoined, ReadFailed, RunRejects, EndTurn
  <2>2. \A e \in Device, t \in Task : SameTask(e, t)
    BY <2>1, ReleaseTyped DEF TypeInv, SameTask
  <2> QED
    BY <2>1, <2>2, InviteQuiet
<1>8. ASSUME NEW d \in Device, NEW w \in Worker,
             \/ FirstUnread(d, w) \/ LiveUnread(d, w) \/ Join(d, w) \/ JoinFails(d, w)
             \/ ReadJoined(d, w) \/ AppendFailedWelcome(d, w)
      PROVE  UNCHANGED <<welcomes, invited, invitedKeys, pendingInvites, unrecorded, task>>
  BY <1>8 DEF FirstUnread, LiveUnread, Join, JoinFails, ReadJoined, AppendFailedWelcome
<1>9. ASSUME NEW d \in Device, ForgetStep(d) \/ \E s \in Device : ForgetSiblingDevice(d, s)
      PROVE  UNCHANGED <<welcomes, invited, invitedKeys, pendingInvites, unrecorded, task>>
  BY <1>9 DEF ForgetStep, RequestKeyPackages, RequestFails, RemoveLeaf, Remove, RemoveIsStale,
     RetryRemove, ForgetFails, MarkSlotForgotten, RefreshForgotten, ForgetSiblingDevice
<1>10. ASSUME NEW d \in Device, FirstFails(d) \/ Rotate(d) \/ CreateKeyPackage(d)
       PROVE  UNCHANGED <<welcomes, invited, invitedKeys, pendingInvites, unrecorded, task>>
  BY <1>10 DEF FirstFails, Rotate, CreateKeyPackage
<1>11. CASE UNCHANGED vars
  BY <1>1, <1>11 DEF vars
<1> QED
  BY <1>1, <1>2, <1>3, <1>4, <1>5, <1>6, <1>7, <1>8, <1>9, <1>10, <1>11, <1>12, ReserveKeeps,
     InviteKeeps, ReloadKeeps DEF Next, WorkerStep, TaskStep

\* A device invites a slot to a group once, for any number of devices, groups, handlers
\* and rotations, unless a reload falls between the published invite and its record, or
\* the write of the record fails.
THEOREM SlotsAreInvitedOnce == Spec => []OneWelcomePerSlot
<1>1. Init => InviteInv
  BY IdleTyped DEF Init, InviteInv, OneWelcomePerSlot, Inviting
<1>2. InviteInv => OneWelcomePerSlot
  BY DEF InviteInv
<1> QED
  BY <1>1, <1>2, InviteStep, TypeInvHolds, PTL DEF Spec

----------------------------------------------------------------------------
(* Forgotten slots. *)

\* Inductive: the cache is the store, but between the write and the event's refresh.
CacheInv == \A d \in Device : forget[d].pc # "refresh" => forgottenSlots[d] = forgotten[d]

LEMMA CacheStep == TypeInv /\ CacheInv /\ [Next]_vars => CacheInv'
<1> SUFFICES ASSUME TypeInv, CacheInv, [Next]_vars PROVE CacheInv'
  OBVIOUS
<1>1. CASE UNCHANGED <<forgotten, forgottenSlots>>
           /\ \A d \in Device : forget[d].pc = "refresh" => forget'[d].pc = "refresh"
  BY <1>1 DEF CacheInv
<1>2. ASSUME NEW d \in Device, MarkSlotForgotten(d)
      PROVE  CacheInv'
  <2>1. [forget[d] EXCEPT !.pc = "refresh"].pc = "refresh"
    BY DEF TypeInv, ForgetsTyped, ForgetState
  <2>2. \A e \in Device : /\ e # d => forget'[e] = forget[e] /\ forgotten'[e] = forgotten[e]
                          /\ forget'[d].pc = "refresh"
    BY <1>2, <2>1 DEF MarkSlotForgotten, StepForget, TypeInv, ForgetsTyped, StoresTyped
  <2> QED
    BY <1>2, <2>2 DEF MarkSlotForgotten, CacheInv
<1>3. ASSUME NEW d \in Device, RefreshForgotten(d)
      PROVE  CacheInv'
  BY <1>3 DEF RefreshForgotten, StepForget, CacheInv, TypeInv, ForgetsTyped, CachedTyped
<1>4. ASSUME NEW d \in Device, Reload(d)
      PROVE  CacheInv'
  BY <1>4 DEF Reload, LoadForgottenSlots, CacheInv, TypeInv, ForgetsTyped, CachedTyped
<1>5. ASSUME NEW d \in Device, NEW to, StepForget(d, to), forget[d].pc # "refresh",
             UNCHANGED <<forgotten, forgottenSlots>>
      PROVE  CacheInv'
  BY <1>5 DEF StepForget, CacheInv, TypeInv, ForgetsTyped
<1>6. ASSUME NEW d \in Device,
             \/ RequestKeyPackages(d) \/ RequestFails(d) \/ RemoveLeaf(d) \/ RemoveIsStale(d)
             \/ RetryRemove(d) \/ ForgetFails(d) \/ \E s \in Device : ForgetSiblingDevice(d, s)
      PROVE  CacheInv'
  <2>1. UNCHANGED <<forgotten, forgottenSlots>> /\ \E to : StepForget(d, to)
    BY <1>6 DEF RequestKeyPackages, RequestFails, RemoveLeaf, Remove, RemoveIsStale, RetryRemove,
       ForgetFails, ForgetSiblingDevice
  <2>2. forget[d].pc # "refresh"
    BY <1>6, IdleTyped DEF RequestKeyPackages, RequestFails, RemoveLeaf, RemoveIsStale,
       RetryRemove, ForgetFails, ForgetSiblingDevice
  <2> QED
    BY <1>5, <2>1, <2>2
<1>7. ASSUME NEW d \in Device, NEW t \in Task, Invite(d, t)
      PROVE  CacheInv'
  <2>1. UNCHANGED <<forgotten, forgottenSlots>>
    BY <1>7 DEF Invite
  <2>2. \A e \in Device : forget'[e].pc = forget[e].pc
    BY <1>7, InviteForgets
  <2> QED
    BY <1>1, <2>1, <2>2
<1>8. ASSUME NEW d \in Device, NEW w \in Worker,
             FirstUnread(d, w) \/ LiveUnread(d, w) \/ WorkerStep(d, w)
      PROVE  UNCHANGED <<forgotten, forgottenSlots, forget>>
  BY <1>8 DEF WorkerStep, FirstUnread, LiveUnread, Join, JoinFails, ReadJoined, MarkGroupJoined,
     AppendFailedWelcome, ReadFailed, RunRejects
<1>9. ASSUME NEW d \in Device, NEW t \in Task,
             \/ CheckSlot(d, t) \/ NextGroup(d, t) \/ Reserve(d, t)
             \/ InviteFails(d, t) \/ PersistInvitedKey(d, t) \/ PersistFails(d, t)
      PROVE  UNCHANGED <<forgotten, forgottenSlots, forget>>
  BY <1>9 DEF CheckSlot, NextGroup, Reserve, InviteFails, PersistInvitedKey, PersistFails
<1>10. ASSUME NEW d \in Device, NEW t \in Task, NEW s \in Device,
              HandleKeyPackageEvent(d, t, s) \/ SyncKnown(d, t, s)
       PROVE  UNCHANGED <<forgotten, forgottenSlots, forget>>
  BY <1>10 DEF HandleKeyPackageEvent, SyncKnown, StartTask
<1>11. ASSUME NEW d \in Device, FirstFails(d) \/ Rotate(d) \/ CreateKeyPackage(d)
       PROVE  UNCHANGED <<forgotten, forgottenSlots, forget>>
  BY <1>11 DEF FirstFails, Rotate, CreateKeyPackage
<1>12. CASE UNCHANGED vars
  BY <1>1, <1>12 DEF vars
<1> QED
  BY <1>1, <1>2, <1>3, <1>4, <1>6, <1>7, <1>8, <1>9, <1>10, <1>11, <1>12
     DEF Next, TaskStep, ForgetStep

\* No handler of any device gets the KeyPackage of a forgotten slot past isSlotForgotten,
\* in the session that forgot it or after any reload.
THEOREM ForgottenIsNotInvited == Spec => ForgottenStaysOut
<1> DEFINE Passes(d, t) == task[d][t].pc = "wait" /\ task'[d][t].pc = "groups"
           Rightly(d, t) == task[d][t].slot \notin forgotten[d] \/ forget[d].pc = "refresh"
<1>1. ASSUME TypeInv, CacheInv, [Next]_vars, NEW d \in Device, NEW t \in Task, Passes(d, t)
      PROVE  Rightly(d, t)
  <2>1. task'[d][t] # task[d][t]
    BY <1>1
  <2>2. CheckSlot(d, t)
    <3>1. CASE \E e \in Device, u \in Task : TaskStep(e, u)
      <4>1. PICK e \in Device, u \in Task : TaskStep(e, u)
        BY <3>1
      <4>2. e = d /\ u = t
        BY <1>1, <2>1, <4>1, TaskMoves DEF OnlyTask
      <4> QED
        BY <1>1, <4>1, <4>2 DEF TaskStep, NextGroup, Reserve, Invite, InviteFails,
           PersistInvitedKey, PersistFails
    <3>2. CASE \E e \in Device, u \in Task, s \in Device :
                 HandleKeyPackageEvent(e, u, s) \/ SyncKnown(e, u, s)
      <4>1. PICK e \in Device, u \in Task, s \in Device : \E v : StartTask(e, u, s, v)
        BY <3>2 DEF HandleKeyPackageEvent, SyncKnown
      <4>2. task[e][u].pc = "idle"
        BY <4>1, IdleTyped DEF StartTask
      <4>3. \A x \in Device, y \in Task : ~(x = e /\ y = u) => task'[x][y] = task[x][y]
        BY <1>1, <4>1, OneTask DEF StartTask, OnlyTask
      <4> QED
        BY <1>1, <2>1, <4>2, <4>3
    <3>3. CASE \E e \in Device, w \in Worker :
                 MarkGroupJoined(e, w) \/ ReadFailed(e, w) \/ RunRejects(e, w)
      <4>1. PICK e \in Device, w \in Worker : Release(e, w)
        BY <3>3 DEF MarkGroupJoined, ReadFailed, RunRejects, EndTurn
      <4> QED
        BY <1>1, <4>1, ReleaseTyped DEF TypeInv
    <3>4. CASE \E e \in Device : Reload(e)
      <4>1. task'[d][t] \in {task[d][t], IdleTask}
        BY <1>1, <3>4 DEF Reload, TypeInv, TasksTyped
      <4> QED
        BY <1>1, <2>1, <4>1, IdleTyped
    <3>5. CASE UNCHANGED task
      BY <2>1, <3>5
    <3>6. ASSUME NEW e \in Device, NEW w \in Worker,
                 \/ FirstUnread(e, w) \/ LiveUnread(e, w) \/ Join(e, w) \/ JoinFails(e, w)
                 \/ ReadJoined(e, w) \/ AppendFailedWelcome(e, w)
          PROVE  UNCHANGED task
      BY <3>6 DEF FirstUnread, LiveUnread, Join, JoinFails, ReadJoined, AppendFailedWelcome
    <3>7. ASSUME NEW e \in Device, ForgetStep(e) \/ \E s \in Device : ForgetSiblingDevice(e, s)
          PROVE  UNCHANGED task
      BY <3>7 DEF ForgetStep, RequestKeyPackages, RequestFails, RemoveLeaf, Remove, RemoveIsStale,
         RetryRemove, ForgetFails, MarkSlotForgotten, RefreshForgotten, ForgetSiblingDevice
    <3>8. ASSUME NEW e \in Device, FirstFails(e) \/ Rotate(e) \/ CreateKeyPackage(e)
          PROVE  UNCHANGED task
      BY <3>8 DEF FirstFails, Rotate, CreateKeyPackage
    <3>9. CASE UNCHANGED vars
      BY <3>5, <3>9 DEF vars
    <3> QED
      BY <1>1, <3>1, <3>2, <3>3, <3>4, <3>5, <3>6, <3>7, <3>8, <3>9 DEF Next, WorkerStep
  <2>3. task[d][t].slot \notin forgottenSlots[d]
    <3>1. CASE task[d][t].slot \in forgottenSlots[d]
      <4>1. StepTask(d, t, IdleTask)
        BY <2>2, <3>1 DEF CheckSlot
      <4>2. task'[d][t] = IdleTask
        BY <1>1, <4>1, OneTask DEF OnlyTask
      <4> QED
        BY <1>1, <4>2, IdleTyped
    <3> QED
      BY <3>1
  <2> QED
    BY <1>1, <2>3 DEF CacheInv
<1>2. TypeInv /\ CacheInv /\ [Next]_vars => [\A d \in Device : \A t \in Task :
        Passes(d, t) => Rightly(d, t)]_vars
  BY <1>1
<1>3. Init => CacheInv
  BY DEF Init, CacheInv
<1> QED
  BY <1>2, <1>3, CacheStep, TypeInvHolds, PTL DEF Spec, ForgottenStaysOut

----------------------------------------------------------------------------
(* The members of a group, and what it takes to have two leaves in it. *)

\* The lookups take the least index there is.
LEMMA FirstLeast ==
  ASSUME NEW S \in SUBSET Nat, S # {}
  PROVE  First(S) \in S /\ \A k \in S : First(S) <= k
<1>1. PICK top \in S : TRUE
  OBVIOUS
<1> DEFINE R == StrictSubsetOrdering(0 .. top)
           T == {0 .. n : n \in {m \in S : m <= top}}
<1>2. top \in Nat /\ IsFiniteSet(0 .. top)
  BY FS_Interval
<1>3. IsWellFoundedOn(R, SUBSET (0 .. top))
  BY <1>2, FS_StrictSubsetOrderingWellFounded, FS_FiniteSubsetsOfFinite
<1>4. T \subseteq SUBSET (0 .. top) /\ T # {}
  <2>1. \A n \in S : n <= top => 0 .. n \subseteq 0 .. top
    BY <1>2
  <2>2. 0 .. top \in T
    BY <1>2
  <2> QED
    BY <2>1, <2>2
<1>5. PICK x \in T : \A y \in T : <<y, x>> \notin R
  BY <1>3, <1>4, WFMin
<1>6. PICK n \in S : n <= top /\ x = 0 .. n
  OBVIOUS
<1>7. ASSUME NEW k \in S PROVE n <= k
  <2> SUFFICES ASSUME k < n PROVE FALSE
    BY <1>6
  <2>1. k \in Nat /\ n \in Nat
    OBVIOUS
  <2>2. 0 .. k \in T
    BY <1>2, <1>6, <2>1
  <2>3. 0 .. k \subseteq 0 .. n /\ 0 .. k # 0 .. n
    BY <2>1
  <2>4. 0 .. k \in SUBSET (0 .. top) /\ 0 .. n \in SUBSET (0 .. top)
    BY <1>2, <1>6, <2>1
  <2> QED
    BY <1>5, <1>6, <2>2, <2>3, <2>4 DEF StrictSubsetOrdering
<1> QED
  BY <1>7 DEF First

\* The positions of a tree are numbers, and hold a leaf or None.
LEMMA TreeTyped ==
  ASSUME RelayTyped, NEW g \in Group
  PROVE  /\ tree[g] \in Seq(Leaf \union {None})
         /\ DOMAIN tree[g] = 1 .. Len(tree[g]) /\ DOMAIN tree[g] \in SUBSET Nat
         /\ \A n \in DOMAIN tree[g] : tree[g][n] \in Leaf \union {None}
<1>1. tree[g] \in Seq(Leaf \union {None})
  BY DEF RelayTyped
<1> QED
  BY <1>1, LenProperties, ElementOfSeq

\* A commit that adds a leaf fills one position, which was blank or is new; one that
\* removes a leaf blanks one.
Added(g, leaf, p) ==
  /\ p \notin DOMAIN tree[g] \/ tree[g][p] = None
  /\ DOMAIN tree'[g] = DOMAIN tree[g] \union {p} /\ tree'[g][p] = leaf
  /\ \A n \in DOMAIN tree[g] \ {p} : tree'[g][n] = tree[g][n]
  /\ \A h \in Group \ {g} : tree'[h] = tree[h]

Blanked(g, n) ==
  /\ DOMAIN tree'[g] = DOMAIN tree[g]
  /\ \A m \in DOMAIN tree[g] : tree'[g][m] = IF m = n THEN None ELSE tree[g][m]
  /\ \A h \in Group \ {g} : tree'[h] = tree[h]

LEMMA AddLeafAdds ==
  ASSUME RelayTyped, NEW g \in Group, NEW leaf \in Leaf, AddLeaf(g, leaf)
  PROVE  \E p : Added(g, leaf, p)
<1> DEFINE s == tree[g]
           blank == {n \in DOMAIN s : s[n] = None}
           filled == IF blank = {} THEN Append(s, leaf) ELSE [s EXCEPT ![First(blank)] = leaf]
<1>1. s \in Seq(Leaf \union {None}) /\ DOMAIN s = 1 .. Len(s) /\ DOMAIN s \in SUBSET Nat
  BY TreeTyped
<1>2. tree' = [tree EXCEPT ![g] = filled]
  BY DEF AddLeaf
<1>3. \E p : /\ p \notin DOMAIN s \/ s[p] = None
             /\ DOMAIN filled = DOMAIN s \union {p} /\ filled[p] = leaf
             /\ \A n \in DOMAIN s \ {p} : filled[n] = s[n]
  <2>1. CASE blank = {}
    <3>1. filled = Append(s, leaf)
      BY <2>1
    <3>2. Len(s) \in Nat /\ Len(Append(s, leaf)) = Len(s) + 1
      BY <1>1, AppendProperties, LenProperties
    <3>3. /\ Append(s, leaf) \in Seq(Leaf \union {None}) /\ Append(s, leaf)[Len(s) + 1] = leaf
          /\ \A n \in 1 .. Len(s) : Append(s, leaf)[n] = s[n]
      BY <1>1, AppendProperties
    <3>4. DOMAIN Append(s, leaf) = 1 .. Len(s) + 1
      BY <3>2, <3>3, LenProperties
    <3> QED
      BY <1>1, <3>1, <3>2, <3>3, <3>4
  <2>2. CASE blank # {}
    <3>1. filled = [s EXCEPT ![First(blank)] = leaf]
      BY <2>2
    <3>2. First(blank) \in blank
      BY <1>1, <2>2, FirstLeast
    <3>3. DOMAIN [s EXCEPT ![First(blank)] = leaf] = DOMAIN s
      OBVIOUS
    <3>4. DOMAIN s \union {First(blank)} = DOMAIN s
      BY <3>2
    <3> QED
      BY <3>1, <3>2, <3>3, <3>4
  <2> QED
    BY <2>1, <2>2
<1> HIDE DEF filled
<1> QED
  BY <1>2, <1>3 DEF Added, RelayTyped

LEMMA RemoveBlanks ==
  ASSUME RelayTyped, NEW d \in Device, NEW n, forget[d].group \in Group, Remove(d, n)
  PROVE  Blanked(forget[d].group, n)
<1> DEFINE g == forget[d].group
           less == [tree[g] EXCEPT ![n] = None]
<1>1. tree[g] \in Seq(Leaf \union {None})
  BY TreeTyped
<1>2. tree' = [tree EXCEPT ![g] = less]
  BY DEF Remove
<1>3. /\ DOMAIN less = DOMAIN tree[g]
      /\ \A m \in DOMAIN tree[g] : less[m] = IF m = n THEN None ELSE tree[g][m]
  OBVIOUS
<1> HIDE DEF less
<1> QED
  BY <1>2, <1>3 DEF Blanked, RelayTyped

----------------------------------------------------------------------------

Admitted(W, g, l) == \E i \in W : i.group = g /\ i.dev = l.dev /\ i.kp = l.kp

Founder(g) == [dev |-> Creator[g], kp |-> 0]

\* A leaf that g has or had, as the Welcomes W tell.
Member(W, g, l) == l = Founder(g) \/ Admitted(W, g, l)

WelcomesInv == IsFiniteSet(welcomes) /\ \A i \in welcomes : i.kp # 0

\* No leaf is in a tree twice, and each is the founder's, or has a Welcome.
TreeInv ==
  \A g \in Group :
    /\ \A n, m \in DOMAIN tree[g] : tree[g][n] # None /\ tree[g][n] = tree[g][m] => n = m
    /\ \A n \in DOMAIN tree[g] : tree[g][n] # None => Member(welcomes, g, tree[g][n])

OwnInv ==
  \A d \in Device, g \in Group : own[d][g] # None => Member(welcomes, g, [dev |-> d, kp |-> own[d][g]])

\* No handler has the KeyPackage that a group is created with.
TaskInv == \A d \in Device, t \in Task : task[d][t].pc # "idle" => task[d][t].kp # 0

\* What the runs of processUnread work on is on the relay.
WorkerInv ==
  \A d \in Device :
    /\ ingested[d] \subseteq welcomes
    /\ \A w \in Worker : /\ worker[d][w].todo \subseteq welcomes
                         /\ worker[d][w].pc # "idle" => worker[d][w].cur \in welcomes

AdmitInv == WelcomesInv /\ TreeInv /\ OwnInv /\ TaskInv /\ WorkerInv

\* A group that admitted a device once has at most one leaf of it.
LEMMA OneAdmission ==
  ASSUME WelcomesInv, NEW g \in Group, NEW s \in Device, Admissions(g, s) <= 1,
         NEW l \in Leaf, NEW m \in Leaf, Member(welcomes, g, l), Member(welcomes, g, m), l.dev = s, m.dev = s
  PROVE  l = m
<1> DEFINE S == {i \in welcomes : i.group = g /\ i.dev = s}
<1>1. IsFiniteSet(S) /\ Cardinality(S) \in Nat
  BY FS_Subset, FS_CardinalityType DEF WelcomesInv
<1>2. Cardinality(S) + (IF Creator[g] = s THEN 1 ELSE 0) <= 1
  BY DEF Admissions
<1>3. \A i, j \in S : i = j
  <2> SUFFICES ASSUME NEW i \in S, NEW j \in S, i # j PROVE FALSE
    OBVIOUS
  <2>1. IsFiniteSet({i}) /\ Cardinality({i}) = 1
    BY FS_Singleton
  <2>5. Cardinality({i} \union {j}) = IF j \in {i} THEN Cardinality({i}) ELSE Cardinality({i}) + 1
    BY <2>1, FS_AddElement
  <2>2. Cardinality({i} \union {j}) = 2
    BY <2>1, <2>5
  <2>3. {i} \union {j} \subseteq S
    OBVIOUS
  <2>4. Cardinality({i} \union {j}) <= Cardinality(S)
    BY <1>1, <2>3, FS_Subset
  <2> HIDE DEF S
  <2>6. Cardinality(S) >= 2
    BY ONLY <1>1, <2>2, <2>4
  <2> QED
    BY ONLY <1>1, <1>2, <2>6
<1>4. \A i \in S : Creator[g] # s
  <2> SUFFICES ASSUME NEW i \in S, Creator[g] = s PROVE FALSE
    OBVIOUS
  <2>1. Cardinality(S) = 0
    BY <1>1, <1>2
  <2> QED
    BY <1>1, <2>1, FS_EmptySet
<1>5. /\ l = Founder(g) \/ \E i \in S : i.kp = l.kp
      /\ m = Founder(g) \/ \E i \in S : i.kp = m.kp
  BY DEF Member, Admitted
<1>6. Creator[g] # s => l # Founder(g) /\ m # Founder(g)
  BY DEF Founder
<1>7. l.kp = m.kp => l = m
  BY DEF Leaf
<1> HIDE DEF S
<1>8. CASE \E i \in S : TRUE
  BY <1>3, <1>4, <1>5, <1>6, <1>7, <1>8
<1>9. CASE ~\E i \in S : TRUE
  BY <1>5, <1>9
<1> QED
  BY <1>8, <1>9

\* Devices are admitted, and never less often than they were.
LEMMA AdmissionsGrow ==
  ASSUME WelcomesInv', welcomes \subseteq welcomes', NEW g, NEW s
  PROVE  Admissions(g, s)' <= 1 => Admissions(g, s) <= 1
<1> DEFINE S(W) == {i \in W : i.group = g /\ i.dev = s}
<1>1. IsFiniteSet(S(welcomes')) /\ S(welcomes) \subseteq S(welcomes')
  BY FS_Subset DEF WelcomesInv
<1>2. /\ Cardinality(S(welcomes)) <= Cardinality(S(welcomes'))
      /\ Cardinality(S(welcomes)) \in Nat /\ Cardinality(S(welcomes')) \in Nat
  BY <1>1, FS_Subset, FS_CardinalityType
<1>3. /\ Admissions(g, s) = Cardinality(S(welcomes)) + (IF Creator[g] = s THEN 1 ELSE 0)
      /\ Admissions(g, s)' = Cardinality(S(welcomes')) + (IF Creator[g] = s THEN 1 ELSE 0)
  BY DEF Admissions
<1> HIDE DEF S
<1> QED
  BY <1>2, <1>3

LEMMA MembersStay ==
  ASSUME welcomes \subseteq welcomes', NEW g, NEW l, Member(welcomes, g, l)
  PROVE  Member(welcomes', g, l)
BY DEF Member, Admitted, Founder

\* A position of a tree after a commit: the leaf added, or what was there, or a blank.
LEMMA InviteAdmits ==
  ASSUME TypeInv, AdmitInv, NEW d \in Device, NEW t \in Task, Invite(d, t)
  PROVE  /\ welcomes \subseteq welcomes' /\ WelcomesInv' /\ TreeInv'
         /\ OwnInv' /\ WorkerInv'
         /\ \E p : Added(task[d][t].group, [dev |-> task[d][t].slot, kp |-> task[d][t].kp], p)
<1> DEFINE k == task[d][t]
           g == k.group
           leaf == [dev |-> k.slot, kp |-> k.kp]
           sent == [group |-> g, dev |-> k.slot, kp |-> k.kp, from |-> d]
<1>1. k \in TaskState /\ k.slot \in Device /\ g \in Group /\ k.kp \in Version /\ k.kp # 0
  <2>1. k.pc = "invite"
    BY DEF Invite
  <2> QED
    BY <2>1 DEF TypeInv, TasksTyped, TaskState, AdmitInv, TaskInv
<1>2. leaf \in Leaf /\ sent \in Welcome /\ leaf.dev = k.slot /\ leaf.kp = k.kp
  BY <1>1 DEF Leaf, Welcome
<1>3. welcomes' = welcomes \union {sent} /\ AddLeaf(g, leaf) /\ leaf \notin Leaves(g)
  BY DEF Invite
<1>4. PICK p : Added(g, leaf, p)
  BY <1>1, <1>2, <1>3, AddLeafAdds DEF TypeInv
<1>5. WelcomesInv'
  <2>1. IsFiniteSet(welcomes \union {sent})
    BY FS_AddElement DEF AdmitInv, WelcomesInv
  <2> QED
    BY <1>1, <1>3, <2>1 DEF AdmitInv, WelcomesInv
<1>6. Member(welcomes', g, leaf)
  <2>1. sent \in welcomes' /\ sent.group = g /\ sent.dev = leaf.dev /\ sent.kp = leaf.kp
    BY <1>2, <1>3
  <2> QED
    BY <2>1 DEF Member, Admitted
<1>7. TreeInv'
  <2>1. ASSUME NEW h \in Group, NEW n \in DOMAIN tree'[h], tree'[h][n] # None
        PROVE  Member(welcomes', h, tree'[h][n])
    <3>1. CASE h = g /\ n = p
      BY <1>4, <1>6, <3>1 DEF Added
    <3>2. CASE ~(h = g /\ n = p)
      <4>1. n \in DOMAIN tree[h] /\ tree'[h][n] = tree[h][n]
        BY <1>4, <2>1, <3>2 DEF Added
      <4>2. Member(welcomes, h, tree[h][n])
        BY <2>1, <4>1 DEF AdmitInv, TreeInv
      <4>3. welcomes \subseteq welcomes'
        BY <1>3
      <4> QED
        BY <4>1, <4>2, <4>3, MembersStay
    <3> QED
      BY <3>1, <3>2
  <2>2. ASSUME NEW h \in Group, NEW n \in DOMAIN tree'[h], NEW m \in DOMAIN tree'[h],
               tree'[h][n] # None, tree'[h][n] = tree'[h][m]
        PROVE  n = m
    <3>1. \A q \in DOMAIN tree[g] : tree[g][q] # leaf
      BY <1>2, <1>3, NoneAssumption DEF Leaves
    <3>2. CASE h = g
      <4>1. \A q, r \in DOMAIN tree[g] : tree[g][q] # None /\ tree[g][q] = tree[g][r] => q = r
        BY <3>2 DEF AdmitInv, TreeInv
      <4>2. /\ DOMAIN tree'[g] = DOMAIN tree[g] \union {p} /\ tree'[g][p] = leaf
            /\ \A q \in DOMAIN tree[g] \ {p} : tree'[g][q] = tree[g][q]
        BY <1>4 DEF Added
      <4>3. CASE n = p
        BY <2>2, <3>1, <3>2, <4>2, <4>3
      <4>4. CASE n # p
        BY <2>2, <3>1, <3>2, <4>1, <4>2, <4>4
      <4> QED
        BY <4>3, <4>4
    <3>3. CASE h # g
      BY <1>4, <2>2, <3>3 DEF Added, AdmitInv, TreeInv
    <3> QED
      BY <3>2, <3>3
  <2> QED
    BY <2>1, <2>2 DEF TreeInv
<1>8. OwnInv'
  <2>1. own' = own /\ welcomes \subseteq welcomes'
    BY <1>3 DEF Invite
  <2> QED
    BY <2>1, MembersStay DEF AdmitInv, OwnInv
<1>9. WorkerInv'
  BY <1>3 DEF Invite, AdmitInv, WorkerInv
<1> QED
  BY <1>3, <1>4, <1>5, <1>7, <1>8, <1>9

LEMMA RemoveAdmits ==
  ASSUME TypeInv, AdmitInv, NEW d \in Device, NEW n, forget[d].group \in Group, Remove(d, n)
  PROVE  TreeInv'
<1>1. Blanked(forget[d].group, n)
  BY RemoveBlanks DEF TypeInv
<1>2. welcomes' = welcomes
  BY DEF Remove
<1>3. ASSUME NEW h \in Group, NEW m \in DOMAIN tree'[h], tree'[h][m] # None
      PROVE  m \in DOMAIN tree[h] /\ tree'[h][m] = tree[h][m]
  BY <1>1, <1>3 DEF Blanked
<1> QED
  BY <1>2, <1>3 DEF AdmitInv, TreeInv

LEMMA JoinAdmits ==
  ASSUME TypeInv, AdmitInv, NEW d \in Device, NEW w \in Worker, Join(d, w)
  PROVE  OwnInv'
<1> DEFINE i == worker[d][w].cur
<1>1. i \in welcomes /\ i \in Welcome /\ i.dev = d
  BY DEF Join, TypeInv, RelayTyped, AdmitInv, WorkerInv
<1>2. /\ own' = [own EXCEPT ![d][i.group] = i.kp] /\ welcomes' = welcomes
      /\ own \in [Device -> [Group -> Version \union {None}]]
  BY DEF Join, TypeInv, MemberTyped
<1>3. PICK j : j = i
  OBVIOUS
<1>4. \A e \in Device, g \in Group :
        own'[e][g] = IF e = d /\ g = j.group THEN j.kp ELSE own[e][g]
  BY <1>1, <1>2, <1>3 DEF Welcome
<1>6. Member(welcomes, j.group, [dev |-> d, kp |-> j.kp])
  BY <1>1, <1>3 DEF Member, Admitted
<1> QED
  BY <1>2, <1>4, <1>6 DEF AdmitInv, OwnInv

LEMMA TurnAdmits ==
  ASSUME TypeInv, AdmitInv, NEW d \in Device, NEW w \in Worker, NEW todo \in SUBSET welcomes,
         Turn(d, w, todo), UNCHANGED welcomes, \A e \in Device : ingested'[e] \subseteq welcomes
  PROVE  WorkerInv'
<1>1. CASE StepWorker(d, w, IdleWorker)
  <2>1. OnlyWorker(d, w, IdleWorker)
    BY <1>1, OneWorker
  <2> QED
    BY <2>1 DEF OnlyWorker, IdleWorker, AdmitInv, WorkerInv
<1>2. ASSUME NEW i \in todo, StepWorker(d, w, [pc |-> "join", todo |-> todo \ {i}, cur |-> i])
      PROVE  WorkerInv'
  <2>1. OnlyWorker(d, w, [pc |-> "join", todo |-> todo \ {i}, cur |-> i])
    BY <1>2, OneWorker
  <2> QED
    BY <2>1 DEF OnlyWorker, AdmitInv, WorkerInv
<1> QED
  BY <1>1, <1>2 DEF Turn

\* A turn goes on with its Welcome.
LEMMA InTurnAdmits ==
  ASSUME TypeInv, AdmitInv, NEW d \in Device, NEW w \in Worker, NEW p, p # "idle",
         worker[d][w].pc # "idle", StepWorker(d, w, [worker[d][w] EXCEPT !.pc = p]),
         UNCHANGED <<welcomes, ingested>>
  PROVE  WorkerInv'
<1> DEFINE to == [worker[d][w] EXCEPT !.pc = p]
<1>1. to.todo = worker[d][w].todo /\ to.cur = worker[d][w].cur
  BY DEF TypeInv, WorkersTyped, JoiningTyped, WorkerState
<1>2. OnlyWorker(d, w, to)
  BY OneWorker
<1> HIDE DEF to
<1> QED
  BY <1>1, <1>2 DEF OnlyWorker, AdmitInv, WorkerInv

LEMMA WorkersAdmit ==
  ASSUME TypeInv, AdmitInv, NEW d \in Device, NEW w \in Worker,
         FirstUnread(d, w) \/ LiveUnread(d, w) \/ WorkerStep(d, w)
  PROVE  WorkerInv'
<1>1. CASE FirstUnread(d, w) \/ LiveUnread(d, w)
  <2>1. /\ UNCHANGED welcomes /\ \A e \in Device : ingested'[e] \subseteq welcomes
        /\ ingested'[d] \subseteq welcomes
    BY <1>1 DEF FirstUnread, LiveUnread, TypeInv, InboxTyped, AdmitInv, WorkerInv
  <2>2. PICK todo \in SUBSET welcomes : Turn(d, w, todo)
    BY <1>1, <2>1 DEF FirstUnread, LiveUnread
  <2> QED
    BY <2>1, <2>2, TurnAdmits
<1>2. CASE MarkGroupJoined(d, w) \/ ReadFailed(d, w) \/ RunRejects(d, w)
  <2>1. /\ UNCHANGED <<welcomes, ingested>>
        /\ Turn(d, w, worker[d][w].todo) \/ Turn(d, w, {})
    BY <1>2 DEF MarkGroupJoined, ReadFailed, RunRejects, EndTurn
  <2>2. /\ worker[d][w].todo \in SUBSET welcomes /\ {} \in SUBSET welcomes
        /\ \A e \in Device : ingested'[e] \subseteq welcomes
    BY <2>1 DEF AdmitInv, WorkerInv
  <2> QED
    BY <2>1, <2>2, TurnAdmits
<1>3. CASE Join(d, w) \/ JoinFails(d, w) \/ ReadJoined(d, w) \/ AppendFailedWelcome(d, w)
  <2>1. PICK p \in {"readJoined", "log", "mark", "readFailed"} :
          StepWorker(d, w, [worker[d][w] EXCEPT !.pc = p])
    BY <1>3 DEF Join, JoinFails, ReadJoined, AppendFailedWelcome
  <2>2. worker[d][w].pc # "idle" /\ UNCHANGED <<welcomes, ingested>>
    BY <1>3 DEF Join, JoinFails, ReadJoined, AppendFailedWelcome
  <2> QED
    BY <2>1, <2>2, InTurnAdmits
<1> QED
  BY <1>1, <1>2, <1>3 DEF WorkerStep

\* A handler goes on with the KeyPackage it has.
LEMMA TaskAims ==
  ASSUME TypeInv, NEW d \in Device, NEW t \in Task, TaskStep(d, t)
  PROVE  /\ task[d][t].pc # "idle"
         /\ \E to : OnlyTask(d, t, to) /\ (to.pc # "idle" => to.kp = task[d][t].kp)
<1> DEFINE k == task[d][t]
<1>0. k.pc # "idle"
  BY DEF TaskStep, CheckSlot, NextGroup, Reserve, Invite, InviteFails, PersistInvitedKey,
     PersistFails
<1>1. k \in TaskState /\ k.slot \in Device
  BY <1>0 DEF TypeInv, TasksTyped
<1>2. NextTurn(k).pc # "idle" => NextTurn(k).kp = k.kp
  BY <1>1, NextTurnTyped
<1>3. CASE CheckSlot(d, t)
  <2>1. LET l == [k EXCEPT !.todo = Loaded(d)] IN l \in TaskState /\ l.kp = k.kp /\ l.slot = k.slot
    BY <1>1 DEF TaskState, Loaded
  <2> DEFINE to == NextTurn([k EXCEPT !.todo = Loaded(d)])
  <2>2. to.pc # "idle" => to.kp = k.kp
    BY <1>1, <2>1, NextTurnTyped
  <2>3. \/ StepTask(d, t, IdleTask) \/ StepTask(d, t, to)
    BY <1>3 DEF CheckSlot
  <2> HIDE DEF to
  <2> QED
    BY <1>0, <2>2, <2>3, IdleTyped, OneTask
<1>4. CASE NextGroup(d, t)
  <2>1. PICK g \in k.todo :
          \/ StepTask(d, t, NextTurn([k EXCEPT !.todo = @ \ {g}]))
          \/ StepTask(d, t, [k EXCEPT !.todo = @ \ {g}, !.pc = "list", !.group = g])
    BY <1>4 DEF NextGroup
  <2>2. LET l == [k EXCEPT !.todo = @ \ {g}] IN l \in TaskState /\ l.kp = k.kp /\ l.slot = k.slot
    BY <1>1 DEF TaskState
  <2> DEFINE next == NextTurn([k EXCEPT !.todo = @ \ {g}])
             list == [k EXCEPT !.todo = @ \ {g}, !.pc = "list", !.group = g]
  <2>3. next.pc # "idle" => next.kp = k.kp
    BY <1>1, <2>2, NextTurnTyped
  <2>4. list.kp = k.kp
    BY <1>1 DEF TaskState
  <2>5. StepTask(d, t, next) \/ StepTask(d, t, list)
    BY <2>1
  <2> HIDE DEF next, list
  <2> QED
    BY <1>0, <2>3, <2>4, <2>5, OneTask
<1>5. CASE Reserve(d, t)
  <2>1. [k EXCEPT !.pc = "invite"].kp = k.kp
    BY <1>1 DEF TaskState
  <2>2. StepTask(d, t, NextTurn(k)) \/ StepTask(d, t, [k EXCEPT !.pc = "invite"])
    BY <1>5 DEF Reserve
  <2> QED
    BY <1>0, <1>2, <2>1, <2>2, OneTask
<1>6. CASE Invite(d, t)
  <2>1. [k EXCEPT !.pc = "persist"].kp = k.kp
    BY <1>1 DEF TaskState
  <2> QED
    BY <1>0, <1>6, <2>1, OneTask DEF Invite
<1>7. CASE InviteFails(d, t) \/ PersistInvitedKey(d, t) \/ PersistFails(d, t)
  BY <1>0, <1>2, <1>7, OneTask DEF InviteFails, PersistInvitedKey, PersistFails, EndInvite
<1> QED
  BY <1>0, <1>3, <1>4, <1>5, <1>6, <1>7 DEF TaskStep

LEMMA TasksAdmit ==
  ASSUME TypeInv, AdmitInv, [Next]_vars
  PROVE  TaskInv'
<1>1. CASE UNCHANGED task
  BY <1>1 DEF AdmitInv, TaskInv
<1>2. ASSUME NEW d \in Device, NEW t \in Task, TaskStep(d, t)
      PROVE  TaskInv'
  BY <1>2, TaskAims DEF OnlyTask, AdmitInv, TaskInv
<1>3. ASSUME NEW d \in Device, NEW t \in Task, NEW s \in Device,
             HandleKeyPackageEvent(d, t, s) \/ SyncKnown(d, t, s)
      PROVE  TaskInv'
  <2>1. PICK v : StartTask(d, t, s, v) /\ v # 0
    BY <1>3 DEF HandleKeyPackageEvent, SyncKnown, TypeInv, RelayTyped
  <2> DEFINE to == [IdleTask EXCEPT !.pc = "wait", !.slot = s, !.kp = v, !.wait = joinBarrier[d]]
  <2>2. to.kp = v
    BY DEF IdleTask
  <2>3. StepTask(d, t, to)
    BY <2>1 DEF StartTask
  <2> HIDE DEF to
  <2> QED
    BY <2>1, <2>2, <2>3, OneTask DEF OnlyTask, AdmitInv, TaskInv
<1>4. ASSUME NEW d \in Device, NEW w \in Worker,
             MarkGroupJoined(d, w) \/ ReadFailed(d, w) \/ RunRejects(d, w)
      PROVE  TaskInv'
  <2>1. \A e \in Device, t \in Task : task'[e][t].pc = task[e][t].pc /\ task'[e][t].kp = task[e][t].kp
    <3>1. Release(d, w)
      BY <1>4 DEF MarkGroupJoined, ReadFailed, RunRejects, EndTurn
    <3> DEFINE Over(k) == [k EXCEPT !.wait = None]
    <3>2. \A e \in Device, t \in Task : task'[e][t] \in {task[e][t], Over(task[e][t])}
      BY <3>1 DEF Release, TypeInv, TasksTyped
    <3>3. \A e \in Device, t \in Task :
            Over(task[e][t]).pc = task[e][t].pc /\ Over(task[e][t]).kp = task[e][t].kp
      BY DEF TypeInv, TasksTyped, TaskState
    <3> HIDE DEF Over
    <3> QED
      BY <3>2, <3>3
  <2> QED
    BY <2>1 DEF AdmitInv, TaskInv
<1>5. ASSUME NEW d \in Device, Reload(d)
      PROVE  TaskInv'
  <2>1. /\ \A e \in Device \ {d} : task'[e] = task[e]
        /\ \A t \in Task : task'[d][t] = IdleTask
    BY <1>5 DEF Reload, TypeInv, TasksTyped
  <2> QED
    BY <2>1, IdleTyped DEF AdmitInv, TaskInv
<1>6. ASSUME NEW d \in Device, NEW w \in Worker,
             \/ FirstUnread(d, w) \/ LiveUnread(d, w) \/ Join(d, w) \/ JoinFails(d, w)
             \/ ReadJoined(d, w) \/ AppendFailedWelcome(d, w)
      PROVE  UNCHANGED task
  BY <1>6 DEF FirstUnread, LiveUnread, Join, JoinFails, ReadJoined, AppendFailedWelcome
<1>7. ASSUME NEW d \in Device, ForgetStep(d) \/ \E s \in Device : ForgetSiblingDevice(d, s)
      PROVE  UNCHANGED task
  BY <1>7 DEF ForgetStep, RequestKeyPackages, RequestFails, RemoveLeaf, Remove, RemoveIsStale,
     RetryRemove, ForgetFails, MarkSlotForgotten, RefreshForgotten, ForgetSiblingDevice
<1>8. ASSUME NEW d \in Device, FirstFails(d) \/ Rotate(d) \/ CreateKeyPackage(d)
      PROVE  UNCHANGED task
  BY <1>8 DEF FirstFails, Rotate, CreateKeyPackage
<1>9. CASE UNCHANGED vars
  BY <1>1, <1>9 DEF vars
<1> QED
  BY <1>1, <1>2, <1>3, <1>4, <1>5, <1>6, <1>7, <1>8, <1>9 DEF Next, WorkerStep

\* The steps that change no tree, Welcome or membership.
Elsewhere(d) ==
  \/ FirstFails(d) \/ Rotate(d) \/ CreateKeyPackage(d) \/ RequestKeyPackages(d) \/ RequestFails(d)
  \/ RemoveIsStale(d) \/ ForgetFails(d) \/ MarkSlotForgotten(d) \/ RefreshForgotten(d)
  \/ \E s \in Device : ForgetSiblingDevice(d, s)

LEMMA ElsewhereKeeps ==
  ASSUME NEW d, Elsewhere(d)
  PROVE  UNCHANGED <<welcomes, tree, own, ingested, worker>>
BY DEF Elsewhere, FirstFails, Rotate, CreateKeyPackage, RequestKeyPackages, RequestFails,
   RemoveIsStale, ForgetFails, MarkSlotForgotten, RefreshForgotten, ForgetSiblingDevice

LEMMA TaskStepKeeps ==
  ASSUME NEW d, NEW t,
         \/ CheckSlot(d, t) \/ NextGroup(d, t) \/ Reserve(d, t)
         \/ InviteFails(d, t) \/ PersistInvitedKey(d, t) \/ PersistFails(d, t)
         \/ \E s \in Device : HandleKeyPackageEvent(d, t, s) \/ SyncKnown(d, t, s)
  PROVE  UNCHANGED <<welcomes, tree, own, ingested, worker, forget>>
BY DEF CheckSlot, NextGroup, Reserve, InviteFails, PersistInvitedKey, PersistFails,
   HandleKeyPackageEvent, SyncKnown, StartTask

LEMMA WorkerStepKeeps ==
  ASSUME NEW d, NEW w, FirstUnread(d, w) \/ LiveUnread(d, w) \/ WorkerStep(d, w)
  PROVE  UNCHANGED <<welcomes, tree, forget>> /\ (Join(d, w) \/ UNCHANGED own)
BY DEF FirstUnread, LiveUnread, WorkerStep, JoinFails, ReadJoined, MarkGroupJoined,
   AppendFailedWelcome, ReadFailed, RunRejects, Join

LEMMA RetryKeeps ==
  ASSUME NEW d, RetryRemove(d), ~\E n : Remove(d, n)
  PROVE  UNCHANGED <<welcomes, tree, own, ingested, worker>>
BY DEF RetryRemove

LEMMA AdmitSame ==
  ASSUME AdmitInv, UNCHANGED <<welcomes, tree, own>>
  PROVE  WelcomesInv' /\ TreeInv' /\ OwnInv'
BY DEF AdmitInv, WelcomesInv, TreeInv, OwnInv

LEMMA AdmitStep == TypeInv /\ AdmitInv /\ [Next]_vars => AdmitInv' /\ welcomes \subseteq welcomes'
<1> SUFFICES ASSUME TypeInv, AdmitInv, [Next]_vars
             PROVE  AdmitInv' /\ welcomes \subseteq welcomes'
  OBVIOUS
<1> DEFINE Goal == WelcomesInv' /\ TreeInv' /\ OwnInv' /\ WorkerInv' /\ welcomes \subseteq welcomes'
<1> SUFFICES Goal
  BY TasksAdmit DEF AdmitInv
<1>1. CASE UNCHANGED <<welcomes, tree, own, ingested, worker>>
  BY <1>1, AdmitSame DEF AdmitInv, WorkerInv
<1>2. ASSUME NEW d \in Device, NEW w \in Worker,
             FirstUnread(d, w) \/ LiveUnread(d, w) \/ WorkerStep(d, w)
      PROVE  Goal
  <2>1. WorkerInv'
    BY <1>2, WorkersAdmit
  <2>2. UNCHANGED <<welcomes, tree>> /\ (Join(d, w) \/ UNCHANGED own)
    BY <1>2, WorkerStepKeeps
  <2>3. OwnInv'
    BY <2>2, JoinAdmits, AdmitSame
  <2> QED
    BY <2>1, <2>2, <2>3 DEF AdmitInv, WelcomesInv, TreeInv
<1>3. ASSUME NEW d \in Device, NEW t \in Task, Invite(d, t)
      PROVE  Goal
  BY <1>3, InviteAdmits
<1>4. ASSUME NEW d \in Device, NEW n, forget[d].pc \in {"remove", "retry"}, Remove(d, n)
      PROVE  Goal
  <2>1. forget[d].group \in Group
    BY <1>4 DEF TypeInv, ForgetsTyped
  <2>2. UNCHANGED <<welcomes, own, ingested, worker>>
    BY <1>4 DEF Remove
  <2> QED
    BY <1>4, <2>1, <2>2, RemoveAdmits DEF AdmitInv, WelcomesInv, OwnInv, WorkerInv
<1>5. ASSUME NEW d \in Device, RemoveLeaf(d) \/ RetryRemove(d)
      PROVE  Goal
  <2>1. forget[d].pc \in {"remove", "retry"}
    BY <1>5 DEF RemoveLeaf, RetryRemove
  <2>2. CASE \E n : Remove(d, n)
    BY <1>4, <2>1, <2>2
  <2>3. CASE ~\E n : Remove(d, n)
    BY <1>1, <1>5, <2>3, RetryKeeps DEF RemoveLeaf
  <2> QED
    BY <2>2, <2>3
<1>6. ASSUME NEW d \in Device, Elsewhere(d)
      PROVE  Goal
  BY <1>1, <1>6, ElsewhereKeeps
<1>7. ASSUME NEW d \in Device, NEW t \in Task,
             \/ CheckSlot(d, t) \/ NextGroup(d, t) \/ Reserve(d, t)
             \/ InviteFails(d, t) \/ PersistInvitedKey(d, t) \/ PersistFails(d, t)
             \/ \E s \in Device : HandleKeyPackageEvent(d, t, s) \/ SyncKnown(d, t, s)
      PROVE  Goal
  BY <1>1, <1>7, TaskStepKeeps
<1>8. ASSUME NEW d \in Device, Reload(d)
      PROVE  Goal
  <2>1. UNCHANGED <<welcomes, tree, own, ingested>>
    BY <1>8 DEF Reload
  <2>2. \A e \in Device, w \in Worker : worker'[e][w] \in {worker[e][w], IdleWorker}
    BY <1>8 DEF Reload, TypeInv, WorkersTyped, JoiningTyped
  <2>3. WorkerInv'
    BY <2>1, <2>2 DEF IdleWorker, AdmitInv, WorkerInv
  <2> QED
    BY <2>1, <2>3, AdmitSame
<1>9. CASE UNCHANGED vars
  BY <1>1, <1>9 DEF vars
<1> QED
  BY <1>1, <1>2, <1>3, <1>5, <1>6, <1>7, <1>8, <1>9 DEF Next, TaskStep, ForgetStep, Elsewhere

LEMMA AdmitInit == Init => AdmitInv
<1> SUFFICES ASSUME Init PROVE AdmitInv
  OBVIOUS
<1>1. WelcomesInv
  BY FS_EmptySet DEF Init, WelcomesInv
<1>2. TreeInv
  <2>1. \A g \in Group : tree[g] = <<Founder(g)>>
    BY DEF Init, Founder
  <2>2. \A g \in Group : DOMAIN tree[g] = {1} /\ tree[g][1] = Founder(g)
    BY <2>1
  <2> QED
    BY <2>2 DEF TreeInv, Member
<1>3. OwnInv
  BY DEF Init, OwnInv, Member, Founder
<1>4. TaskInv /\ WorkerInv
  BY IdleTyped DEF Init, TaskInv, WorkerInv, IdleWorker
<1> QED
  BY <1>1, <1>2, <1>3, <1>4 DEF AdmitInv

LEMMA AdmitHolds == Spec => []AdmitInv
BY AdmitInit, AdmitStep, TypeInvHolds, PTL DEF Spec

----------------------------------------------------------------------------
(* What a sweep leaves of the forgotten device. *)

\* The positions of s in the tree of g, and those that are not the own leaf of d.
Of(g, s) == {n \in DOMAIN tree[g] : tree[g][n] # None /\ tree[g][n].dev = s}

Others(d, g) == {n \in DOMAIN tree[g] : tree[g][n] \notin {None, [dev |-> d, kp |-> own[d][g]]}}

Once(d, s, g) == Admissions(g, d) <= 1 /\ Admissions(g, s) <= 1

\* The sweep f of d still has every leaf of the forgotten device ahead of it, and
\* a second lookup will find them, too.
Ahead(d, f) ==
  \/ Of(f.group, f.slot) = {}
  \/ /\ Of(f.group, f.slot) \subseteq f.leaves
     /\ [dev |-> f.slot, kp |-> f.kp] \in Leaves(f.group) \/ Others(d, f.group) \subseteq f.leaves

Swept(d, f) == \A g \in f.done : Once(d, f.slot, g) => Of(g, f.slot) = {}

SweepOf(d, f) ==
  /\ IF f.pc = "idle" THEN f.done = {} ELSE f.slot # d /\ f.todo \subseteq Loaded(d)
  /\ f.pc \in {"remove", "retry"} =>
       /\ f.group \in Loaded(d)
       /\ f.group \notin f.escaped /\ Once(d, f.slot, f.group) => Ahead(d, f)
  /\ Swept(d, f)

SweepInv == \A d \in Device : SweepOf(d, forget[d])

\* Where a device was admitted once it has at most one position.
LEMMA OnePosition ==
  ASSUME TypeInv, AdmitInv, NEW g \in Group, NEW s \in Device, Admissions(g, s) <= 1,
         NEW n \in Of(g, s), NEW m \in Of(g, s)
  PROVE  n = m
<1>1. /\ n \in DOMAIN tree[g] /\ tree[g][n] # None /\ tree[g][n].dev = s
      /\ m \in DOMAIN tree[g] /\ tree[g][m] # None /\ tree[g][m].dev = s
  BY DEF Of
<1>2. tree[g][n] \in Leaf /\ tree[g][m] \in Leaf
  BY <1>1, TreeTyped DEF TypeInv
<1>3. Member(welcomes, g, tree[g][n]) /\ Member(welcomes, g, tree[g][m])
  BY <1>1 DEF AdmitInv, TreeInv
<1>4. tree[g][n] = tree[g][m]
  BY <1>1, <1>2, <1>3, OneAdmission DEF AdmitInv
<1> QED
  BY <1>1, <1>4 DEF AdmitInv, TreeInv

LEMMA OfOthers ==
  ASSUME NEW g, NEW d, NEW s, s # d
  PROVE  Of(g, s) \subseteq Others(d, g)
BY DEF Of, Others

LEMMA OnceBefore ==
  ASSUME WelcomesInv', welcomes \subseteq welcomes', NEW d, NEW s, NEW g, Once(d, s, g)'
  PROVE  Once(d, s, g)
BY AdmissionsGrow DEF Once

\* A step that changes no tree keeps a sweep as it is: where a device was admitted
\* once, it keeps its own leaf.
LEMMA SweepStays ==
  ASSUME WelcomesInv', welcomes \subseteq welcomes', NEW d \in Device, NEW f, UNCHANGED tree,
         \A g \in Loaded(d) : g \in Loaded(d)' /\ (Admissions(g, d)' <= 1 => own'[d][g] = own[d][g]),
         SweepOf(d, f)
  PROVE  SweepOf(d, f)'
<1>1. \A g, s : Of(g, s)' = Of(g, s) /\ Leaves(g)' = Leaves(g)
  BY DEF Of, Leaves
<1>2. Loaded(d) \subseteq Loaded(d)'
  OBVIOUS
<1>3. Swept(d, f)'
  BY <1>1, OnceBefore DEF SweepOf, Swept
<1>4. ASSUME f.pc \in {"remove", "retry"}, f.group \notin f.escaped, Once(d, f.slot, f.group)'
      PROVE  Ahead(d, f)'
  <2>1. Once(d, f.slot, f.group) /\ f.group \in Loaded(d) /\ Ahead(d, f)
    BY <1>4, OnceBefore DEF SweepOf
  <2>2. own'[d][f.group] = own[d][f.group]
    BY <1>4, <2>1 DEF Once
  <2>3. Others(d, f.group)' = Others(d, f.group)
    BY <2>2 DEF Others
  <2> QED
    BY <1>1, <2>1, <2>3 DEF Ahead
<1> QED
  BY <1>2, <1>3, <1>4 DEF SweepOf

\* What a removal leaves.
LEMMA BlankedOf ==
  ASSUME TypeInv, NEW g \in Group, NEW n, Blanked(g, n), UNCHANGED own, NEW h \in Group,
         NEW d, NEW s \in Device
  PROVE  /\ Of(h, s)' = Of(h, s) \ (IF h = g THEN {n} ELSE {})
         /\ Others(d, h)' = Others(d, h) \ (IF h = g THEN {n} ELSE {})
         /\ \A m \in Of(h, s)' : tree[h][m] \in Leaves(h)'
<1>1. CASE h = g
  <2>1. ASSUME NEW m \in DOMAIN tree'[g] PROVE tree'[g][m] = IF m = n THEN None ELSE tree[g][m]
    BY DEF Blanked
  <2>2. DOMAIN tree'[g] = DOMAIN tree[g]
    BY DEF Blanked
  <2>3. Of(g, s)' = Of(g, s) \ {n}
    BY <2>1, <2>2 DEF Of
  <2>4. Others(d, g)' = Others(d, g) \ {n}
    BY <2>1, <2>2 DEF Others
  <2>5. \A m \in Of(g, s)' : tree[g][m] = tree'[g][m] /\ tree'[g][m] \in Leaves(g)'
    BY <2>1 DEF Of, Leaves
  <2> QED
    BY <1>1, <2>3, <2>4, <2>5
<1>2. CASE h # g
  <2>1. tree'[h] = tree[h]
    BY <1>2 DEF Blanked
  <2> QED
    BY <1>2, <2>1 DEF Of, Others, Leaves
<1> QED
  BY <1>1, <1>2

\* After a removal the leaf of the KeyPackage event is where the forgotten device is.
LEMMA StillThere ==
  ASSUME TypeInv, AdmitInv, NEW g \in Group, NEW n, Blanked(g, n), UNCHANGED own,
         NEW h \in Group, NEW d \in Device, NEW s \in Device, s # d, Admissions(h, s) <= 1,
         NEW v, [dev |-> s, kp |-> v] \in Leaves(h), Of(h, s)' # {}
  PROVE  [dev |-> s, kp |-> v] \in Leaves(h)'
<1>1. PICK m \in Of(h, s)' : TRUE
  OBVIOUS
<1>2. m \in Of(h, s) /\ tree[h][m] \in Leaves(h)'
  <2>1. Of(h, s)' = Of(h, s) \ (IF h = g THEN {n} ELSE {})
    BY BlankedOf
  <2>2. \A q \in Of(h, s)' : tree[h][q] \in Leaves(h)'
    BY BlankedOf
  <2> QED
    BY <1>1, <2>1, <2>2
<1>3. PICK q \in Of(h, s) : tree[h][q] = [dev |-> s, kp |-> v]
  BY DEF Of, Leaves
<1>4. q = m
  BY <1>2, <1>3, OnePosition
<1> QED
  BY <1>2, <1>3, <1>4

\* A removal, by whomever, brings no leaf back.
LEMMA SweepBlanked ==
  ASSUME TypeInv, AdmitInv, NEW g \in Group, NEW n, Blanked(g, n), UNCHANGED <<own, welcomes>>,
         NEW d \in Device, NEW f \in ForgetState, f.pc # "idle" => f.slot \in Device,
         f.pc \in {"remove", "retry"} => f.group \in Group, SweepOf(d, f)
  PROVE  SweepOf(d, f)'
<1>1. \A h, s : Once(d, s, h)' = Once(d, s, h)
  BY DEF Once, Admissions
<1>2. Loaded(d)' = Loaded(d)
  BY DEF Loaded
<1>3. Swept(d, f)'
  <2> SUFFICES ASSUME NEW h \in f.done, Once(d, f.slot, h)' PROVE Of(h, f.slot)' = {}
    BY DEF Swept
  <2>1. f.pc # "idle" /\ f.slot \in Device /\ h \in Group
    BY DEF SweepOf, ForgetState
  <2>2. Of(h, f.slot) = {}
    BY <1>1 DEF SweepOf, Swept
  <2> QED
    BY <2>1, <2>2, BlankedOf
<1>4. ASSUME f.pc \in {"remove", "retry"}, f.group \notin f.escaped, Once(d, f.slot, f.group)'
      PROVE  Ahead(d, f)'
  <2>1. f.slot \in Device /\ f.group \in Group /\ f.slot # d
    BY <1>4 DEF SweepOf
  <2>2. Ahead(d, f) /\ Admissions(f.group, f.slot) <= 1
    BY <1>1, <1>4 DEF SweepOf, Once
  <2>3. Of(f.group, f.slot)' \subseteq Of(f.group, f.slot) /\ Others(d, f.group)' \subseteq Others(d, f.group)
    BY <2>1, BlankedOf
  <2>4. CASE Of(f.group, f.slot)' = {}
    BY <2>4 DEF Ahead
  <2>5. CASE Of(f.group, f.slot)' # {} /\ [dev |-> f.slot, kp |-> f.kp] \in Leaves(f.group)
    <3>1. [dev |-> f.slot, kp |-> f.kp] \in Leaves(f.group)'
      BY <2>1, <2>2, <2>5, StillThere
    <3> QED
      BY <2>2, <2>3, <2>5, <3>1 DEF Ahead
  <2>6. CASE Of(f.group, f.slot)' # {} /\ [dev |-> f.slot, kp |-> f.kp] \notin Leaves(f.group)
    BY <2>2, <2>3, <2>6 DEF Ahead
  <2> QED
    BY <2>4, <2>5, <2>6
<1> QED
  BY <1>2, <1>3, <1>4 DEF SweepOf

\* An invite brings a leaf that the sweeps it escapes know of.
LEMMA SweepInvited ==
  ASSUME TypeInv, AdmitInv, AdmitInv', SweepInv, NEW e \in Device, NEW t \in Task, Invite(e, t),
         NEW d \in Device, NEW f, f = forget[d], NEW b, b = forget'[d],
         NEW k, k = task[e][t]
  PROVE  SweepOf(d, b)'
<1> DEFINE g == k.group
           leaf == [dev |-> k.slot, kp |-> k.kp]
<1>1. PICK p : Added(g, leaf, p)
  BY InviteAdmits
<1>2. g \in Group /\ k.slot \in Device /\ leaf.dev = k.slot
  BY DEF TypeInv, TasksTyped, Invite
<1>3. welcomes \subseteq welcomes' /\ UNCHANGED own
  BY InviteAdmits DEF Invite
<1>5. /\ b.pc = f.pc /\ b.slot = f.slot /\ b.kp = f.kp /\ b.todo = f.todo /\ b.group = f.group
      /\ b.leaves = f.leaves /\ b.escaped = f.escaped \union Escapes(f, g, leaf)
      /\ b.done = IF f.slot = k.slot THEN f.done \ {g} ELSE f.done
  <2>1. /\ forget'[d].pc = forget[d].pc /\ forget'[d].slot = forget[d].slot
        /\ forget'[d].kp = forget[d].kp /\ forget'[d].todo = forget[d].todo
        /\ forget'[d].group = forget[d].group /\ forget'[d].leaves = forget[d].leaves
        /\ forget'[d].escaped = forget[d].escaped \union Escapes(forget[d], g, leaf)
        /\ forget'[d].done = IF forget[d].slot = k.slot THEN forget[d].done \ {g}
                             ELSE forget[d].done
    BY ONLY TypeInv, e \in Device, t \in Task, Invite(e, t), d \in Device, k = task[e][t],
            InviteForgets
  <2> QED
    BY ONLY <2>1, b = forget'[d], f = forget[d]
<1>6. SweepOf(d, f) /\ f \in ForgetState
  BY DEF SweepInv, TypeInv, ForgetsTyped
<1>7. ASSUME NEW h \in Group, NEW s, h # g \/ s # k.slot
      PROVE  Of(h, s)' = Of(h, s)
  <2>1. CASE h = g
    <3>1. \A n \in DOMAIN tree[g] \ {p} : n \in DOMAIN tree'[g] /\ tree'[g][n] = tree[g][n]
      BY <1>1 DEF Added
    <3>2. /\ p \notin DOMAIN tree[g] \/ tree[g][p] = None
          /\ DOMAIN tree'[g] = DOMAIN tree[g] \union {p} /\ tree'[g][p].dev # s
      BY <1>1, <1>2, <1>7, <2>1 DEF Added
    <3> QED
      BY <2>1, <3>1, <3>2 DEF Of
  <2>2. CASE h # g
    BY <1>1, <2>2 DEF Added, Of
  <2> QED
    BY <2>1, <2>2
<1>8. Loaded(d)' = Loaded(d)
  BY <1>3 DEF Loaded
<1>9. \A s, h : Once(d, s, h)' => Once(d, s, h)
  BY <1>3, OnceBefore DEF AdmitInv
<1>10. Swept(d, b)'
  <2> SUFFICES ASSUME NEW h \in b.done, Once(d, b.slot, h)' PROVE Of(h, b.slot)' = {}
    BY DEF Swept
  <2>1. h \in f.done /\ h \in Group /\ (h # g \/ f.slot # k.slot)
    BY <1>5, <1>6 DEF ForgetState
  <2>2. Of(h, f.slot) = {}
    BY <1>5, <1>6, <1>9, <2>1 DEF SweepOf, Swept
  <2> QED
    BY <1>5, <1>7, <2>1, <2>2
<1>11. ASSUME b.pc \in {"remove", "retry"}, b.group \notin b.escaped, Once(d, b.slot, b.group)'
       PROVE  Ahead(d, b)'
  <2>1. Once(d, f.slot, f.group) /\ f.group \notin f.escaped /\ f.group \in Group
    BY <1>5, <1>9, <1>11 DEF TypeInv, ForgetsTyped
  <2>2. Ahead(d, f)
    BY <1>5, <1>6, <1>11, <2>1 DEF SweepOf
  <2>3. CASE f.group # g
    <3>1. tree'[f.group] = tree[f.group]
      BY <1>1, <2>1, <2>3 DEF Added
    <3>2. /\ Of(f.group, f.slot)' = Of(f.group, f.slot) /\ Leaves(f.group)' = Leaves(f.group)
          /\ Others(d, f.group)' = Others(d, f.group)
      BY <1>3, <3>1 DEF Of, Leaves, Others
    <3> QED
      BY <1>5, <2>2, <3>2 DEF Ahead
  <2>4. CASE f.group = g
    <3>1. k.slot # f.slot /\ [dev |-> f.slot, kp |-> f.kp] \in Leaves(g)
      BY <1>2, <1>5, <1>11, <2>4 DEF Escapes
    <3>2. Of(g, f.slot)' = Of(g, f.slot)
      BY <1>2, <1>7, <3>1
    <3>3. Leaves(g) \subseteq Leaves(g)'
      <4>1. \A n \in DOMAIN tree[g] : tree[g][n] # None => n # p
        BY <1>1 DEF Added
      <4>2. \A n \in DOMAIN tree[g] : n # p => n \in DOMAIN tree'[g] /\ tree'[g][n] = tree[g][n]
        BY <1>1 DEF Added
      <4> QED
        BY <4>1, <4>2 DEF Leaves
    <3> QED
      BY <1>5, <2>2, <2>4, <3>1, <3>2, <3>3 DEF Ahead
  <2> QED
    BY <2>3, <2>4
<1>12. IF b.pc = "idle" THEN b.done = {} ELSE b.slot # d /\ b.todo \subseteq Loaded(d)'
  BY <1>5, <1>6, <1>8 DEF SweepOf
<1>13. b.pc \in {"remove", "retry"} => b.group \in Loaded(d)'
  BY <1>5, <1>6, <1>8 DEF SweepOf
<1> QED
  BY <1>10, <1>11, <1>12, <1>13 DEF SweepOf

\* The loop over the leaves goes on, or the group is done.
LEMMA SweepGoesOn ==
  ASSUME NEW d \in Device, NEW f \in ForgetState, f.slot # d, f.todo \subseteq Loaded(d)',
         f.group \in Loaded(d)', Swept(d, f)',
         f.group \notin f.escaped /\ Once(d, f.slot, f.group)' => Ahead(d, f)'
  PROVE  SweepOf(d, NextLeaf(f))'
<1>1. CASE f.leaves # {}
  <2> DEFINE b == [f EXCEPT !.pc = "remove"]
  <2>1. /\ b.pc = "remove" /\ b.slot = f.slot /\ b.kp = f.kp /\ b.todo = f.todo
        /\ b.group = f.group /\ b.leaves = f.leaves /\ b.escaped = f.escaped /\ b.done = f.done
    BY DEF ForgetState
  <2>2. NextLeaf(f) = b
    BY <1>1 DEF NextLeaf
  <2> HIDE DEF b
  <2>3. SweepOf(d, b)'
    BY <2>1 DEF SweepOf, Swept, Ahead
  <2> QED
    BY <2>2, <2>3
<1>2. CASE f.leaves = {}
  <2> DEFINE b == EndGroup(f)
  <2>1. /\ b.pc = "groups" /\ b.slot = f.slot /\ b.todo = f.todo
        /\ b.done = f.done \union ({f.group} \ f.escaped)
    BY DEF EndGroup, ForgetState
  <2>2. NextLeaf(f) = b
    BY <1>2 DEF NextLeaf
  <2> HIDE DEF b
  <2>3. f.group \notin f.escaped /\ Once(d, f.slot, f.group)' => Of(f.group, f.slot)' = {}
    BY <1>2 DEF Ahead
  <2>4. SweepOf(d, b)'
    BY <2>1, <2>3 DEF SweepOf, Swept
  <2> QED
    BY <2>2, <2>4
<1> QED
  BY <1>1, <1>2

\* The sweep behind the index whose turn it was.
LEMMA BehindFirst ==
  ASSUME NEW f \in ForgetState
  PROVE  LET b == [f EXCEPT !.leaves = @ \ {First(@)}] IN
         /\ b \in ForgetState /\ b.pc = f.pc /\ b.slot = f.slot /\ b.kp = f.kp /\ b.todo = f.todo
         /\ b.group = f.group /\ b.escaped = f.escaped /\ b.done = f.done
         /\ b.leaves = f.leaves \ {First(f.leaves)}
BY DEF ForgetState

\* A step beside the trees and Welcomes leaves swept what is.
LEMMA SweepSame ==
  ASSUME UNCHANGED tree, UNCHANGED welcomes, NEW d, NEW f, Swept(d, f),
         NEW b, b.slot = f.slot, b.done = f.done
  PROVE  Swept(d, b)'
<1>1. \A s, g : (Once(d, s, g)' => Once(d, s, g)) /\ Of(g, s)' = Of(g, s)
  BY DEF Once, Admissions, Of
<1> QED
  BY <1>1 DEF Swept

\* The own removal: what was found at the first index is gone, or what a new lookup
\* found first.
LEMMA SweepRemoves ==
  ASSUME TypeInv, AdmitInv, SweepInv, NEW d \in Device, NEW f, f = forget[d], NEW n, Remove(d, n),
         \/ f.pc = "remove" /\ n = First(f.leaves)
         \/ /\ f.pc = "retry" /\ LeafIndexes(d, f.group, f.slot, f.kp) # {}
            /\ n = First(LeafIndexes(d, f.group, f.slot, f.kp)),
         NEW b, b = [f EXCEPT !.leaves = @ \ {First(@)}],
         NEW g, g = f.group, NEW s, s = f.slot
  PROVE  SweepOf(d, NextLeaf(b))'
<1> DEFINE event == [dev |-> s, kp |-> f.kp]
           again == LeafIndexes(d, g, s, f.kp)
<1>1. f \in ForgetState /\ f.pc \in {"remove", "retry"} /\ s \in Device /\ g \in Group
  BY DEF TypeInv, ForgetsTyped
<1>2. SweepOf(d, f) /\ s # d /\ g \in Loaded(d) /\ f.todo \subseteq Loaded(d)
  BY <1>1 DEF SweepInv, SweepOf
<1>3. Blanked(g, n) /\ UNCHANGED own /\ UNCHANGED welcomes
  BY <1>1, RemoveBlanks DEF TypeInv, Remove
<1>4. /\ b \in ForgetState /\ b.slot = s /\ b.kp = f.kp /\ b.todo = f.todo /\ b.group = g
      /\ b.escaped = f.escaped /\ b.done = f.done /\ b.leaves = f.leaves \ {First(f.leaves)}
  BY <1>1, BehindFirst
<1>5. Loaded(d)' = Loaded(d) /\ \A h, e : Once(d, e, h)' = Once(d, e, h)
  BY <1>3 DEF Loaded, Once, Admissions
<1>6. SweepOf(d, f)'
  BY <1>1, <1>2, <1>3, SweepBlanked
<1>7. Swept(d, b)'
  BY <1>4, <1>6 DEF SweepOf, Swept
<1>8. ASSUME g \notin f.escaped, Once(d, s, g)
      PROVE  Ahead(d, b)'
  <2>1. Ahead(d, f) /\ Admissions(g, s) <= 1
    BY <1>1, <1>2, <1>8 DEF SweepOf, Once
  <2>2. Of(g, s)' = Of(g, s) \ {n} /\ Others(d, g)' = Others(d, g) \ {n}
    <3>1. g \in Group /\ s \in Device
      BY <1>1
    <3>2. Of(g, s)' = Of(g, s) \ (IF g = g THEN {n} ELSE {})
      BY ONLY TypeInv, <1>3, <3>1, BlankedOf
    <3>3. Others(d, g)' = Others(d, g) \ (IF g = g THEN {n} ELSE {})
      BY ONLY TypeInv, <1>3, <3>1, BlankedOf
    <3> QED
      BY <3>2, <3>3
  <2>3. Of(g, s) \subseteq Others(d, g)
    BY <1>2, OfOthers
  <2>4. CASE Of(g, s)' = {}
    BY <1>4, <2>4 DEF Ahead
  <2>5. CASE Of(g, s)' # {} /\ n = First(f.leaves)
    <3>1. Of(g, s)' \subseteq b.leaves
      BY <1>4, <2>1, <2>2, <2>5 DEF Ahead
    <3>2. CASE event \in Leaves(g)
      BY <1>1, <1>2, <1>3, <1>4, <2>1, <2>5, <3>1, <3>2, StillThere DEF Ahead
    <3>3. CASE event \notin Leaves(g)
      BY <1>4, <2>1, <2>2, <2>5, <3>1, <3>3 DEF Ahead
    <3> QED
      BY <3>2, <3>3
  <2>6. CASE Of(g, s)' # {} /\ again # {} /\ n = First(again)
    <3>1. DOMAIN tree[g] \in SUBSET Nat
      BY <1>1, TreeTyped DEF TypeInv
    <3>2. again \in SUBSET Nat
      BY <3>1 DEF LeafIndexes
    <3>3. n \in again /\ \A m \in again : n <= m
      BY <2>6, <3>2, FirstLeast
    <3>4. event \notin Leaves(g)
      <4> SUFFICES ASSUME event \in Leaves(g) PROVE FALSE
        OBVIOUS
      <4>1. PICK m \in DOMAIN tree[g] : tree[g][m] = event
        BY DEF Leaves
      <4>2. again = {q \in DOMAIN tree[g] : tree[g][q] = event}
        BY <4>1 DEF LeafIndexes
      <4>3. n \in Of(g, s)
        BY <3>3, <4>2, NoneAssumption, <1>1 DEF Of, Leaves, Leaf, ForgetState
      <4>4. \A q \in Of(g, s) : q = n
        BY <1>1, <2>1, <4>3, OnePosition
      <4> QED
        BY <2>2, <2>6, <4>4
    <3>5. again = Others(d, g)
      <4>1. \A q \in DOMAIN tree[g] : tree[g][q] # event
        BY <3>4, NoneAssumption, <1>1 DEF Leaves, Leaf, ForgetState
      <4>2. {q \in DOMAIN tree[g] : tree[g][q] = event} = {}
        BY <4>1
      <4> QED
        BY ONLY <4>2 DEF LeafIndexes, Others
    <3>6. Others(d, g) \subseteq f.leaves
      BY <2>1, <2>2, <2>6, <3>4 DEF Ahead
    <3>7. Others(d, g) \ {n} \subseteq f.leaves \ {First(f.leaves)}
      <4>1. f.leaves \in SUBSET Nat /\ f.leaves # {}
        BY <1>1, <3>3, <3>5, <3>6 DEF ForgetState
      <4>2. \A m \in f.leaves : First(f.leaves) <= m
        BY <4>1, FirstLeast
      <4>3. First(f.leaves) \in f.leaves
        BY <4>1, FirstLeast
      <4>4. First(f.leaves) \in Others(d, g) => First(f.leaves) = n
        BY <3>2, <3>3, <3>5, <3>6, <4>1, <4>2, <4>3
      <4> QED
        BY <3>6, <4>4
    <3> QED
      BY <1>4, <2>2, <2>3, <3>7 DEF Ahead
  <2> QED
    BY <2>4, <2>5, <2>6
<1>9. b.slot # d /\ b.todo \subseteq Loaded(d)' /\ b.group \in Loaded(d)'
  BY <1>2, <1>4, <1>5
<1>10. b.group \notin b.escaped /\ Once(d, b.slot, b.group)' => Ahead(d, b)'
  BY <1>4, <1>5, <1>8
<1> QED
  BY ONLY d \in Device, <1>4, <1>7, <1>9, <1>10, SweepGoesOn

\* The second lookup finds nothing, so nothing is left.
LEMMA SweepFindsNone ==
  ASSUME TypeInv, AdmitInv, SweepInv, NEW d \in Device, NEW f, f = forget[d], f.pc = "retry",
         LeafIndexes(d, f.group, f.slot, f.kp) = {},
         UNCHANGED tree, UNCHANGED own, UNCHANGED welcomes,
         NEW b, b = [f EXCEPT !.leaves = @ \ {First(@)}]
  PROVE  SweepOf(d, NextLeaf(b))'
<1>1. f \in ForgetState /\ f.slot \in Device /\ f.group \in Group
  BY DEF TypeInv, ForgetsTyped
<1>2. SweepOf(d, f) /\ f.slot # d /\ f.group \in Loaded(d) /\ f.todo \subseteq Loaded(d)
  BY <1>1 DEF SweepInv, SweepOf
<1>3. /\ b \in ForgetState /\ b.slot = f.slot /\ b.todo = f.todo /\ b.group = f.group
      /\ b.escaped = f.escaped /\ b.done = f.done
  BY <1>1, BehindFirst
<1>4. Others(d, f.group) = {}
  BY DEF LeafIndexes, Others
<1>5. Of(f.group, f.slot)' = {}
  BY <1>2, <1>4, OfOthers DEF Of
<1>6. Loaded(d)' = Loaded(d)
  BY DEF Loaded
<1>7. Swept(d, b)'
  BY <1>2, <1>3, SweepSame DEF SweepOf
<1> QED
  BY <1>2, <1>3, <1>5, <1>6, <1>7, SweepGoesOn DEF Ahead

\* The lookup of a group has every leaf of the forgotten device.
LEMMA SweepStarts ==
  ASSUME TypeInv, AdmitInv, SweepInv, NEW d \in Device, RequestKeyPackages(d),
         NEW f, f = forget[d], NEW g \in f.todo, NEW v, v = published[f.slot],
         NEW b, b = [f EXCEPT !.todo = @ \ {g}, !.group = g, !.kp = v,
                              !.leaves = LeafIndexes(d, g, f.slot, v)],
         NEW s, s = f.slot
  PROVE  SweepOf(d, NextLeaf(b))'
<1> DEFINE found == LeafIndexes(d, g, s, v)
<1>1. f \in ForgetState /\ s \in Device /\ f.pc = "groups" /\ g \in Group /\ v \in Version
  BY DeviceAssumption DEF RequestKeyPackages, TypeInv, ForgetsTyped, ForgetState, RelayTyped, Version
<1>2. SweepOf(d, f) /\ s # d /\ g \in Loaded(d) /\ f.todo \subseteq Loaded(d)
  BY <1>1 DEF SweepInv, SweepOf
<1>3. UNCHANGED tree /\ UNCHANGED own /\ UNCHANGED welcomes
  BY DEF RequestKeyPackages
<1>4. found \in SUBSET Nat
  <2>1. DOMAIN tree[g] \in SUBSET Nat
    BY <1>1, TreeTyped DEF TypeInv
  <2> QED
    BY <2>1 DEF LeafIndexes
<1>5. /\ b \in ForgetState /\ b.slot = s /\ b.kp = v /\ b.todo = f.todo \ {g} /\ b.group = g
      /\ b.leaves = found /\ b.escaped = f.escaped /\ b.done = f.done
  <2> HIDE DEF found
  <2> QED
    BY <1>1, <1>4 DEF ForgetState, found
<1>6. ASSUME Once(d, s, g)
      PROVE  Ahead(d, b)
  <2>1. Of(g, s) \subseteq Others(d, g)
    BY <1>2, OfOthers
  <2>2. CASE \E m \in DOMAIN tree[g] : tree[g][m] = [dev |-> s, kp |-> v]
    <3>1. PICK m \in DOMAIN tree[g] : tree[g][m] = [dev |-> s, kp |-> v]
      BY <2>2
    <3>2. found = {q \in DOMAIN tree[g] : tree[g][q] = [dev |-> s, kp |-> v]}
      BY <3>1 DEF LeafIndexes
    <3>3. [dev |-> s, kp |-> v] # None
      BY <1>1, NoneAssumption DEF Leaf
    <3>4. m \in Of(g, s) /\ [dev |-> s, kp |-> v] \in Leaves(g)
      BY <3>1, <3>3 DEF Of, Leaves
    <3>5. \A q \in Of(g, s) : q = m
      BY <1>1, <1>6, <3>4, OnePosition DEF Once
    <3> QED
      BY <1>5, <3>1, <3>2, <3>4, <3>5 DEF Ahead
  <2>3. CASE ~\E m \in DOMAIN tree[g] : tree[g][m] = [dev |-> s, kp |-> v]
    <3>1. found = Others(d, g)
      BY <2>3 DEF LeafIndexes, Others
    <3> QED
      BY <1>5, <2>1, <3>1 DEF Ahead
  <2> QED
    BY <2>2, <2>3
<1>7. (Once(d, s, g)' => Ahead(d, b)') /\ Loaded(d)' = Loaded(d)
  <2>1. Once(d, s, g)' => Once(d, s, g)
    BY <1>3 DEF Once, Admissions
  <2>2. /\ Of(g, s)' = Of(g, s) /\ Others(d, g)' = Others(d, g) /\ Leaves(g)' = Leaves(g)
        /\ Loaded(d)' = Loaded(d)
    BY <1>3 DEF Of, Others, Leaves, Loaded
  <2> QED
    BY <1>5, <1>6, <2>1, <2>2 DEF Ahead
<1>8. Swept(d, b)'
  <2>1. Swept(d, f) /\ b.slot = f.slot /\ b.done = f.done
    BY <1>2, <1>5 DEF SweepOf
  <2> QED
    BY ONLY <1>3, <2>1, SweepSame
<1>9. b.todo \subseteq Loaded(d)' /\ b.group \in Loaded(d)' /\ b.slot # d
  BY <1>2, <1>5, <1>7
<1>10. b.group \notin b.escaped /\ Once(d, b.slot, b.group)' => Ahead(d, b)'
  BY <1>5, <1>7
<1> QED
  BY ONLY <1>5, <1>8, <1>9, <1>10, d \in Device, SweepGoesOn

\* The steps of a sweep that look at no tree, from f to b.
Aside(d, f, b) ==
  \/ b = IdleForget
  \/ \E s \in Device : s # d /\ b = [IdleForget EXCEPT !.pc = "groups", !.slot = s, !.todo = Loaded(d)]
  \/ f.pc = "groups" /\ \E g \in f.todo : b = [f EXCEPT !.todo = @ \ {g}]
  \/ f.pc = "remove" /\ b = [f EXCEPT !.pc = "retry"]
  \/ f.pc = "groups" /\ b = [f EXCEPT !.pc = "refresh"]

LEMMA SweepSteps ==
  ASSUME TypeInv, SweepInv, NEW d \in Device, NEW f, f = forget[d], NEW b,
         UNCHANGED tree, UNCHANGED own, UNCHANGED welcomes,
         Aside(d, f, b)
  PROVE  SweepOf(d, b)'
<1>1. f \in ForgetState /\ SweepOf(d, f)
  BY DEF TypeInv, ForgetsTyped, SweepInv
<1>2. Loaded(d)' = Loaded(d)
  BY DEF Loaded
<1>3. Swept(d, f) /\ UNCHANGED tree /\ UNCHANGED own /\ UNCHANGED welcomes
  BY <1>1 DEF SweepOf
<1>4. CASE b = IdleForget
  BY <1>4 DEF IdleForget, SweepOf, Swept
<1>5. ASSUME NEW s \in Device, s # d, b = [IdleForget EXCEPT !.pc = "groups", !.slot = s, !.todo = Loaded(d)]
      PROVE  SweepOf(d, b)'
  <2>1. b.pc = "groups" /\ b.slot = s /\ b.todo = Loaded(d) /\ b.done = {}
    BY <1>5 DEF IdleForget
  <2> QED
    BY ONLY <1>2, <1>5, <2>1 DEF SweepOf, Swept
<1>6. ASSUME f.pc = "groups", NEW g \in f.todo, b = [f EXCEPT !.todo = @ \ {g}]
      PROVE  SweepOf(d, b)'
  <2>1. b.pc = "groups" /\ b.slot = f.slot /\ b.todo = f.todo \ {g} /\ b.done = f.done
    BY <1>1, <1>6 DEF ForgetState
  <2>2. Swept(d, b)'
    BY ONLY <1>3, <2>1, SweepSame
  <2>3. b.slot # d /\ b.todo \subseteq Loaded(d)'
    BY <1>1, <1>2, <1>6, <2>1 DEF SweepOf
  <2> QED
    BY ONLY <2>1, <2>2, <2>3 DEF SweepOf
<1>7. ASSUME f.pc = "remove", b = [f EXCEPT !.pc = "retry"]
      PROVE  SweepOf(d, b)'
  <2>1. /\ b.pc = "retry" /\ b.slot = f.slot /\ b.kp = f.kp /\ b.todo = f.todo /\ b.group = f.group
        /\ b.leaves = f.leaves /\ b.escaped = f.escaped /\ b.done = f.done
    BY <1>1, <1>7 DEF ForgetState
  <2>2. Swept(d, b)'
    BY ONLY <1>3, <2>1, SweepSame
  <2>3. b.slot # d /\ b.todo \subseteq Loaded(d)' /\ b.group \in Loaded(d)'
    BY <1>1, <1>2, <1>7, <2>1 DEF SweepOf
  <2>4. Once(d, b.slot, b.group)' => Once(d, f.slot, f.group)
    BY <2>1 DEF Once, Admissions
  <2>5. Ahead(d, f) => Ahead(d, b)'
    <3>1. /\ Of(f.group, f.slot)' = Of(f.group, f.slot) /\ Leaves(f.group)' = Leaves(f.group)
          /\ Others(d, f.group)' = Others(d, f.group)
      BY ONLY <1>3 DEF Of, Others, Leaves
    <3> QED
      BY <2>1, <3>1 DEF Ahead
  <2>6. b.group \notin b.escaped /\ Once(d, b.slot, b.group)' => Ahead(d, b)'
    BY <1>1, <1>7, <2>1, <2>4, <2>5 DEF SweepOf
  <2> QED
    BY ONLY <2>1, <2>2, <2>3, <2>6 DEF SweepOf
<1>8. ASSUME f.pc = "groups", b = [f EXCEPT !.pc = "refresh"]
      PROVE  SweepOf(d, b)'
  <2>1. b.pc = "refresh" /\ b.slot = f.slot /\ b.todo = f.todo /\ b.done = f.done
    BY <1>1, <1>8 DEF ForgetState
  <2>2. Swept(d, b)'
    BY ONLY <1>3, <2>1, SweepSame
  <2>3. b.slot # d /\ b.todo \subseteq Loaded(d)'
    BY <1>1, <1>2, <1>8, <2>1 DEF SweepOf
  <2> QED
    BY ONLY <2>1, <2>2, <2>3 DEF SweepOf
<1> QED
  BY <1>4, <1>5, <1>6, <1>7, <1>8 DEF Aside

\* A step of the sweep of d moves no other sweep.
LEMMA OneForget ==
  ASSUME TypeInv, NEW d \in Device, NEW to, StepForget(d, to)
  PROVE  forget'[d] = to /\ \A e \in Device \ {d} : forget'[e] = forget[e]
BY DEF TypeInv, ForgetsTyped, StepForget

\* The invariant in the next state, sweep by sweep.
LEMMA SweepAfter ==
  ASSUME \A e \in Device : \A f : f = forget'[e] => SweepOf(e, f)'
  PROVE  SweepInv'
BY DEF SweepInv

\* The own sweep moves to b; the others see at most a removal.
LEMMA SweepOwn ==
  ASSUME TypeInv, AdmitInv, AdmitInv', SweepInv, welcomes \subseteq welcomes', NEW d \in Device,
         NEW b, StepForget(d, b), SweepOf(d, b)', UNCHANGED own, UNCHANGED welcomes,
         UNCHANGED tree \/ \E g \in Group : \E n : Blanked(g, n)
  PROVE  SweepInv'
<1>1. forget'[d] = b /\ \A e \in Device \ {d} : forget'[e] = forget[e]
  BY OneForget
<1>2. ASSUME NEW e \in Device \ {d}, NEW f, f = forget[e] PROVE SweepOf(e, f)'
  <2>1. /\ f \in ForgetState /\ SweepOf(e, f) /\ (f.pc # "idle" => f.slot \in Device)
        /\ f.pc \in {"remove", "retry"} => f.group \in Group
    BY <1>2 DEF TypeInv, ForgetsTyped, SweepInv
  <2>2. CASE UNCHANGED tree
    <3>1. \A g \in Loaded(e) : g \in Loaded(e)' /\ own'[e][g] = own[e][g]
      BY DEF Loaded
    <3>2. WelcomesInv'
      BY DEF AdmitInv
    <3> QED
      BY <2>1, <2>2, <3>1, <3>2, SweepStays
  <2>3. CASE \E g \in Group : \E n : Blanked(g, n)
    BY <2>1, <2>3, SweepBlanked
  <2> QED
    BY <2>2, <2>3
<1>3. ASSUME NEW e \in Device, NEW f, f = forget'[e] PROVE SweepOf(e, f)'
  <2>1. CASE e = d
    BY <1>1, <1>3, <2>1
  <2>2. CASE e # d
    BY <1>1, <1>2, <1>3, <2>2
  <2> QED
    BY <2>1, <2>2
<1> QED
  BY <1>3, SweepAfter

LEMMA SweepStep == TypeInv /\ AdmitInv /\ SweepInv /\ [Next]_vars => SweepInv'
<1> SUFFICES ASSUME TypeInv, AdmitInv, SweepInv, [Next]_vars PROVE SweepInv'
  OBVIOUS
<1>0. AdmitInv' /\ WelcomesInv' /\ welcomes \subseteq welcomes'
  BY AdmitStep DEF AdmitInv
<1>1. ASSUME UNCHANGED tree, UNCHANGED forget,
             \A e \in Device : \A g \in Loaded(e) :
               g \in Loaded(e)' /\ (Admissions(g, e)' <= 1 => own'[e][g] = own[e][g])
      PROVE  SweepInv'
  <2>1. \A e \in Device : \A f : f = forget[e] => SweepOf(e, f)
    BY DEF SweepInv
  <2>2. \A e \in Device : \A f : f = forget[e] => SweepOf(e, f)'
    BY <1>0, <1>1, <2>1, SweepStays
  <2> QED
    BY <1>1, <2>2, SweepAfter
<1>2. ASSUME UNCHANGED tree, UNCHANGED forget, UNCHANGED own
      PROVE  SweepInv'
  <2>1. \A e \in Device : Loaded(e)' = Loaded(e)
    BY <1>2 DEF Loaded
  <2> QED
    BY <1>1, <1>2, <2>1
<1>3. ASSUME NEW d \in Device, NEW w \in Worker, Join(d, w)
      PROVE  SweepInv'
  <2>1. PICK i : i = worker[d][w].cur
    OBVIOUS
  <2>2. i \in welcomes /\ i \in Welcome /\ i.dev = d
    BY <1>3, <2>1 DEF Join, TypeInv, RelayTyped, AdmitInv, WorkerInv
  <2>3. \A e \in Device, g \in Group :
          own'[e][g] = IF e = d /\ g = i.group THEN i.kp ELSE own[e][g]
    BY <1>3, <2>1, <2>2 DEF Join, TypeInv, MemberTyped, Welcome
  <2>4. UNCHANGED tree /\ UNCHANGED forget /\ UNCHANGED welcomes
    BY <1>3 DEF Join
  <2>5. i.kp # None
    BY <2>2, NoneAssumption DEF Welcome, Version
  <2>6. ASSUME NEW e \in Device, NEW g \in Loaded(e)
        PROVE  g \in Loaded(e)' /\ (Admissions(g, e)' <= 1 => own'[e][g] = own[e][g])
    <3>1. g \in Loaded(e)'
      BY <2>3, <2>5, <2>6 DEF Loaded
    <3>2. CASE ~(e = d /\ g = i.group)
      BY <2>3, <2>6, <3>1, <3>2 DEF Loaded
    <3>3. ASSUME e = d, g = i.group, Admissions(g, e)' <= 1
          PROVE  own[e][g] = i.kp
      <4> DEFINE l == [dev |-> d, kp |-> own[d][g]]
                 m == [dev |-> d, kp |-> i.kp]
      <4>1. own[d][g] # None /\ own[d][g] \in Version /\ g \in Group
        BY <2>6, <3>3 DEF Loaded, TypeInv, MemberTyped
      <4>2. Member(welcomes, g, l)
        BY <4>1 DEF AdmitInv, OwnInv
      <4>3. Member(welcomes, g, m)
        BY <2>2, <3>3 DEF Member, Admitted
      <4>4. l \in Leaf /\ m \in Leaf /\ l.dev = d /\ m.dev = d
        BY <2>2, <4>1 DEF Leaf, Welcome
      <4>5. Admissions(g, d) <= 1
        BY <1>0, <3>3, AdmissionsGrow
      <4>6. l = m
        BY <4>1, <4>2, <4>3, <4>4, <4>5, OneAdmission DEF AdmitInv
      <4> QED
        BY <3>3, <4>6
    <3> QED
      BY <2>3, <3>1, <3>2, <3>3 DEF Loaded
  <2> QED
    BY <1>1, <2>4, <2>6
<1>4. ASSUME NEW d \in Device, NEW t \in Task, Invite(d, t)
      PROVE  SweepInv'
  BY <1>0, <1>4, SweepInvited, SweepAfter
<1>5. ASSUME NEW d \in Device, NEW b, StepForget(d, b), SweepOf(d, b)',
             UNCHANGED own, UNCHANGED welcomes, UNCHANGED tree \/ \E g \in Group : \E n : Blanked(g, n)
      PROVE  SweepInv'
  BY <1>0, <1>5, SweepOwn
<1>6. ASSUME NEW d \in Device, NEW n, Remove(d, n),
             \/ RemoveLeaf(d) /\ n = First(forget[d].leaves)
             \/ LET again == LeafIndexes(d, forget[d].group, forget[d].slot, forget[d].kp) IN
                forget[d].pc = "retry" /\ again # {} /\ n = First(again)
      PROVE  SweepInv'
  <2>1. PICK f : f = forget[d]
    OBVIOUS
  <2>2. PICK b : b = [f EXCEPT !.leaves = @ \ {First(@)}]
    OBVIOUS
  <2>3. f.pc \in {"remove", "retry"} /\ f.group \in Group
    BY <1>6, <2>1 DEF RemoveLeaf, TypeInv, ForgetsTyped
  <2>4. SweepOf(d, NextLeaf(b))'
    BY <1>6, <2>1, <2>2, SweepRemoves DEF RemoveLeaf
  <2>5. StepForget(d, NextLeaf(b)) /\ UNCHANGED own /\ UNCHANGED welcomes
    BY <1>6, <2>1, <2>2 DEF Remove
  <2>6. Blanked(f.group, n)
    BY <1>6, <2>1, <2>3, RemoveBlanks DEF TypeInv
  <2> QED
    BY ONLY <1>5, <2>3, <2>4, <2>5, <2>6, d \in Device
<1>7. ASSUME NEW d \in Device, RemoveLeaf(d) \/ RetryRemove(d)
      PROVE  SweepInv'
  <2>1. CASE RemoveLeaf(d)
    BY <1>6, <2>1 DEF RemoveLeaf
  <2>2. CASE RetryRemove(d) /\ LeafIndexes(d, forget[d].group, forget[d].slot, forget[d].kp) # {}
    BY <1>6, <2>2 DEF RetryRemove
  <2>3. CASE RetryRemove(d) /\ LeafIndexes(d, forget[d].group, forget[d].slot, forget[d].kp) = {}
    <3>1. PICK f : f = forget[d]
      OBVIOUS
    <3>2. PICK b : b = [f EXCEPT !.leaves = @ \ {First(@)}]
      OBVIOUS
    <3>3. f.pc = "retry" /\ LeafIndexes(d, f.group, f.slot, f.kp) = {}
      BY <2>3, <3>1 DEF RetryRemove
    <3>4. /\ StepForget(d, NextLeaf(b)) /\ UNCHANGED tree /\ UNCHANGED own /\ UNCHANGED welcomes
      BY <2>3, <3>1, <3>2 DEF RetryRemove
    <3>5. SweepOf(d, NextLeaf(b))'
      BY <3>1, <3>2, <3>3, <3>4, SweepFindsNone
    <3> QED
      BY ONLY <1>5, <3>4, <3>5, d \in Device
  <2> QED
    BY <1>7, <2>1, <2>2, <2>3
<1>8. ASSUME NEW d \in Device, RequestKeyPackages(d)
      PROVE  SweepInv'
  <2>1. PICK f, v : f = forget[d] /\ v = published[f.slot]
    OBVIOUS
  <2>2. PICK g \in f.todo :
          StepForget(d, NextLeaf([f EXCEPT !.todo = @ \ {g}, !.group = g, !.kp = v,
                                           !.leaves = LeafIndexes(d, g, f.slot, v)]))
    BY <1>8, <2>1 DEF RequestKeyPackages
  <2>3. PICK b : b = [f EXCEPT !.todo = @ \ {g}, !.group = g, !.kp = v,
                               !.leaves = LeafIndexes(d, g, f.slot, v)]
    OBVIOUS
  <2>4. UNCHANGED tree /\ UNCHANGED own /\ UNCHANGED welcomes /\ StepForget(d, NextLeaf(b))
    BY <1>8, <2>2, <2>3 DEF RequestKeyPackages
  <2>5. SweepOf(d, NextLeaf(b))'
    BY <1>8, <2>1, <2>3, SweepStarts
  <2> QED
    BY ONLY <1>5, <2>4, <2>5, d \in Device
<1>9. ASSUME NEW d \in Device,
             \/ RequestFails(d) \/ RemoveIsStale(d) \/ ForgetFails(d) \/ MarkSlotForgotten(d)
             \/ RefreshForgotten(d) \/ Reload(d) \/ \E s \in Device : ForgetSiblingDevice(d, s)
      PROVE  SweepInv'
  <2>1. PICK f : f = forget[d]
    OBVIOUS
  <2>2. UNCHANGED tree /\ UNCHANGED own /\ UNCHANGED welcomes
    BY <1>9 DEF RequestFails, RemoveIsStale, ForgetFails, MarkSlotForgotten, RefreshForgotten,
       Reload, ForgetSiblingDevice
  <2>3. \E b : StepForget(d, b) /\ Aside(d, f, b)
    <3>1. CASE RequestFails(d)
      BY <2>1, <3>1 DEF Aside, RequestFails
    <3>2. CASE RemoveIsStale(d)
      BY <2>1, <3>2 DEF Aside, RemoveIsStale
    <3>3. CASE MarkSlotForgotten(d)
      BY <2>1, <3>3 DEF Aside, MarkSlotForgotten
    <3>4. CASE ForgetFails(d) \/ RefreshForgotten(d) \/ Reload(d)
      BY <3>4 DEF Aside, ForgetFails, RefreshForgotten, Reload, StepForget
    <3>5. ASSUME NEW s \in Device, ForgetSiblingDevice(d, s)
          PROVE  \E b : StepForget(d, b) /\ Aside(d, f, b)
      BY <3>5 DEF Aside, ForgetSiblingDevice
    <3> QED
      BY <1>9, <3>1, <3>2, <3>3, <3>4, <3>5
  <2>4. PICK b : StepForget(d, b) /\ Aside(d, f, b)
    BY <2>3
  <2>5. SweepOf(d, b)'
    <3>1. f = forget[d] /\ Aside(d, f, b)
      BY <2>1, <2>4
    <3> QED
      BY ONLY TypeInv, SweepInv, d \in Device, <2>2, <3>1, SweepSteps
  <2> QED
    BY ONLY <1>5, <2>2, <2>4, <2>5, d \in Device
<1>10. ASSUME NEW d \in Device, NEW w \in Worker,
              FirstUnread(d, w) \/ LiveUnread(d, w) \/ WorkerStep(d, w)
       PROVE  SweepInv'
  <2>1. UNCHANGED <<tree, forget>> /\ (Join(d, w) \/ UNCHANGED own)
    BY <1>10, WorkerStepKeeps
  <2> QED
    BY <1>2, <1>3, <2>1
<1>11. ASSUME NEW d \in Device, NEW t \in Task,
              \/ CheckSlot(d, t) \/ NextGroup(d, t) \/ Reserve(d, t)
              \/ InviteFails(d, t) \/ PersistInvitedKey(d, t) \/ PersistFails(d, t)
              \/ \E s \in Device : HandleKeyPackageEvent(d, t, s) \/ SyncKnown(d, t, s)
       PROVE  SweepInv'
  <2>1. UNCHANGED <<tree, own, forget>>
    BY <1>11, TaskStepKeeps
  <2> QED
    BY <1>2, <2>1
<1>12. ASSUME NEW d \in Device, FirstFails(d) \/ Rotate(d) \/ CreateKeyPackage(d)
       PROVE  SweepInv'
  <2>1. UNCHANGED <<tree, own, forget>>
    BY <1>12 DEF FirstFails, Rotate, CreateKeyPackage
  <2> QED
    BY <1>2, <2>1
<1>13. CASE UNCHANGED vars
  BY <1>2, <1>13 DEF vars
<1> QED
  BY <1>3, <1>4, <1>7, <1>8, <1>9, <1>10, <1>11, <1>12, <1>13 DEF Next, TaskStep, ForgetStep

\* forgetSiblingDevice leaves no leaf of the forgotten device in a group it has gone
\* through, whatever the devices invite, rotate, join and remove meanwhile.
THEOREM SweepsTheForgotten == Spec => []ForgetSweepsGroup
<1>1. Init => SweepInv
  BY DEF Init, IdleForget, SweepInv, SweepOf, Swept
<1>2. TypeInv /\ SweepInv => ForgetSweepsGroup
  <2> SUFFICES ASSUME TypeInv, SweepInv, NEW d \in Device, NEW g \in forget[d].done,
                      \A s \in {d, forget[d].slot} : Admissions(g, s) <= 1, NEW l \in Leaves(g)
               PROVE  l.dev # forget[d].slot
    BY DEF ForgetSweepsGroup
  <2>1. Of(g, forget[d].slot) = {}
    BY DEF SweepInv, SweepOf, Swept, Once
  <2> QED
    BY <2>1 DEF Of, Leaves
<1> QED
  BY <1>1, <1>2, SweepStep, AdmitHolds, TypeInvHolds, PTL DEF Spec

=============================================================================
