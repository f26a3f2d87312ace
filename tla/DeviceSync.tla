----------------------------- MODULE DeviceSync -----------------------------
(***************************************************************************)
(* How the devices of one user find their way into the user's groups, and  *)
(* out again: useDeviceSync (device-sync.ts), which joins from Welcomes    *)
(* and invites the KeyPackages of sibling devices, forgetSiblingDevice     *)
(* (forget-device.ts), and the rotation of used KeyPackages (client.tsx).  *)
(*                                                                         *)
(* All devices share one pubkey. So each is an admin of every group it has *)
(* loaded, and reads every Welcome, its own and those of its siblings. A   *)
(* device is its KeyPackage slot; a KeyPackage is a device and a version.  *)
(* MLS is external: a commit is made on the current tree, or it is refused *)
(* with an error.                                                          *)
(***************************************************************************)
EXTENDS Naturals, Sequences, FiniteSets

CONSTANTS
  Device,       \* the devices of the user
  Group,
  Creator,      \* the device that created each group
  Worker,       \* runs of processUnread in flight on one device
  Task,         \* KeyPackage events in the hands of one device
  Workers, Tasks,   \* bound: those that a device may have
  None,         \* nothing there
  MaxVersion,   \* bound: versions of a device's KeyPackage
  MaxHandlers,  \* bound: KeyPackage events handled
  Forgets,      \* bound: <<d, s>>, on device d the user forgets s, once
  MaxFaults     \* bound: page reloads, and calls that fail without a cause in the model

ASSUME DeviceAssumption ==
  /\ IsFiniteSet(Device) /\ IsFiniteSet(Group)
  /\ Creator \in [Group -> Device]
  /\ Workers \in [Device -> SUBSET Worker] /\ Tasks \in [Device -> SUBSET Task]
  /\ MaxVersion \in Nat \ {0}
  /\ MaxHandlers \in Nat /\ Forgets \subseteq Device \X Device /\ MaxFaults \in Nat

\* Version 0 is the ephemeral KeyPackage that a group is created with.
Version == 0 .. MaxVersion
Leaf    == [dev : Device, kp : Version]
Welcome == [group : Group, dev : Device, kp : Version, from : Device]

ASSUME NoneAssumption ==
  None \notin Device \union Group \union Worker \union Nat \union Welcome \union Leaf

VARIABLES
  published,    \* of each device, the version of its KeyPackage on the relay
  welcomes,     \* gift wraps on the relay
  tree          \* of each group, the leaves of the ratchet tree; None is a blank

VARIABLES       \* durable on each device
  keys, used,   \* versions that client.keyPackages lists, and the used ones
  own,          \* own leaf in each group it has loaded
  ingested, read, \* welcomes that the invite store holds, and has as read
  failed,       \* failed-welcomes
  joinedGroups, \* groups marked as joined from a Welcome
  invitedKeys,  \* slots invited, per group
  forgotten     \* forgotten-slots

VARIABLES       \* memory of each device's session
  known,        \* knownEvents, collapsed to the latest version of each slot
  invited, pendingInvites,
  forgottenSlots,
  joinBarrier,
  initial,      \* the first run of processUnread: to come, the worker it is in, or over
  rotating,     \* versions the "joined" handler still has to rotate
  worker, task, \* processUnread, and the KeyPackage handlers
  forget        \* forgetSiblingDevice

VARIABLES
  unrecorded,   \* invites published whose key a reload or a failed write kept from the store
  handlers, forgets, faults

relay   == <<published, welcomes, tree>>
member  == <<keys, used, own>>
inbox   == <<ingested, read, failed, joinedGroups>>
stores  == <<invitedKeys, forgotten>>
durable == <<member, inbox, stores>>
joining == <<initial, joinBarrier, worker, rotating>>
cached  == <<known, invited, pendingInvites, forgottenSlots>>
counts  == <<handlers, forgets, faults>>
history == <<unrecorded, counts>>
vars    == <<relay, durable, joining, cached, task, forget, history>>

IdleWorker == [pc |-> "idle", todo |-> {}, cur |-> None]
IdleTask   == [pc |-> "idle", slot |-> None, kp |-> 0, todo |-> {}, group |-> None, wait |-> None]
IdleForget == [pc |-> "idle", slot |-> None, kp |-> 0, todo |-> {}, group |-> None,
               leaves |-> {}, escaped |-> {}, done |-> {}]

Loaded(d) == {g \in Group : own[d][g] # None}

Leaves(g) == {tree[g][n] : n \in DOMAIN tree[g]} \ {None}

First(S) == CHOOSE n \in S : \A k \in S : n <= k

\* A member that the group has removed can no longer commit.
CanCommit(d, g) == [dev |-> d, kp |-> own[d][g]] \in Leaves(g)

\* MLS puts a new leaf in the leftmost blank.
AddLeaf(g, leaf) ==
  LET blank == {n \in DOMAIN tree[g] : tree[g][n] = None} IN
  tree' = [tree EXCEPT ![g] = IF blank = {} THEN Append(@, leaf) ELSE [@ EXCEPT ![First(blank)] = leaf]]

Fault == faults < MaxFaults /\ faults' = faults + 1 /\ UNCHANGED <<handlers, forgets>>

----------------------------------------------------------------------------
(* Receiving Welcomes. *)

StepWorker(d, w, to) == worker' = [worker EXCEPT ![d][w] = to]

\* The next turn of processUnread's loop, or its end: the barrier is set before
\* the join, and cleared with the last one.
Turn(d, w, todo) ==
  \/ /\ todo = {} /\ StepWorker(d, w, IdleWorker)
     /\ joinBarrier' = [joinBarrier EXCEPT ![d] = None]
  \/ \E i \in todo :
       /\ StepWorker(d, w, [pc |-> "join", todo |-> todo \ {i}, cur |-> i])
       /\ joinBarrier' = [joinBarrier EXCEPT ![d] = w]

\* processUnread over what a mount finds, before it subscribes.
FirstUnread(d, w) ==
  /\ initial[d] = "mount" /\ w \in Workers[d] /\ worker[d][w] = IdleWorker
  /\ ingested' = [ingested EXCEPT ![d] = welcomes]
  /\ initial' = [initial EXCEPT ![d] = IF welcomes = read[d] THEN None ELSE w]
  /\ Turn(d, w, welcomes \ read[d])
  /\ UNCHANGED <<relay, member, read, failed, joinedGroups, stores, rotating, cached, task,
                 forget, history>>

\* The request for gift wraps fails: what is unread waits for the next one.
FirstFails(d) ==
  /\ initial[d] = "mount" /\ Fault
  /\ initial' = [initial EXCEPT ![d] = None]
  /\ UNCHANGED <<relay, durable, joinBarrier, worker, rotating, cached, task, forget, unrecorded>>

\* processUnread at a gift wrap that is new; others may still be running.
LiveUnread(d, w) ==
  /\ initial[d] = None /\ w \in Workers[d] /\ worker[d][w] = IdleWorker
  /\ \E i \in welcomes \ ingested[d] : ingested' = [ingested EXCEPT ![d] = @ \union {i}]
  /\ Turn(d, w, ingested'[d] \ read[d])
  /\ UNCHANGED <<relay, member, read, failed, joinedGroups, stores, initial, rotating, cached,
                 task, forget, history>>

\* joinGroupFromWelcome resolves; it emits "joined", whose handler takes the
\* used KeyPackages to rotate.
Join(d, w) ==
  LET i == worker[d][w].cur IN
  /\ worker[d][w].pc = "join"
  /\ i.dev = d /\ i.kp \in keys[d]
  /\ own' = [own EXCEPT ![d][i.group] = i.kp]
  /\ used' = [used EXCEPT ![d] = @ \union {i.kp}]
  /\ rotating' = [rotating EXCEPT ![d] = used'[d]]
  /\ StepWorker(d, w, [worker[d][w] EXCEPT !.pc = "readJoined"])
  /\ UNCHANGED <<relay, keys, inbox, stores, initial, joinBarrier, cached, task, forget,
                 history>>

\* Mutant: the turn lets go of its Welcome before the failure is on record.
JoinFailsAndDrops(d, w) ==
  LET i == worker[d][w].cur IN
  /\ worker[d][w].pc = "join" /\ (i.dev # d \/ i.kp \notin keys[d])
  /\ StepWorker(d, w, [worker[d][w] EXCEPT !.pc = "log", !.cur = None])
  /\ UNCHANGED <<relay, durable, initial, joinBarrier, rotating, cached, task, forget, history>>

\* No KeyPackage of this device matches, the group is there already, or
\* something else is wrong: also the read mark or the joiner mark, which are
\* written once the group is joined, may be refused.
JoinFails(d, w) ==
  LET i == worker[d][w].cur IN
  /\ \/ /\ worker[d][w].pc = "join" /\ (i.dev # d \/ i.kp \notin keys[d] \/ i.group \in Loaded(d))
        /\ UNCHANGED counts
     \/ worker[d][w].pc \in {"join", "readJoined", "mark"} /\ Fault
  /\ StepWorker(d, w, [worker[d][w] EXCEPT !.pc = "log"])
  /\ UNCHANGED <<relay, durable, initial, joinBarrier, rotating, cached, task, forget, unrecorded>>

\* The barrier of this turn is resolved for the tasks that hold it.
Release(d, w) ==
  task' = [task EXCEPT ![d] = [t \in Task |-> IF @[t].wait = w THEN [@[t] EXCEPT !.wait = None] ELSE @[t]]]

EndRun(d, w, todo) ==
  initial' = [initial EXCEPT ![d] = IF @ = w /\ todo = {} THEN None ELSE @]

\* Mutant: a failed join goes on to the next turn without the finally.
EndTurnOfJoin(d, w, todo) ==
  /\ IF worker[d][w].pc = "mark" THEN Release(d, w) ELSE UNCHANGED task
  /\ Turn(d, w, todo) /\ EndRun(d, w, todo)

\* The finally of a turn, and what is still to do.
EndTurn(d, w, todo) == Release(d, w) /\ Turn(d, w, todo) /\ EndRun(d, w, todo)

MarkAsRead(d, w) == read' = [read EXCEPT ![d] = @ \union {worker[d][w].cur}]

ReadJoined(d, w) ==
  /\ worker[d][w].pc = "readJoined"
  /\ MarkAsRead(d, w)
  /\ StepWorker(d, w, [worker[d][w] EXCEPT !.pc = "mark"])
  /\ UNCHANGED <<relay, member, ingested, failed, joinedGroups, stores, initial, joinBarrier,
                 rotating, cached, task, forget, history>>

MarkGroupJoined(d, w) ==
  /\ worker[d][w].pc = "mark"
  /\ joinedGroups' = [joinedGroups EXCEPT ![d] = @ \union {worker[d][w].cur.group}]
  /\ EndTurn(d, w, worker[d][w].todo)
  /\ UNCHANGED <<relay, member, ingested, read, failed, stores, rotating, cached, forget, history>>

\* Mutant: the Welcome is read before its failure is on record.
ReadBeforeAppend(d, w) ==
  /\ worker[d][w].pc = "log"
  /\ MarkAsRead(d, w)
  /\ StepWorker(d, w, [worker[d][w] EXCEPT !.pc = "readFailed"])
  /\ UNCHANGED <<relay, member, ingested, failed, joinedGroups, stores, initial, joinBarrier,
                 rotating, cached, task, forget, history>>

AppendFailedWelcome(d, w) ==
  /\ worker[d][w].pc = "log"
  /\ failed' = [failed EXCEPT ![d] = @ \union {worker[d][w].cur}]
  /\ StepWorker(d, w, [worker[d][w] EXCEPT !.pc = "readFailed"])
  /\ UNCHANGED <<relay, member, ingested, read, joinedGroups, stores, initial, joinBarrier,
                 rotating, cached, task, forget, history>>

ReadFailed(d, w) ==
  /\ worker[d][w].pc = "readFailed"
  /\ MarkAsRead(d, w)
  /\ EndTurn(d, w, worker[d][w].todo)
  /\ UNCHANGED <<relay, member, ingested, failed, joinedGroups, stores, rotating, cached, forget,
                 history>>

\* A write of the failure is refused, or the list of KeyPackages before the join:
\* the run rejects, and what is unread waits for the next one.
RunRejects(d, w) ==
  /\ worker[d][w].pc \in {"join", "log", "readFailed"} /\ Fault
  /\ EndTurn(d, w, {})
  /\ UNCHANGED <<relay, durable, rotating, cached, forget, unrecorded>>

\* The "joined" handler: each used KeyPackage is deprecated and replaced in
\* its slot.
Rotate(d) ==
  /\ published[d] < MaxVersion
  /\ \E k \in rotating[d] :
       /\ keys' = [keys EXCEPT ![d] = (@ \ {k}) \union {published[d] + 1}]
       /\ used' = [used EXCEPT ![d] = @ \ {k}]
       /\ rotating' = [rotating EXCEPT ![d] = @ \ {k}]
  /\ published' = [published EXCEPT ![d] = @ + 1]
  /\ UNCHANGED <<welcomes, tree, own, inbox, stores, initial, joinBarrier, worker, cached, task,
                 forget, history>>

\* After a reload that lost the rotation: init finds no usable KeyPackage.
CreateKeyPackage(d) ==
  /\ keys[d] \subseteq used[d] /\ rotating[d] = {}
  /\ published[d] < MaxVersion
  /\ keys' = [keys EXCEPT ![d] = @ \union {published[d] + 1}]
  /\ published' = [published EXCEPT ![d] = @ + 1]
  /\ UNCHANGED <<welcomes, tree, used, own, inbox, stores, joining, cached, task, forget, history>>

----------------------------------------------------------------------------
(* Inviting sibling devices. A sync over several slots is as many tasks. *)

StepTask(d, t, to) == task' = [task EXCEPT ![d][t] = to]

StartTask(d, t, s, v) ==
  /\ t \in Tasks[d] /\ task[d][t] = IdleTask
  /\ handlers < MaxHandlers /\ handlers' = handlers + 1
  /\ StepTask(d, t, [IdleTask EXCEPT !.pc = "wait", !.slot = s, !.kp = v, !.wait = joinBarrier[d]])
  /\ UNCHANGED <<relay, durable, joining, invited, pendingInvites, forgottenSlots, forget,
                 unrecorded, forgets, faults>>

\* handleKeyPackageEvent, and the initial request. Events of the own slot
\* return at isLocalDevice.
HandleKeyPackageEvent(d, t, s) ==
  /\ s # d
  /\ known' = [known EXCEPT ![d][s] = published[s]]
  /\ StartTask(d, t, s, published[s])

\* handleGroupsUpdated: syncKnownKeyPackages.
SyncKnown(d, t, s) ==
  /\ s # d /\ known[d][s] > 0
  /\ StartTask(d, t, s, known[d][s])
  /\ UNCHANGED known

\* The loop over the groups goes on, or ends.
NextTurn(k) == IF k.todo = {} THEN IdleTask ELSE [k EXCEPT !.pc = "groups", !.group = None]

\* isSlotForgotten, once the barrier that was there at the start is resolved.
CheckSlot(d, t) ==
  /\ task[d][t].pc = "wait" /\ task[d][t].wait = None
  /\ StepTask(d, t, IF task[d][t].slot \in forgottenSlots[d] THEN IdleTask
                    ELSE NextTurn([task[d][t] EXCEPT !.todo = Loaded(d)]))
  /\ UNCHANGED <<relay, durable, joining, cached, forget, history>>

\* inviteToAllGroups, the next group: has it this very leaf, or did this
\* device join it from a Welcome?
NextGroup(d, t) ==
  LET k == task[d][t] IN
  /\ k.pc = "groups"
  /\ \E g \in k.todo :
       StepTask(d, t,
         IF [dev |-> k.slot, kp |-> k.kp] \in Leaves(g) \/ g \in joinedGroups[d]
         THEN NextTurn([k EXCEPT !.todo = @ \ {g}])
         ELSE [k EXCEPT !.todo = @ \ {g}, !.pc = "list", !.group = g])
  /\ UNCHANGED <<relay, durable, joining, cached, forget, history>>

\* Mutant: per group and KeyPackage event.
DedupByEvent(g, leaf) == <<g, leaf>>

\* dedupKey: per group and slot.
DedupKey(g, leaf) == <<g, leaf.dev>>

Key(d, t) == DedupKey(task[d][t].group, [dev |-> task[d][t].slot, kp |-> task[d][t].kp])

\* isJoinerOfGroup falls back to the listed KeyPackages; the key is checked
\* and reserved in the same turn.
Reserve(d, t) ==
  LET g == task[d][t].group
      skip == \/ \E k \in keys[d] : [dev |-> d, kp |-> k] \in Leaves(g)
              \/ Key(d, t) \in invited[d] \union pendingInvites[d] IN
  /\ task[d][t].pc = "list"
  /\ StepTask(d, t, IF skip THEN NextTurn(task[d][t])
                    ELSE [task[d][t] EXCEPT !.pc = "invite"])
  /\ pendingInvites' = [pendingInvites EXCEPT ![d] = IF skip THEN @ ELSE @ \union {Key(d, t)}]
  /\ UNCHANGED <<relay, durable, joining, known, invited, forgottenSlots, forget, history>>

\* The groups whose sweep, its indexes looked up, a leaf now added to g escapes: it
\* is of the forgotten device, or the indexes go by the pubkey alone.
Escapes(f, g, leaf) ==
  {h \in {g} : f.group = h /\ (leaf.dev = f.slot \/ [dev |-> f.slot, kp |-> f.kp] \notin Leaves(h))}

\* inviteByKeyPackageEvent: the commit that adds the leaf, and its Welcome.
\* A group swept for a device that is being forgotten is no longer so.
Invite(d, t) ==
  LET k == task[d][t]
      leaf == [dev |-> k.slot, kp |-> k.kp] IN
  /\ k.pc = "invite"
  /\ CanCommit(d, k.group) /\ leaf \notin Leaves(k.group)
  /\ AddLeaf(k.group, leaf)
  /\ welcomes' = welcomes \union {[group |-> k.group, dev |-> k.slot, kp |-> k.kp, from |-> d]}
  /\ invited' = [invited EXCEPT ![d] = @ \union {Key(d, t)}]
  /\ forget' = [c \in Device |->
       [forget[c] EXCEPT !.done = IF forget[c].slot = k.slot THEN @ \ {k.group} ELSE @,
                         !.escaped = @ \union Escapes(forget[c], k.group, leaf)]]
  /\ StepTask(d, t, [k EXCEPT !.pc = "persist"])
  /\ UNCHANGED <<published, durable, joining, known, pendingInvites, forgottenSlots, history>>

\* The end of an invite, its finally included.
EndInvite(d, t) ==
  /\ pendingInvites' = [pendingInvites EXCEPT ![d] = @ \ {Key(d, t)}]
  /\ StepTask(d, t, NextTurn(task[d][t]))

InviteFails(d, t) ==
  LET k == task[d][t] IN
  /\ k.pc = "invite"
  /\ \/ ~CanCommit(d, k.group) /\ UNCHANGED counts
     \/ [dev |-> k.slot, kp |-> k.kp] \in Leaves(k.group) /\ UNCHANGED counts
     \/ Fault
  /\ EndInvite(d, t)
  /\ UNCHANGED <<relay, durable, joining, known, invited, forgottenSlots, forget, unrecorded>>

PersistInvitedKey(d, t) ==
  /\ task[d][t].pc = "persist"
  /\ invitedKeys' = [invitedKeys EXCEPT ![d] = @ \union {Key(d, t)}]
  /\ EndInvite(d, t)
  /\ UNCHANGED <<relay, member, inbox, forgotten, joining, known, invited, forgottenSlots,
                 forget, history>>

\* The write is refused: the key is in memory only.
PersistFails(d, t) ==
  /\ task[d][t].pc = "persist" /\ Fault
  /\ EndInvite(d, t)
  /\ unrecorded' = unrecorded \union {<<d, Key(d, t)>>}
  /\ UNCHANGED <<relay, durable, joining, known, invited, forgottenSlots, forget>>

----------------------------------------------------------------------------
(* Forgetting a sibling device. *)

StepForget(d, to) == forget' = [forget EXCEPT ![d] = to]

ForgetSiblingDevice(d, s) ==
  /\ s # d /\ forget[d] = IdleForget
  /\ <<d, s>> \in Forgets \ forgets /\ forgets' = forgets \union {<<d, s>>}
  /\ StepForget(d, [IdleForget EXCEPT !.pc = "groups", !.slot = s, !.todo = Loaded(d)])
  /\ UNCHANGED <<relay, durable, joining, cached, task, unrecorded, handlers, faults>>

\* Mutant: only the leaf of the KeyPackage that is now on the relay.
LeafIndexesByEvent(d, g, s, v) ==
  {n \in DOMAIN tree[g] : tree[g][n] = [dev |-> s, kp |-> v]}

\* siblingLeafIndexesForEvents, else siblingLeafIndexesByPubkeyExcludingOwn.
LeafIndexes(d, g, s, v) ==
  LET exact == {n \in DOMAIN tree[g] : tree[g][n] = [dev |-> s, kp |-> v]} IN
  IF exact # {} THEN exact
  ELSE {n \in DOMAIN tree[g] : tree[g][n] \notin {None, [dev |-> d, kp |-> own[d][g]]}}

\* A group is done when no leaf is left to remove, and none has escaped.
EndGroup(f) == [f EXCEPT !.pc = "groups", !.group = None, !.kp = 0, !.leaves = {},
                         !.done = @ \union ({f.group} \ f.escaped)]

NextLeaf(f) == IF f.leaves = {} THEN EndGroup(f) ELSE [f EXCEPT !.pc = "remove"]

RequestKeyPackages(d) ==
  /\ forget[d].pc = "groups"
  /\ \E g \in forget[d].todo :
       LET v == published[forget[d].slot]
           f == [forget[d] EXCEPT !.todo = @ \ {g}, !.group = g, !.kp = v,
                                  !.leaves = LeafIndexes(d, g, forget[d].slot, v)] IN
       StepForget(d, NextLeaf(f))
  /\ UNCHANGED <<relay, durable, joining, cached, task, history>>

\* The request fails: the group is skipped.
RequestFails(d) ==
  /\ forget[d].pc = "groups" /\ Fault
  /\ \E g \in forget[d].todo : StepForget(d, [forget[d] EXCEPT !.todo = @ \ {g}])
  /\ UNCHANGED <<relay, durable, joining, cached, task, unrecorded>>

\* removeLeafByIndex commits the removal of whatever leaf is at index n; the
\* loop goes on behind the index whose turn it was.
Remove(d, n) ==
  LET f == forget[d] IN
  /\ CanCommit(d, f.group) /\ tree[f.group][n] # None
  /\ tree' = [tree EXCEPT ![f.group][n] = None]
  /\ StepForget(d, NextLeaf([f EXCEPT !.leaves = @ \ {First(@)}]))
  /\ UNCHANGED <<published, welcomes, durable, joining, cached, task, history>>

RemoveLeaf(d) == forget[d].pc = "remove" /\ Remove(d, First(forget[d].leaves))

\* A stale-epoch error.
RemoveIsStale(d) ==
  /\ forget[d].pc = "remove" /\ Fault
  /\ StepForget(d, [forget[d] EXCEPT !.pc = "retry"])
  /\ UNCHANGED <<relay, durable, joining, cached, task, unrecorded>>

\* The indexes are looked up once more, from the same events, and the first one
\* is taken; none is a success.
RetryRemove(d) ==
  LET f == forget[d]
      again == LeafIndexes(d, f.group, f.slot, f.kp) IN
  /\ f.pc = "retry"
  /\ \/ again # {} /\ Remove(d, First(again))
     \/ /\ again = {}
        /\ StepForget(d, NextLeaf([f EXCEPT !.leaves = @ \ {First(@)}]))
        /\ UNCHANGED <<relay, durable, joining, cached, task, history>>

\* Any other error, and the second one, ends the operation unmarked.
ForgetFails(d) ==
  LET f == forget[d] IN
  /\ f.pc \in {"remove", "retry"}
  /\ \/ ~CanCommit(d, f.group) /\ UNCHANGED counts
     \/ f.pc = "remove" /\ tree[f.group][First(f.leaves)] = None /\ UNCHANGED counts
     \/ Fault
  /\ StepForget(d, IdleForget)
  /\ UNCHANGED <<relay, durable, joining, cached, task, unrecorded>>

\* markSlotForgotten: the store, then the event.
MarkSlotForgotten(d) ==
  /\ forget[d].pc = "groups" /\ forget[d].todo = {}
  /\ forgotten' = [forgotten EXCEPT ![d] = @ \union {forget[d].slot}]
  /\ StepForget(d, [forget[d] EXCEPT !.pc = "refresh"])
  /\ UNCHANGED <<relay, member, inbox, invitedKeys, joining, cached, task, history>>

RefreshForgotten(d) ==
  /\ forget[d].pc = "refresh"
  /\ forgottenSlots' = [forgottenSlots EXCEPT ![d] = forgotten[d]]
  /\ StepForget(d, IdleForget)
  /\ UNCHANGED <<relay, durable, joining, known, invited, pendingInvites, task, history>>

----------------------------------------------------------------------------

\* Mutant: the cache waits for the first event.
LoadNoSlots(d) == {}

\* What a fresh mount of useDeviceSync loads into forgottenSlots.
LoadForgottenSlots(d) == forgotten[d]

\* The page is reloaded, or its process dies: only the stores are left.
Reload(d) ==
  /\ Fault
  /\ known' = [known EXCEPT ![d] = [s \in Device |-> 0]]
  /\ invited' = [invited EXCEPT ![d] = invitedKeys[d]]
  /\ pendingInvites' = [pendingInvites EXCEPT ![d] = {}]
  /\ forgottenSlots' = [forgottenSlots EXCEPT ![d] = LoadForgottenSlots(d)]
  /\ joinBarrier' = [joinBarrier EXCEPT ![d] = None]
  /\ initial' = [initial EXCEPT ![d] = "mount"]
  /\ rotating' = [rotating EXCEPT ![d] = {}]
  /\ worker' = [worker EXCEPT ![d] = [w \in Worker |-> IdleWorker]]
  /\ task' = [task EXCEPT ![d] = [t \in Task |-> IdleTask]]
  /\ forget' = [forget EXCEPT ![d] = IdleForget]
  /\ unrecorded' = unrecorded \union {<<d, Key(d, t)>> : t \in {u \in Task : task[d][u].pc = "persist"}}
  /\ UNCHANGED <<relay, durable>>

Init ==
  /\ published = [d \in Device |-> 1]
  /\ welcomes = {}
  /\ tree = [g \in Group |-> <<[dev |-> Creator[g], kp |-> 0]>>]
  /\ keys = [d \in Device |-> {1}] /\ used = [d \in Device |-> {}]
  /\ own = [d \in Device |-> [g \in Group |-> IF Creator[g] = d THEN 0 ELSE None]]
  /\ ingested = [d \in Device |-> {}] /\ read = ingested /\ failed = [d \in Device |-> {}]
  /\ joinedGroups = [d \in Device |-> {}]
  /\ invitedKeys = [d \in Device |-> {}] /\ invited = invitedKeys
  /\ forgotten = [d \in Device |-> {}] /\ forgottenSlots = forgotten
  /\ known = [d \in Device |-> [s \in Device |-> 0]]
  /\ pendingInvites = [d \in Device |-> {}]
  /\ joinBarrier = [d \in Device |-> None]
  /\ initial = [d \in Device |-> "mount"]
  /\ rotating = [d \in Device |-> {}]
  /\ worker = [d \in Device |-> [w \in Worker |-> IdleWorker]]
  /\ task = [d \in Device |-> [t \in Task |-> IdleTask]]
  /\ forget = [d \in Device |-> IdleForget]
  /\ unrecorded = {} /\ handlers = 0 /\ forgets = {} /\ faults = 0

WorkerStep(d, w) ==
  \/ Join(d, w) \/ JoinFails(d, w) \/ ReadJoined(d, w)
  \/ MarkGroupJoined(d, w) \/ AppendFailedWelcome(d, w) \/ ReadFailed(d, w)
  \/ RunRejects(d, w)

TaskStep(d, t) ==
  \/ CheckSlot(d, t) \/ NextGroup(d, t) \/ Reserve(d, t)
  \/ Invite(d, t) \/ InviteFails(d, t) \/ PersistInvitedKey(d, t)
  \/ PersistFails(d, t)

ForgetStep(d) ==
  \/ RequestKeyPackages(d) \/ RequestFails(d) \/ RemoveLeaf(d) \/ RemoveIsStale(d)
  \/ RetryRemove(d) \/ ForgetFails(d) \/ MarkSlotForgotten(d) \/ RefreshForgotten(d)

Next ==
  \E d \in Device :
    \/ \E w \in Worker : FirstUnread(d, w) \/ LiveUnread(d, w) \/ WorkerStep(d, w)
    \/ \E t \in Task : \/ \E s \in Device : HandleKeyPackageEvent(d, t, s) \/ SyncKnown(d, t, s)
                       \/ TaskStep(d, t)
    \/ \E s \in Device : ForgetSiblingDevice(d, s)
    \/ FirstFails(d) \/ ForgetStep(d) \/ Rotate(d) \/ CreateKeyPackage(d) \/ Reload(d)

Spec == Init /\ [][Next]_vars

----------------------------------------------------------------------------
(* Properties. *)

RelayTyped ==
  /\ published \in [Device -> 1 .. MaxVersion]
  /\ welcomes \subseteq Welcome
  /\ tree \in [Group -> Seq(Leaf \union {None})]

MemberTyped ==
  /\ keys \in [Device -> SUBSET Version] /\ used \in [Device -> SUBSET Version]
  /\ own \in [Device -> [Group -> Version \union {None}]]

InboxTyped ==
  /\ ingested \in [Device -> SUBSET Welcome] /\ read \in [Device -> SUBSET Welcome]
  /\ failed \in [Device -> SUBSET Welcome]
  /\ joinedGroups \in [Device -> SUBSET Group]

StoresTyped ==
  /\ invitedKeys \in [Device -> SUBSET (Group \X Device)]
  /\ forgotten \in [Device -> SUBSET Device]

WorkerState ==
  [pc : {"idle", "join", "readJoined", "mark", "log", "readFailed"},
   todo : SUBSET Welcome, cur : Welcome \union {None}]

JoiningTyped ==
  /\ initial \in [Device -> {"mount", None} \union Worker]
  /\ joinBarrier \in [Device -> Worker \union {None}]
  /\ worker \in [Device -> [Worker -> WorkerState]]
  /\ rotating \in [Device -> SUBSET Version]

CachedTyped ==
  /\ known \in [Device -> [Device -> Version]]
  /\ invited \in [Device -> SUBSET (Group \X Device)]
  /\ pendingInvites \in [Device -> SUBSET (Group \X Device)]
  /\ forgottenSlots \in [Device -> SUBSET Device]

TaskState ==
  [pc : {"idle", "wait", "groups", "list", "invite", "persist"},
   slot : Device \union {None}, kp : Version, todo : SUBSET Group,
   group : Group \union {None}, wait : Worker \union {None}]

ForgetState ==
  [pc : {"idle", "groups", "remove", "retry", "refresh"},
   slot : Device \union {None}, kp : Version, todo : SUBSET Group,
   group : Group \union {None}, leaves : SUBSET Nat, escaped : SUBSET Group, done : SUBSET Group]

HistoryTyped ==
  /\ unrecorded \subseteq Device \X (Group \X Device)
  /\ handlers \in 0 .. MaxHandlers /\ forgets \subseteq Forgets /\ faults \in 0 .. MaxFaults

\* Every variable has its type.
TypeOK ==
  /\ RelayTyped /\ MemberTyped /\ InboxTyped /\ StoresTyped /\ JoiningTyped /\ CachedTyped
  /\ task \in [Device -> [Task -> TaskState]] /\ forget \in [Device -> ForgetState]
  /\ HistoryTyped

\* A Welcome is taken off the unread list only when the device has the group,
\* or the failure is on record for the user to see: a crash at any point of
\* joinFromWelcomeInvite, or a refused write, loses none (AC-LOG-1,
\* device-sync.ts 393).
WelcomeAccounted ==
  \A d \in Device : \A i \in read[d] :
    i \in failed[d] \/ (i.dev = d /\ i.group \in Loaded(d))

\* A device invites a slot to a group once, however often the slot's KeyPackage
\* rotates and whatever handlers run beside each other (device-sync.ts 677-684),
\* unless a reload falls between the published invite and its record, or the
\* write of the record fails.
OneWelcomePerSlot ==
  \A i, j \in welcomes :
    i.from = j.from /\ i.group = j.group /\ i.dev = j.dev
      => i = j \/ <<i.from, <<i.group, i.dev>>>> \in unrecorded

\* forgetSiblingDevice leaves no leaf of the forgotten device in a group it has
\* gone through, also when the device has rotated the KeyPackage it was admitted
\* with (forget-device.ts 228-242). Not covered is a group to which one of the two
\* devices was admitted twice, as the match by KeyPackage event may then find one
\* leaf and leave the other, and an invite in flight that the sweep does not see.
Admissions(g, s) ==
  Cardinality({i \in welcomes : i.group = g /\ i.dev = s}) + (IF Creator[g] = s THEN 1 ELSE 0)

ForgetSweepsGroup ==
  \A d \in Device : \A g \in forget[d].done :
    (\A s \in {d, forget[d].slot} : Admissions(g, s) <= 1) =>
      \A l \in Leaves(g) : l.dev # forget[d].slot

\* Once a slot is in the forgotten-slots store and the cache has had its
\* refresh, no handler gets its KeyPackage past isSlotForgotten, in this session
\* or a later one (AC-INVITE-1 to 3).
ForgottenStaysOut ==
  [][\A d \in Device : \A t \in Task :
       task[d][t].pc = "wait" /\ task'[d][t].pc = "groups"
         => task[d][t].slot \notin forgotten[d] \/ forget[d].pc = "refresh"]_vars

\* A KeyPackage handler waits only for a barrier that is still going to be
\* resolved: the run that holds it is in a turn (device-sync.ts 519-522). Else
\* the device would not invite anyone for the rest of the session.
BarrierIsHeld ==
  \A d \in Device : \A t \in Task :
    task[d][t].wait # None => worker[d][task[d][t].wait] # IdleWorker

\* Violated: "The remaining leaf indexes belong to the sibling"
\* (forget-device.ts 240). A leaf is removed only from a device that is being
\* forgotten.
ForgetSparesOthers ==
  [][\A g \in Group : \A l \in Leaves(g) \ Leaves(g)' :
       \E d \in Device : forget[d].slot = l.dev]_vars
=============================================================================
