-------------------------- MODULE LegacyMigration --------------------------
(***************************************************************************)
(* migrateLegacyPartition (storage.ts): the databases of the time before   *)
(* the partitions are copied, one by one, into the partition of the pubkey *)
(* that binds first, and deleted. It runs in init(), before the client is  *)
(* made. Nothing keeps two runs apart: another tab, or a sign-out and a    *)
(* sign-in, which do not stop a run, start a second one.                   *)
(***************************************************************************)
EXTENDS Naturals, FiniteSets

CONSTANTS
  Pubkey,       \* the users of the browser
  Run,          \* bound: calls of migrateLegacyPartition
  Store,        \* legacy databases; entry by entry copies are one step each
  Task,         \* keys of the task log in the default database
  None,
  MaxCrashes    \* bound: runs that are cut short

ASSUME MigrationAssumption ==
  /\ IsFiniteSet(Pubkey) /\ IsFiniteSet(Run) /\ IsFiniteSet(Store) /\ IsFiniteSet(Task)
  /\ Store \intersect Task = {} /\ None \notin Pubkey \union Store \union Task \union {"legacy", "newer"}
  /\ MaxCrashes \in Nat

Item == Store \union Task

VARIABLES
  canList,      \* the browser has indexedDB.databases
  legacy,       \* items that the origin-only databases hold
  part,         \* of each partition, what it holds of each item
  marker,       \* migratedTo
  run,          \* the calls
  crashes,
  overlapped    \* history: a call was started while another was going on

vars == <<canList, legacy, part, marker, run, crashes, overlapped>>

NoRun == [pc |-> "none", pk |-> None, todo |-> {}, item |-> None, value |-> None]
Going(r) == run[r].pc \notin {"none", "done", "dead"}
RunTo(r, to) == run' = [run EXCEPT ![r] = to]

\* init() calls it, with a pubkey.
Start(r) ==
  /\ run[r].pc = "none"
  /\ \E pk \in Pubkey : RunTo(r, [NoRun EXCEPT !.pc = "marker", !.pk = pk])
  /\ overlapped' = (overlapped \/ \E k \in Run : Going(k))
  /\ UNCHANGED <<canList, legacy, part, marker, crashes>>

\* Mutant: the marker is not looked at.
MarkerPassed(r) ==
  /\ run[r].pc = "marker"
  /\ RunTo(r, [run[r] EXCEPT !.pc = IF canList THEN "list" ELSE "mark"])
  /\ UNCHANGED <<canList, legacy, part, marker, crashes, overlapped>>

\* Migrated already; or the databases are listed next, if they can be.
MarkerRead(r) ==
  /\ run[r].pc = "marker"
  /\ RunTo(r, [run[r] EXCEPT !.pc = IF marker # None THEN "done" ELSE IF canList THEN "list" ELSE "mark"])
  /\ UNCHANGED <<canList, legacy, part, marker, crashes, overlapped>>

\* Only databases that exist are looked at.
List(r) ==
  /\ run[r].pc = "list"
  /\ RunTo(r, [run[r] EXCEPT !.pc = "next", !.todo = legacy \intersect Store])
  /\ UNCHANGED <<canList, legacy, part, marker, crashes, overlapped>>

\* readAllRaw: one that is gone by now is opened anew, and is empty.
Read(r) ==
  /\ run[r].pc = "next"
  /\ \E s \in run[r].todo :
       RunTo(r, [run[r] EXCEPT !.pc = IF s \in legacy THEN "copy" ELSE "delete",
                               !.todo = @ \ {s}, !.item = s])
  /\ UNCHANGED <<canList, legacy, part, marker, crashes, overlapped>>

\* Mutant: the database is deleted before its entries are stored.
CopyLast(r) ==
  /\ run[r].pc = "copy"
  /\ legacy' = legacy \ {run[r].item}
  /\ RunTo(r, [run[r] EXCEPT !.pc = "delete"])
  /\ UNCHANGED <<canList, part, marker, crashes, overlapped>>

\* The entries are stored over what the partition holds.
Copy(r) ==
  /\ run[r].pc = "copy"
  /\ part' = [part EXCEPT ![run[r].pk][run[r].item] = "legacy"]
  /\ RunTo(r, [run[r] EXCEPT !.pc = "delete"])
  /\ UNCHANGED <<canList, legacy, marker, crashes, overlapped>>

\* deleteDatabaseSafe goes on if the deletion is blocked or fails.
Delete(r) ==
  /\ run[r].pc = "delete"
  /\ legacy' \in {legacy, legacy \ {run[r].item}}
  /\ RunTo(r, [run[r] EXCEPT !.pc = "next", !.item = None])
  /\ UNCHANGED <<canList, part, marker, crashes, overlapped>>

\* The keys of the task log, once every database is done.
ListTasks(r) ==
  /\ run[r].pc = "next" /\ run[r].todo = {}
  /\ RunTo(r, [run[r] EXCEPT !.pc = "task", !.todo = legacy \intersect Task])
  /\ UNCHANGED <<canList, legacy, part, marker, crashes, overlapped>>

\* A key that another run has moved by now is read as undefined.
GetTask(r) ==
  /\ run[r].pc = "task"
  /\ \E t \in run[r].todo :
       RunTo(r, [run[r] EXCEPT !.pc = "set", !.todo = @ \ {t}, !.item = t,
                               !.value = IF t \in legacy THEN "legacy" ELSE None])
  /\ UNCHANGED <<canList, legacy, part, marker, crashes, overlapped>>

SetTask(r) ==
  /\ run[r].pc = "set"
  /\ part' = [part EXCEPT ![run[r].pk][run[r].item] = run[r].value]
  /\ RunTo(r, [run[r] EXCEPT !.pc = "del"])
  /\ UNCHANGED <<canList, legacy, marker, crashes, overlapped>>

DelTask(r) ==
  /\ run[r].pc = "del"
  /\ legacy' = legacy \ {run[r].item}
  /\ RunTo(r, [run[r] EXCEPT !.pc = "task", !.item = None, !.value = None])
  /\ UNCHANGED <<canList, part, marker, crashes, overlapped>>

TasksDone(r) ==
  /\ run[r].pc = "task" /\ run[r].todo = {}
  /\ RunTo(r, [run[r] EXCEPT !.pc = "mark"])
  /\ UNCHANGED <<canList, legacy, part, marker, crashes, overlapped>>

Mark(r) ==
  /\ run[r].pc = "mark"
  /\ marker' = run[r].pk
  /\ RunTo(r, [run[r] EXCEPT !.pc = "done"])
  /\ UNCHANGED <<canList, legacy, part, crashes, overlapped>>

\* The tab closes, or an await rejects: the session gets no client.
Crash(r) ==
  /\ Going(r) /\ crashes < MaxCrashes
  /\ RunTo(r, [NoRun EXCEPT !.pc = "dead"]) /\ crashes' = crashes + 1
  /\ UNCHANGED <<canList, legacy, part, marker, overlapped>>

\* The client of a user whose run is over writes its stores.
ClientWrites(p, i) ==
  /\ \E r \in Run : run[r].pc = "done" /\ run[r].pk = p
  /\ part' = [part EXCEPT ![p][i] = "newer"]
  /\ UNCHANGED <<canList, legacy, marker, run, crashes, overlapped>>

Init ==
  /\ canList \in BOOLEAN /\ legacy = Item
  /\ part = [p \in Pubkey |-> [i \in Item |-> None]]
  /\ marker = None /\ run = [r \in Run |-> NoRun]
  /\ crashes = 0 /\ overlapped = FALSE

Next ==
  \/ \E r \in Run :
       \/ Start(r) \/ MarkerRead(r) \/ List(r) \/ Read(r) \/ Copy(r) \/ Delete(r)
       \/ ListTasks(r) \/ GetTask(r) \/ SetTask(r) \/ DelTask(r) \/ TasksDone(r)
       \/ Mark(r) \/ Crash(r)
  \/ \E p \in Pubkey, i \in Item : ClientWrites(p, i)

Spec == Init /\ [][Next]_vars

----------------------------------------------------------------------------
(* Properties. *)

\* Types.
TypeOK ==
  /\ canList \in BOOLEAN /\ legacy \subseteq Item /\ marker \in Pubkey \union {None}
  /\ part \in [Pubkey -> [Item -> {"legacy", "newer", None}]]
  /\ run \in [Run -> [pc : {"none", "marker", "list", "next", "copy", "delete", "task", "set",
                           "del", "mark", "done", "dead"},
                     pk : Pubkey \union {None}, todo : SUBSET Item, item : Item \union {None},
                     value : {"legacy", None}]]
  /\ \A r \in Run : Going(r) => run[r].pk \in Pubkey
  /\ crashes \in 0 .. MaxCrashes /\ overlapped \in BOOLEAN

Held(i) == i \in legacy \/ \E p \in Pubkey : part[p][i] # None

\* An upgrade loses nothing, wherever a tab closes: each item is still in its
\* old database or in a partition. The task log only if runs do not overlap:
\* the second stores undefined over a key that the first has moved.
LegacyKept == \A i \in Item : Held(i) \/ (i \in Task /\ overlapped)

\* The legacy data go to one partition (storage.ts 192-194), but for a run that
\* was cut short or ran beside another.
OnePartition ==
  \/ overlapped \/ crashes > 0
  \/ \A p, q \in Pubkey : \A i, j \in Item :
       part[p][i] = "legacy" /\ part[q][j] = "legacy" => p = q

\* What a client has written is not set back to the legacy value, unless by a
\* run beside it.
NeverSetBack ==
  [][\A p \in Pubkey, i \in Item : part[p][i] = "newer" => part'[p][i] = "newer" \/ overlapped]_vars

=============================================================================
