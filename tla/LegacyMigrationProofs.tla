------------------------ MODULE LegacyMigrationProofs ------------------------
(* What TLAPS proves of LegacyMigration, for every value of its constants.   *)
EXTENDS LegacyMigration, TLAPS

RunRecord == [pc : {"none", "marker", "list", "next", "copy", "delete", "task", "set", "del",
                   "mark", "done", "dead"},
             pk : Pubkey \union {None}, todo : SUBSET Item, item : Item \union {None},
             value : {"legacy", None}]

\* Types, but for the bound on crashes.
Typed ==
  /\ legacy \subseteq Item /\ overlapped \in BOOLEAN
  /\ part \in [Pubkey -> [Item -> {"legacy", "newer", None}]]
  /\ run \in [Run -> RunRecord]
  /\ \A r \in Run : Going(r) => run[r].pk \in Pubkey

\* What a run holds on to belongs to the half of the migration it is in.
HalvesApart ==
  \A r \in Run :
    /\ run[r].pc = "next" => run[r].todo \subseteq Store
    /\ run[r].pc \in {"copy", "delete"} => run[r].item \in Store /\ run[r].todo \subseteq Store
    /\ run[r].pc = "task" => run[r].todo \subseteq Task
    /\ run[r].pc \in {"set", "del"} => run[r].item \in Task /\ run[r].todo \subseteq Task

\* A database that is about to be deleted is gone already or has been copied.
CopiedFirst ==
  \A r \in Run :
    run[r].pc = "delete" => \/ run[r].item \notin legacy
                            \/ part[run[r].pk][run[r].item] # None

\* A run with no other beside it finds the keys it has listed, and has stored the
\* one that it is about to delete.
FindsItsKeys ==
  ~overlapped =>
    \A r \in Run :
      /\ \A k \in Run : Going(r) /\ Going(k) => k = r
      /\ run[r].pc = "task" => run[r].todo \subseteq legacy
      /\ run[r].pc \in {"set", "del"} => run[r].todo \subseteq legacy \ {run[r].item}
      /\ run[r].pc = "set" => run[r].value = "legacy"
      /\ run[r].pc = "del" => part[run[r].pk][run[r].item] # None

KeptInv == Typed /\ HalvesApart /\ CopiedFirst /\ FindsItsKeys /\ LegacyKept

\* Run r goes on as c; the other runs stay where they are.
LEMMA RunMoves ==
  ASSUME Typed, NEW r \in Run, NEW c \in RunRecord, run' = [run EXCEPT ![r] = c],
         c.pc \notin {"none", "done", "dead"} => c.pk \in Pubkey
  PROVE /\ run' \in [Run -> RunRecord] /\ run'[r] = c
        /\ \A k \in Run \ {r} : run'[k] = run[k]
        /\ \A k \in Run : Going(k)' => run'[k].pk \in Pubkey
<1>1. run' \in [Run -> RunRecord] /\ run'[r] = c /\ \A k \in Run \ {r} : run'[k] = run[k]
  BY DEF Typed
<1>2. ASSUME NEW k \in Run, Going(k)' PROVE run'[k].pk \in Pubkey
  <2>1. CASE k = r
    BY <1>1, <1>2, <2>1 DEF Going
  <2>2. CASE k # r
    BY <1>1, <1>2, <2>2 DEF Going, Typed
  <2> QED
    BY <2>1, <2>2
<1> QED
  BY <1>1, <1>2

LEMMA KeptInit == Init => KeptInv
<1> SUFFICES ASSUME Init PROVE KeptInv
  OBVIOUS
<1>1. NoRun \in RunRecord
  BY DEF NoRun, RunRecord
<1>2. \A r \in Run : run[r] = NoRun /\ run[r].pc = "none"
  BY DEF Init, NoRun
<1>3. Typed
  BY <1>1, <1>2 DEF Init, Typed, Going
<1>4. HalvesApart /\ CopiedFirst /\ FindsItsKeys
  BY <1>2 DEF HalvesApart, CopiedFirst, FindsItsKeys, Going
<1>5. LegacyKept
  BY DEF Init, LegacyKept, Held
<1> QED
  BY <1>3, <1>4, <1>5 DEF KeptInv

\* A step that only moves run r keeps the invariant if r's new place does.
LEMMA KeptMove ==
  ASSUME KeptInv, NEW r \in Run, NEW c \in RunRecord, RunTo(r, c),
         c.pc \notin {"none", "done", "dead"} => c.pk \in Pubkey /\ Going(r),
         UNCHANGED <<legacy, part, overlapped>>,
         c.pc \in {"next", "copy", "delete"} => c.todo \subseteq Store,
         c.pc \in {"copy", "delete"} => c.item \in Store,
         c.pc \in {"task", "set", "del"} => c.todo \subseteq Task,
         c.pc \in {"set", "del"} => c.item \in Task,
         c.pc = "delete" => c.item \notin legacy \/ part[c.pk][c.item] # None,
         ~overlapped =>
           /\ c.pc = "task" => c.todo \subseteq legacy
           /\ c.pc \in {"set", "del"} => c.todo \subseteq legacy \ {c.item}
           /\ c.pc = "set" => c.value = "legacy"
           /\ c.pc = "del" => part[c.pk][c.item] # None
  PROVE KeptInv'
<1>1. /\ run' \in [Run -> RunRecord] /\ run'[r] = c
      /\ \A k \in Run \ {r} : run'[k] = run[k]
      /\ \A k \in Run : Going(k)' => run'[k].pk \in Pubkey
  BY RunMoves DEF KeptInv, RunTo
<1>2. Typed' /\ LegacyKept'
  BY <1>1 DEF KeptInv, Typed, LegacyKept, Held
<1>3. HalvesApart'
  BY <1>1 DEF KeptInv, HalvesApart
<1>4. CopiedFirst'
  BY <1>1 DEF KeptInv, CopiedFirst
<1>5. \A k \in Run : Going(k)' => Going(k)
  BY <1>1 DEF Going
<1>6. FindsItsKeys'
  BY <1>1, <1>5 DEF KeptInv, FindsItsKeys
<1> QED
  BY <1>2, <1>3, <1>4, <1>6 DEF KeptInv

\* The steps that only move a run: to the next store or key, with what was read there,
LEMMA KeptRead == ASSUME KeptInv, NEW r \in Run, Read(r) PROVE KeptInv'
<1>1. /\ run[r] \in RunRecord /\ Going(r) /\ run[r].pk \in Pubkey
      /\ run[r].todo \subseteq Store /\ UNCHANGED <<legacy, part, overlapped>>
  BY DEF Read, Going, HalvesApart, KeptInv, Typed
<1>2. PICK s \in run[r].todo :
        RunTo(r, [run[r] EXCEPT !.pc = IF s \in legacy THEN "copy" ELSE "delete",
                                !.todo = @ \ {s}, !.item = s])
  BY Zenon DEF Read
<1> DEFINE c == [run[r] EXCEPT !.pc = IF s \in legacy THEN "copy" ELSE "delete",
                              !.todo = @ \ {s}, !.item = s]
<1>3. /\ c \in RunRecord /\ c.pk = run[r].pk /\ c.todo \subseteq Store /\ c.item = s
      /\ s \in Store /\ c.pc \in {"copy", "delete"}
      /\ c.pc = "delete" => s \notin legacy
  BY <1>1 DEF RunRecord, Item
<1>4. RunTo(r, c)
  BY <1>2
<1> HIDE DEF c
<1> QED
  BY <1>1, <1>3, <1>4, KeptMove

LEMMA KeptGetTask == ASSUME KeptInv, NEW r \in Run, GetTask(r) PROVE KeptInv'
<1>1. /\ run[r] \in RunRecord /\ Going(r) /\ run[r].pk \in Pubkey
      /\ run[r].todo \subseteq Task /\ UNCHANGED <<legacy, part, overlapped>>
      /\ ~overlapped => run[r].todo \subseteq legacy
  BY DEF GetTask, Going, HalvesApart, KeptInv, Typed, FindsItsKeys
<1>2. PICK t \in run[r].todo :
        RunTo(r, [run[r] EXCEPT !.pc = "set", !.todo = @ \ {t}, !.item = t,
                                !.value = IF t \in legacy THEN "legacy" ELSE None])
  BY Zenon DEF GetTask
<1> DEFINE c == [run[r] EXCEPT !.pc = "set", !.todo = @ \ {t}, !.item = t,
                              !.value = IF t \in legacy THEN "legacy" ELSE None]
<1>3. /\ c \in RunRecord /\ c.pk = run[r].pk /\ c.todo = run[r].todo \ {t} /\ c.item = t
      /\ t \in Task /\ c.pc = "set"
      /\ t \in legacy => c.value = "legacy"
  BY <1>1 DEF RunRecord, Item
<1>4. RunTo(r, c)
  BY <1>2
<1> HIDE DEF c
<1> QED
  BY <1>1, <1>3, <1>4, KeptMove

\* to another half of the migration,
LEMMA KeptLists == ASSUME KeptInv, NEW r \in Run, List(r) \/ ListTasks(r) PROVE KeptInv'
<1>1. /\ run[r] \in RunRecord /\ Going(r) /\ run[r].pk \in Pubkey
      /\ UNCHANGED <<legacy, part, overlapped>>
  BY DEF List, ListTasks, Going, KeptInv, Typed
<1>2. CASE List(r)
  <2> DEFINE c == [run[r] EXCEPT !.pc = "next", !.todo = legacy \intersect Store]
  <2>1. RunTo(r, c)
    BY <1>2 DEF List
  <2>2. c \in RunRecord /\ c.pk = run[r].pk /\ c.pc = "next" /\ c.todo \subseteq Store
    BY <1>1 DEF RunRecord, Item
  <2> HIDE DEF c
  <2> QED
    BY <1>1, <2>1, <2>2, KeptMove
<1>3. CASE ListTasks(r)
  <2> DEFINE c == [run[r] EXCEPT !.pc = "task", !.todo = legacy \intersect Task]
  <2>1. RunTo(r, c)
    BY <1>3 DEF ListTasks
  <2>2. /\ c \in RunRecord /\ c.pk = run[r].pk /\ c.pc = "task"
        /\ c.todo \subseteq Task /\ c.todo \subseteq legacy
    BY <1>1 DEF RunRecord, Item
  <2> HIDE DEF c
  <2> QED
    BY <1>1, <2>1, <2>2, KeptMove
<1> QED
  BY <1>2, <1>3

\* or to its end.
LEMMA KeptEnds ==
  ASSUME KeptInv, NEW r \in Run, MarkerRead(r) \/ TasksDone(r) \/ Mark(r) \/ Crash(r)
  PROVE KeptInv'
<1>1. CASE MarkerRead(r) \/ TasksDone(r) \/ Mark(r)
  <2>1. /\ run[r] \in RunRecord /\ Going(r) /\ run[r].pk \in Pubkey
        /\ UNCHANGED <<legacy, part, overlapped>>
    BY <1>1 DEF MarkerRead, TasksDone, Mark, Going, KeptInv, Typed
  <2>2. PICK pc \in {"done", "list", "mark"} : RunTo(r, [run[r] EXCEPT !.pc = pc])
    BY <1>1 DEF MarkerRead, TasksDone, Mark
  <2>3. [run[r] EXCEPT !.pc = pc] \in RunRecord
    BY <2>1 DEF RunRecord
  <2> QED
    BY <2>1, <2>2, <2>3, KeptMove DEF RunRecord
<1>2. CASE Crash(r)
  <2>1. RunTo(r, [NoRun EXCEPT !.pc = "dead"]) /\ UNCHANGED <<legacy, part, overlapped>>
    BY <1>2 DEF Crash
  <2>2. [NoRun EXCEPT !.pc = "dead"] \in RunRecord
    BY DEF NoRun, RunRecord
  <2> QED
    BY <2>1, <2>2, KeptMove DEF NoRun, RunRecord
<1> QED
  BY <1>1, <1>2

\* A new run: beside another one only if that is recorded.
LEMMA KeptStart == ASSUME KeptInv, NEW r \in Run, Start(r) PROVE KeptInv'
<1>1. PICK pk \in Pubkey : RunTo(r, [NoRun EXCEPT !.pc = "marker", !.pk = pk])
  BY Zenon DEF Start
<1>2. [NoRun EXCEPT !.pc = "marker", !.pk = pk] \in RunRecord
  BY DEF NoRun, RunRecord
<1>3. /\ run' \in [Run -> RunRecord] /\ run'[r].pc = "marker"
      /\ \A k \in Run \ {r} : run'[k] = run[k]
      /\ \A k \in Run : Going(k)' => run'[k].pk \in Pubkey
  BY <1>1, <1>2, RunMoves DEF KeptInv, RunTo, NoRun
<1>4. UNCHANGED <<legacy, part>> /\ overlapped' = (overlapped \/ \E k \in Run : Going(k))
  BY DEF Start
<1>5. Typed' /\ LegacyKept'
  BY <1>3, <1>4 DEF KeptInv, Typed, LegacyKept, Held
<1>6. HalvesApart' /\ CopiedFirst'
  BY <1>3, <1>4 DEF KeptInv, HalvesApart, CopiedFirst
<1>7. FindsItsKeys'
  <2> SUFFICES ASSUME ~overlapped' PROVE FindsItsKeys'
    BY DEF FindsItsKeys
  <2>1. \A k \in Run \ {r} : run'[k].pc \in {"none", "done", "dead"}
    BY <1>3, <1>4 DEF Going
  <2>2. \A k \in Run : Going(k)' => k = r
    BY <2>1 DEF Going
  <2>3. \A k \in Run : run'[k].pc \notin {"task", "set", "del"}
    BY <1>3, <2>1
  <2> QED
    BY <2>2, <2>3 DEF FindsItsKeys
<1> QED
  BY <1>5, <1>6, <1>7 DEF KeptInv

\* Run r is the only one that is going on, or the runs overlap.
LEMMA Alone ==
  ASSUME KeptInv, NEW r \in Run, Going(r), ~overlapped, NEW k \in Run \ {r}
  PROVE run[k].pc \notin {"task", "set", "del"}
BY DEF KeptInv, FindsItsKeys, Going

\* A step of run r that also writes: what it must see to is its own place, that the
\* databases about to be deleted stay copied, and that nothing is lost.
LEMMA KeptWrite ==
  ASSUME KeptInv, NEW r \in Run, NEW c \in RunRecord, RunTo(r, c), Going(r),
         c.pk = run[r].pk, c.pc \in {"next", "delete", "task", "del"},
         UNCHANGED overlapped,
         legacy' \subseteq legacy, part' \in [Pubkey -> [Item -> {"legacy", "newer", None}]],
         \A p \in Pubkey, i \in Store : part[p][i] # None => part'[p][i] # None,
         c.todo \subseteq run[r].todo,
         c.pc \in {"next", "delete"} => run[r].todo \subseteq Store,
         c.pc \in {"task", "del"} => run[r].todo \subseteq Task,
         c.pc = "delete" => c.item \in Store /\ part'[c.pk][c.item] # None,
         c.pc = "del" => c.item \in Task,
         ~overlapped =>
           /\ c.pc = "task" => c.todo \subseteq legacy'
           /\ c.pc = "del" => c.todo \subseteq legacy' \ {c.item} /\ part'[c.pk][c.item] # None,
         LegacyKept'
  PROVE KeptInv'
<1>1. run[r].pk \in Pubkey
  BY DEF KeptInv, Typed
<1>2. /\ run' \in [Run -> RunRecord] /\ run'[r] = c
      /\ \A k \in Run \ {r} : run'[k] = run[k]
      /\ \A k \in Run : Going(k)' => run'[k].pk \in Pubkey
  BY <1>1, RunMoves DEF KeptInv, RunTo
<1>3. Typed'
  BY <1>2 DEF KeptInv, Typed
<1>4. HalvesApart'
  BY <1>2 DEF KeptInv, HalvesApart
<1>5. CopiedFirst'
  <2>1. ASSUME NEW k \in Run \ {r}, run[k].pc = "delete"
        PROVE run[k].item \notin legacy' \/ part'[run[k].pk][run[k].item] # None
    <3>1. run[k].item \in Store /\ run[k].pk \in Pubkey
      BY <2>1 DEF KeptInv, HalvesApart, Typed, Going
    <3> QED
      BY <2>1, <3>1 DEF KeptInv, CopiedFirst
  <2> QED
    BY <1>2, <2>1 DEF CopiedFirst
<1>6. FindsItsKeys'
  <2>1. \A k \in Run : Going(k)' => Going(k)
    BY <1>2 DEF Going
  <2>2. ~overlapped => \A k \in Run \ {r} : run'[k].pc \notin {"task", "set", "del"}
    BY <1>2, Alone
  <2> QED
    BY <1>2, <2>1, <2>2 DEF KeptInv, FindsItsKeys
<1> QED
  BY <1>3, <1>4, <1>5, <1>6 DEF KeptInv

\* The database is copied into the partition.
LEMMA KeptCopy == ASSUME KeptInv, NEW r \in Run, Copy(r) PROVE KeptInv'
<1> DEFINE c == [run[r] EXCEPT !.pc = "delete"]
<1>0. /\ run[r] \in RunRecord /\ Going(r) /\ run[r].pk \in Pubkey /\ run[r].item \in Store
      /\ run[r].todo \subseteq Store
  BY DEF KeptInv, Typed, Copy, Going, HalvesApart
<1>1. /\ c \in RunRecord /\ c.pc = "delete" /\ c.pk = run[r].pk /\ c.item = run[r].item
      /\ c.todo = run[r].todo
  BY <1>0 DEF RunRecord
<1>2. RunTo(r, c) /\ UNCHANGED <<legacy, overlapped>>
  BY DEF Copy
<1> HIDE DEF c
<1>3. /\ part' \in [Pubkey -> [Item -> {"legacy", "newer", None}]]
      /\ part'[run[r].pk][run[r].item] = "legacy"
      /\ \A p \in Pubkey, i \in Item : part'[p][i] = part[p][i] \/ part'[p][i] = "legacy"
  BY <1>0 DEF Copy, KeptInv, Typed, Item
<1>4. None # "legacy"
  BY MigrationAssumption
<1>5. LegacyKept'
  BY <1>2, <1>3, <1>4 DEF KeptInv, LegacyKept, Held
<1>6. \A p \in Pubkey, i \in Store : part[p][i] # None => part'[p][i] # None
  BY <1>3, <1>4 DEF Item
<1> QED
  BY <1>0, <1>1, <1>2, <1>3, <1>4, <1>5, <1>6, KeptWrite

\* The database is deleted, or its deletion fails.
LEMMA KeptDelete == ASSUME KeptInv, NEW r \in Run, Delete(r) PROVE KeptInv'
<1> DEFINE c == [run[r] EXCEPT !.pc = "next", !.item = None]
<1>0. /\ run[r] \in RunRecord /\ Going(r) /\ run[r].pk \in Pubkey /\ run[r].item \in Store
      /\ run[r].todo \subseteq Store
  BY DEF KeptInv, Typed, Delete, Going, HalvesApart
<1>1. c \in RunRecord /\ c.pc = "next" /\ c.pk = run[r].pk /\ c.todo = run[r].todo
  BY <1>0 DEF RunRecord
<1>2. RunTo(r, c) /\ UNCHANGED <<part, overlapped>> /\ legacy' \in {legacy, legacy \ {run[r].item}}
  BY DEF Delete
<1> HIDE DEF c
<1>3. run[r].item \notin legacy \/ part[run[r].pk][run[r].item] # None
  BY DEF KeptInv, CopiedFirst, Delete
<1>4. LegacyKept'
  BY <1>0, <1>2, <1>3 DEF KeptInv, LegacyKept, Held
<1> QED
  BY <1>0, <1>1, <1>2, <1>4, KeptWrite DEF KeptInv, Typed

\* The key is stored in the partition.
LEMMA KeptSetTask == ASSUME KeptInv, NEW r \in Run, SetTask(r) PROVE KeptInv'
<1> DEFINE c == [run[r] EXCEPT !.pc = "del"]
<1>0. /\ run[r] \in RunRecord /\ Going(r) /\ run[r].pk \in Pubkey /\ run[r].item \in Task
      /\ run[r].todo \subseteq Task /\ run[r].value \in {"legacy", None}
      /\ ~overlapped => run[r].value = "legacy" /\ run[r].todo \subseteq legacy \ {run[r].item}
  BY DEF KeptInv, Typed, SetTask, Going, HalvesApart, FindsItsKeys, RunRecord
<1>1. /\ c \in RunRecord /\ c.pc = "del" /\ c.pk = run[r].pk /\ c.item = run[r].item
      /\ c.todo = run[r].todo
  BY <1>0 DEF RunRecord
<1>2. RunTo(r, c) /\ UNCHANGED <<legacy, overlapped>>
  BY DEF SetTask
<1> HIDE DEF c
<1>3. /\ part' \in [Pubkey -> [Item -> {"legacy", "newer", None}]]
      /\ part'[run[r].pk][run[r].item] = run[r].value
      /\ \A p \in Pubkey, i \in Item : i # run[r].item => part'[p][i] = part[p][i]
      /\ \A p \in Pubkey, i \in Item :
           part'[p][i] = part[p][i] \/ (i = run[r].item /\ part'[p][i] = run[r].value)
  BY <1>0 DEF SetTask, KeptInv, Typed, Item
<1>4. None # "legacy" /\ Store \intersect Task = {}
  BY MigrationAssumption
<1>5. LegacyKept'
  <2>1. CASE overlapped
    BY <1>0, <1>2, <1>3, <2>1 DEF KeptInv, LegacyKept, Held
  <2>2. CASE ~overlapped
    BY <1>0, <1>2, <1>3, <1>4, <2>2 DEF KeptInv, LegacyKept, Held
  <2> QED
    BY <2>1, <2>2
<1>6. \A p \in Pubkey, i \in Store : part[p][i] # None => part'[p][i] # None
  BY <1>0, <1>3, <1>4 DEF Item
<1> QED
  BY <1>0, <1>1, <1>2, <1>3, <1>4, <1>5, <1>6, KeptWrite

\* The key is deleted from the old database.
LEMMA KeptDelTask == ASSUME KeptInv, NEW r \in Run, DelTask(r) PROVE KeptInv'
<1> DEFINE c == [run[r] EXCEPT !.pc = "task", !.item = None, !.value = None]
<1>0. /\ run[r] \in RunRecord /\ Going(r) /\ run[r].pk \in Pubkey /\ run[r].item \in Task
      /\ run[r].todo \subseteq Task
      /\ ~overlapped => /\ part[run[r].pk][run[r].item] # None
                        /\ run[r].todo \subseteq legacy \ {run[r].item}
  BY DEF KeptInv, Typed, DelTask, Going, HalvesApart, FindsItsKeys
<1>1. c \in RunRecord /\ c.pc = "task" /\ c.pk = run[r].pk /\ c.todo = run[r].todo
  BY <1>0 DEF RunRecord
<1>2. RunTo(r, c) /\ UNCHANGED <<part, overlapped>> /\ legacy' = legacy \ {run[r].item}
  BY DEF DelTask
<1> HIDE DEF c
<1>3. LegacyKept'
  BY <1>0, <1>2 DEF KeptInv, LegacyKept, Held
<1> QED
  BY <1>0, <1>1, <1>2, <1>3, KeptWrite DEF KeptInv, Typed

\* A client overwrites what its partition holds.
LEMMA KeptClientWrites ==
  ASSUME KeptInv, NEW p \in Pubkey, NEW i \in Item, ClientWrites(p, i)
  PROVE KeptInv'
<1>1. /\ part' \in [Pubkey -> [Item -> {"legacy", "newer", None}]]
      /\ \A q \in Pubkey, j \in Item : part'[q][j] = part[q][j] \/ part'[q][j] = "newer"
      /\ UNCHANGED <<legacy, run, overlapped>>
  BY DEF ClientWrites, KeptInv, Typed
<1>2. None # "newer"
  BY MigrationAssumption
<1>3. \A q \in Pubkey, j \in Item : part[q][j] # None => part'[q][j] # None
  BY <1>1, <1>2
<1>4. Typed' /\ HalvesApart' /\ LegacyKept'
  BY <1>1, <1>3 DEF KeptInv, Typed, HalvesApart, LegacyKept, Held, Going
<1>5. CopiedFirst' /\ FindsItsKeys'
  <2>1. \A r \in Run : run[r].pc \in {"delete", "del"} => run[r].pk \in Pubkey /\ run[r].item \in Item
    BY DEF KeptInv, Typed, HalvesApart, Going, Item
  <2>2. CopiedFirst'
    BY <1>1, <1>3, <2>1 DEF KeptInv, CopiedFirst
  <2>3. FindsItsKeys'
    BY <1>1, <1>3, <2>1 DEF KeptInv, FindsItsKeys, Going
  <2> QED
    BY <2>2, <2>3
<1> QED
  BY <1>4, <1>5 DEF KeptInv

LEMMA KeptStep == KeptInv /\ [Next]_vars => KeptInv'
<1> SUFFICES ASSUME KeptInv, [Next]_vars PROVE KeptInv'
  OBVIOUS
<1>1. ASSUME NEW r \in Run,
             \/ Start(r) \/ MarkerRead(r) \/ List(r) \/ Read(r) \/ Copy(r) \/ Delete(r)
             \/ ListTasks(r) \/ GetTask(r) \/ SetTask(r) \/ DelTask(r) \/ TasksDone(r)
             \/ Mark(r) \/ Crash(r)
      PROVE KeptInv'
  BY <1>1, KeptStart, KeptRead, KeptGetTask, KeptLists, KeptEnds, KeptCopy, KeptDelete, KeptSetTask, KeptDelTask
<1>2. ASSUME NEW p \in Pubkey, NEW i \in Item, ClientWrites(p, i) PROVE KeptInv'
  BY <1>2, KeptClientWrites
<1>3. CASE UNCHANGED vars
  BY <1>3 DEF vars, KeptInv, Typed, HalvesApart, CopiedFirst, FindsItsKeys, LegacyKept, Held, Going
<1> QED
  BY <1>1, <1>2, <1>3 DEF Next

\* The migration loses no database, and no key of the task log unless runs overlap,
\* for any number of users, runs, databases and crashes, and whether or not the browser
\* deletes what it is told to.
THEOREM NothingLegacyIsLost == Spec => []LegacyKept
<1>1. KeptInv => LegacyKept
  BY DEF KeptInv
<1> QED
  BY <1>1, KeptInit, KeptStep, PTL DEF Spec

\* What the invariant leaves out of the types.
Counted ==
  canList \in BOOLEAN /\ marker \in Pubkey \union {None} /\ crashes \in 0 .. MaxCrashes

LEMMA CountedStep == KeptInv /\ Counted /\ [Next]_vars => Counted'
<1> SUFFICES ASSUME KeptInv, Counted, [Next]_vars PROVE Counted'
  OBVIOUS
<1>1. ASSUME NEW r \in Run, Mark(r) PROVE Counted'
  BY <1>1 DEF Mark, Going, KeptInv, Typed, Counted
<1>2. ASSUME NEW r \in Run, Crash(r) PROVE Counted'
  BY <1>2, MigrationAssumption DEF Crash, Counted
<1>3. ASSUME NEW r \in Run,
             \/ Start(r) \/ MarkerRead(r) \/ List(r) \/ Read(r) \/ Copy(r) \/ Delete(r)
             \/ ListTasks(r) \/ GetTask(r) \/ SetTask(r) \/ DelTask(r) \/ TasksDone(r)
      PROVE UNCHANGED <<canList, marker, crashes>>
  BY <1>3, Zenon DEF Start, MarkerRead, List, Read, Copy, Delete, ListTasks, GetTask, SetTask, DelTask,
              TasksDone
<1>4. CASE UNCHANGED <<canList, marker, crashes>>
  BY <1>4 DEF Counted
<1> QED
  BY <1>1, <1>2, <1>3, <1>4 DEF Next, ClientWrites, vars

\* Every variable keeps its type, whatever the number of users, runs, stores and crashes.
THEOREM TypeCorrect == Spec => []TypeOK
<1>1. Init => Counted
  BY MigrationAssumption DEF Init, Counted
<1>2. KeptInv /\ Counted => TypeOK
  BY DEF KeptInv, Counted, Typed, RunRecord, TypeOK
<1> QED
  BY <1>1, <1>2, KeptInit, KeptStep, CountedStep, PTL DEF Spec

----------------------------------------------------------------------------
(* Which partition the legacy data go to. *)

Moving == {"list", "next", "copy", "delete", "task", "set", "del", "mark"}

\* A run that has found no marker, and no other run beside it, still finds none; a
\* client writes only when there is one. The legacy data are where the marker says,
\* or with a run that is about to say so.
MarkedInv ==
  /\ \A r \in Run : run[r].pc = "done" => marker # None
  /\ \A p \in Pubkey, i \in Item : part[p][i] = "newer" => marker # None
  /\ ~overlapped => \A r \in Run : run[r].pc \in Moving => marker = None
  /\ \/ overlapped \/ crashes > 0
     \/ \A p \in Pubkey, i \in Item : part[p][i] = "legacy" =>
          p = marker \/ \E r \in Run : run[r].pc \in Moving /\ run[r].pk = p

LEMMA MarkedInit == Init => MarkedInv
<1> SUFFICES ASSUME Init PROVE MarkedInv
  OBVIOUS
<1>1. \A r \in Run : run[r].pc = "none"
  BY DEF Init, NoRun
<1>2. \A p \in Pubkey, i \in Item : part[p][i] \notin {"legacy", "newer"}
  BY MigrationAssumption DEF Init
<1> QED
  BY <1>1, <1>2 DEF MarkedInv, Moving

\* Steps of a run in the middle of its migration, the ones that store among them.
LEMMA MarkedMove ==
  ASSUME KeptInv, MarkedInv, NEW r \in Run, run[r].pc \in Moving, run'[r].pc \in Moving,
         run'[r].pk = run[r].pk, \A k \in Run \ {r} : run'[k] = run[k],
         UNCHANGED overlapped, UNCHANGED crashes, UNCHANGED marker,
         \A p \in Pubkey : p # run[r].pk => part'[p] = part[p],
         \A p \in Pubkey, i \in Item : part'[p][i] = "newer" => part[p][i] = "newer"
  PROVE  MarkedInv'
<1>1. \A k \in Run : run'[k].pc \in Moving <=> run[k].pc \in Moving
  OBVIOUS
<1>2. \A k \in Run : run'[k].pk = run[k].pk
  OBVIOUS
<1>3. \A k \in Run : run'[k].pc = "done" => run[k].pc = "done"
  BY DEF Moving
<1>4. ASSUME ~overlapped, ~(crashes > 0),
             NEW p \in Pubkey, NEW i \in Item, part'[p][i] = "legacy"
      PROVE  p = marker \/ \E k \in Run : run'[k].pc \in Moving /\ run'[k].pk = p
  BY <1>1, <1>2, <1>4 DEF MarkedInv
<1> QED
  BY <1>1, <1>3, <1>4 DEF MarkedInv


LEMMA MarkedMoves ==
  ASSUME KeptInv, MarkedInv, NEW r \in Run,
         \/ List(r) \/ Read(r) \/ Copy(r) \/ Delete(r) \/ ListTasks(r) \/ GetTask(r)
         \/ SetTask(r) \/ DelTask(r) \/ TasksDone(r)
  PROVE  MarkedInv'
<1>1. run \in [Run -> RunRecord] /\ run[r] \in RunRecord
  BY DEF KeptInv, Typed
<1>2. UNCHANGED overlapped /\ UNCHANGED crashes /\ UNCHANGED marker
  BY DEF List, Read, Copy, Delete, ListTasks, GetTask, SetTask, DelTask, TasksDone
<1>3. run[r].pc \in Moving
  BY DEF Moving, List, Read, Copy, Delete, ListTasks, GetTask, SetTask, DelTask, TasksDone
<1>4. \A k \in Run \ {r} : run'[k] = run[k]
  BY <1>1 DEF RunTo, List, Read, Copy, Delete, ListTasks, GetTask, SetTask, DelTask, TasksDone
<1>5. run'[r].pk = run[r].pk /\ run'[r].pc \in Moving
  <2>0. \A c : RunTo(r, c) => run'[r] = c
    BY <1>1 DEF RunTo
  <2>1. CASE List(r)
    BY <1>1, <2>0, <2>1 DEF Moving, RunRecord, List
  <2>2. CASE Read(r)
    BY <1>1, <2>0, <2>2 DEF Moving, RunRecord, Read
  <2>3. CASE Copy(r)
    BY <1>1, <2>0, <2>3 DEF Moving, RunRecord, Copy
  <2>4. CASE Delete(r)
    BY <1>1, <2>0, <2>4 DEF Moving, RunRecord, Delete
  <2>5. CASE ListTasks(r)
    BY <1>1, <2>0, <2>5 DEF Moving, RunRecord, ListTasks
  <2>6. CASE GetTask(r)
    BY <1>1, <2>0, <2>6 DEF Moving, RunRecord, GetTask
  <2>7. CASE SetTask(r)
    BY <1>1, <2>0, <2>7 DEF Moving, RunRecord, SetTask
  <2>8. CASE DelTask(r)
    BY <1>1, <2>0, <2>8 DEF Moving, RunRecord, DelTask
  <2>9. CASE TasksDone(r)
    BY <1>1, <2>0, <2>9 DEF Moving, RunRecord, TasksDone
  <2> QED
    BY <2>1, <2>2, <2>3, <2>4, <2>5, <2>6, <2>7, <2>8, <2>9
<1>6. /\ \A p \in Pubkey : p # run[r].pk => part'[p] = part[p]
      /\ \A p \in Pubkey, i \in Item : part'[p][i] = "newer" => part[p][i] = "newer"
  <2>1. CASE part' = [part EXCEPT ![run[r].pk][run[r].item] = "legacy"]
    BY <2>1 DEF KeptInv, Typed
  <2>2. CASE part' = [part EXCEPT ![run[r].pk][run[r].item] = run[r].value]
    BY <1>1, <2>2, MigrationAssumption DEF KeptInv, Typed, RunRecord
  <2>3. CASE UNCHANGED part
    BY <2>3
  <2> QED
    BY <2>1, <2>2, <2>3 DEF List, Read, Copy, Delete, ListTasks, GetTask, SetTask, DelTask, TasksDone
<1> QED
  BY <1>2, <1>3, <1>4, <1>5, <1>6, MarkedMove

\* The marker is looked at, or set: with no run beside it there is none until it is set.
LEMMA MarkedReads == ASSUME KeptInv, MarkedInv, NEW r \in Run, MarkerRead(r) PROVE MarkedInv'
<1>1. run \in [Run -> RunRecord] /\ UNCHANGED <<part, marker, crashes, overlapped>> /\ run[r].pc = "marker"
  BY DEF MarkerRead, KeptInv, Typed
<1>2. \A k \in Run \ {r} : run'[k] = run[k]
  BY <1>1 DEF MarkerRead, RunTo
<1>3. run'[r].pc = IF marker # None THEN "done" ELSE IF canList THEN "list" ELSE "mark"
  BY <1>1 DEF MarkerRead, RunTo
<1>4. \A k \in Run : run[k].pc \in Moving => k # r /\ run'[k] = run[k]
  BY <1>1, <1>2 DEF Moving
<1> QED
  BY <1>1, <1>2, <1>3, <1>4 DEF MarkedInv, Moving

LEMMA MarkedMarks == ASSUME KeptInv, MarkedInv, NEW r \in Run, Mark(r) PROVE MarkedInv'
<1>1. /\ run \in [Run -> RunRecord] /\ UNCHANGED <<part, crashes, overlapped>>
      /\ run[r].pc = "mark" /\ run[r].pk \in Pubkey /\ marker' = run[r].pk
  BY DEF Mark, KeptInv, Typed, Going
<1>2. run'[r].pc = "done" /\ \A k \in Run \ {r} : run'[k] = run[k]
  BY <1>1 DEF Mark, RunTo
<1>3. marker' # None
  BY <1>1, MigrationAssumption
<1>4. ~overlapped => \A k \in Run : run[k].pc \in Moving => k = r
  BY <1>1 DEF KeptInv, FindsItsKeys, Going, Moving
<1>5. ~overlapped => marker = None
  BY <1>1 DEF MarkedInv, Moving
<1>6. ASSUME ~overlapped, ~(crashes > 0),
             NEW p \in Pubkey, NEW i \in Item, part[p][i] = "legacy"
      PROVE  p = marker'
  BY <1>1, <1>4, <1>5, <1>6, MigrationAssumption DEF MarkedInv
<1>7. \A k \in Run : run'[k].pc \in Moving => k # r
  BY <1>2 DEF Moving
<1> QED
  BY <1>1, <1>2, <1>3, <1>4, <1>6, <1>7 DEF MarkedInv

\* A run starts or is cut short, a client writes.
LEMMA MarkedOthers ==
  ASSUME KeptInv, Counted, MarkedInv,
         \/ \E r \in Run : Start(r) \/ Crash(r)
         \/ \E p \in Pubkey, i \in Item : ClientWrites(p, i)
  PROVE  MarkedInv'
<1>1. ASSUME NEW r \in Run, Start(r) PROVE MarkedInv'
  <2>1. run \in [Run -> RunRecord] /\ UNCHANGED <<part, marker, crashes>> /\ run[r].pc = "none"
    BY <1>1 DEF Start, KeptInv, Typed
  <2>2. run'[r].pc = "marker" /\ \A k \in Run \ {r} : run'[k] = run[k]
    BY <1>1, <2>1 DEF Start, RunTo, NoRun
  <2>3. overlapped \in BOOLEAN /\ (overlapped => overlapped')
    BY <1>1 DEF Start, KeptInv, Typed
  <2>4. \A k \in Run : (run[k].pc \in Moving => k # r /\ run'[k] = run[k]) /\ (run'[k].pc \in Moving => k # r)
    BY <2>1, <2>2 DEF Moving
  <2> QED
    BY <2>1, <2>2, <2>3, <2>4 DEF MarkedInv
<1>2. ASSUME NEW r \in Run, Crash(r) PROVE MarkedInv'
  <2>1. run \in [Run -> RunRecord] /\ UNCHANGED <<part, marker, overlapped>> /\ crashes' > 0
    BY <1>2, MigrationAssumption DEF Crash, KeptInv, Typed, Counted
  <2>2. run'[r].pc = "dead" /\ \A k \in Run \ {r} : run'[k] = run[k]
    BY <1>2, <2>1 DEF Crash, RunTo, NoRun
  <2>3. \A k \in Run : run'[k].pc \in Moving => k # r
    BY <2>2 DEF Moving
  <2> QED
    BY <2>1, <2>2, <2>3 DEF MarkedInv
<1>3. ASSUME NEW p \in Pubkey, NEW i \in Item, ClientWrites(p, i) PROVE MarkedInv'
  <2>1. /\ part' = [part EXCEPT ![p][i] = "newer"] /\ UNCHANGED <<marker, run, crashes, overlapped>>
        /\ marker # None
    BY <1>3 DEF ClientWrites, MarkedInv
  <2>2. \A q \in Pubkey, j \in Item : part'[q][j] = "legacy" => part[q][j] = "legacy"
    BY <2>1 DEF KeptInv, Typed
  <2> QED
    BY <2>1, <2>2 DEF MarkedInv
<1> QED
  BY <1>1, <1>2, <1>3

LEMMA MarkedStep == KeptInv /\ Counted /\ MarkedInv /\ [Next]_vars => MarkedInv'
<1> SUFFICES ASSUME KeptInv, Counted, MarkedInv, [Next]_vars PROVE MarkedInv'
  OBVIOUS
<1>1. CASE UNCHANGED vars
  BY <1>1 DEF vars, MarkedInv
<1>2. CASE Next
  BY <1>2, MarkedMoves, MarkedReads, MarkedMarks, MarkedOthers DEF Next
<1> QED
  BY <1>1, <1>2

LEMMA InvHolds == Spec => [](KeptInv /\ Counted /\ MarkedInv)
<1>1. Init => Counted
  BY MigrationAssumption DEF Init, Counted
<1> QED
  BY <1>1, KeptInit, KeptStep, CountedStep, MarkedInit, MarkedStep, PTL DEF Spec

\* The legacy data go to the partition of one user, for any number of users, calls and
\* databases, as long as no call is cut short or beside another.
THEOREM OneInherits == Spec => []OnePartition
<1>1. ASSUME KeptInv, MarkedInv PROVE OnePartition
  <2> SUFFICES ASSUME ~overlapped, ~(crashes > 0),
                      NEW p \in Pubkey, NEW q \in Pubkey, NEW i \in Item, NEW j \in Item,
                      part[p][i] = "legacy", part[q][j] = "legacy"
               PROVE  p = q
    BY DEF OnePartition
  <2>1. /\ p = marker \/ \E r \in Run : run[r].pc \in Moving /\ run[r].pk = p
        /\ q = marker \/ \E r \in Run : run[r].pc \in Moving /\ run[r].pk = q
    BY <1>1 DEF MarkedInv
  <2>2. \A r \in Run : run[r].pc \in Moving => marker = None
    BY <1>1 DEF MarkedInv
  <2>3. \A r, k \in Run : run[r].pc \in Moving /\ run[k].pc \in Moving => k = r
    BY <1>1 DEF KeptInv, FindsItsKeys, Going, Moving
  <2> QED
    BY <2>1, <2>2, <2>3, MigrationAssumption
<1> QED
  BY <1>1, InvHolds, PTL

\* No call sets back what a client has written, unless calls have overlapped: a call
\* that stores is past its look for a marker, and a client writes only once there is one.
THEOREM KeepsTheNewer == Spec => NeverSetBack
<1>1. ASSUME KeptInv, MarkedInv, [Next]_vars
      PROVE  [\A p \in Pubkey, i \in Item :
                part[p][i] = "newer" => part'[p][i] = "newer" \/ overlapped]_vars
  <2> SUFFICES ASSUME NEW p \in Pubkey, NEW i \in Item, part[p][i] = "newer", ~overlapped
               PROVE  part'[p][i] = "newer"
    OBVIOUS
  <2>1. marker # None
    BY <1>1 DEF MarkedInv
  <2>2. \A r \in Run : run[r].pc \notin Moving
    BY <1>1, <2>1 DEF MarkedInv
  <2>3. CASE UNCHANGED part
    BY <2>3
  <2>4. ASSUME NEW r \in Run, Copy(r) \/ SetTask(r) PROVE FALSE
    BY <2>2, <2>4 DEF Copy, SetTask, Moving
  <2>5. ASSUME NEW q \in Pubkey, NEW j \in Item, ClientWrites(q, j) PROVE part'[p][i] = "newer"
    BY <1>1, <2>5 DEF ClientWrites, KeptInv, Typed
  <2>6. ASSUME NEW r \in Run,
               \/ Start(r) \/ MarkerRead(r) \/ List(r) \/ Read(r) \/ Delete(r)
               \/ ListTasks(r) \/ GetTask(r) \/ DelTask(r) \/ TasksDone(r) \/ Mark(r) \/ Crash(r)
        PROVE  UNCHANGED part
    BY <2>6, Zenon DEF Start, MarkerRead, List, Read, Delete, ListTasks, GetTask, DelTask, TasksDone, Mark, Crash
  <2> QED
    BY <1>1, <2>3, <2>4, <2>5, <2>6 DEF Next, vars
<1> QED
  BY <1>1, InvHolds, PTL DEF Spec, NeverSetBack

=============================================================================
