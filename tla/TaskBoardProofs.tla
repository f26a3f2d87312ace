--------------------------- MODULE TaskBoardProofs ---------------------------
(***************************************************************************)
(* What the tie-break and the projector of TaskBoard guarantee for every   *)
(* task, edit, clock and device; that a seeded device shows what a rebuild *)
(* from its accepted log would show; that settled devices agree on a task  *)
(* whose published mutations are all of one field; and that they show all  *)
(* the edits of a device that edits alone.                                 *)
(***************************************************************************)
EXTENDS TaskBoard, SequenceTheorems, FiniteSetTheorems, TLAPS

\* The fields of a task that a mutation can replace.
FieldKind == Kind \ {"task.deleted"}

\* Mutations in the accepted log.
MutationEvent == [id : Nat, kind : Kind, key : Key]

LEMMA NoTaskIsNone == NoTask \notin Task
BY NoneAssumption

LEMMA MutationIsNoCreate ==
  ASSUME NEW e \in MutationEvent
  PROVE  e.kind # "task.created" /\ e.kind \in Kind /\ e.key \in Key /\ e.id \in Nat
BY DEF MutationEvent, Kind

\* task-crdt.ts (ADR-001): taskWinsOver never prefers a write to itself, and of
\* three writes the preferences cannot go round in a circle.
THEOREM TieBreakIsAcyclic ==
  ASSUME NEW k \in Key, NEW l \in Key, NEW m \in Key
  PROVE  ~WinsOver(k, k) /\ (WinsOver(k, l) /\ WinsOver(l, m) => WinsOver(k, m))
BY DEF Key, WinsOver

\* task-crdt.ts: of two writes that differ in time, author or device, exactly one
\* wins, so the level "missing device" is the only place for a full tie.
THEOREM TieBreakDecides ==
  ASSUME NEW k \in Key, NEW l \in Key, k # l
  PROVE  (WinsOver(k, l) \/ WinsOver(l, k)) /\ ~(WinsOver(k, l) /\ WinsOver(l, k))
<1>1. k.at # l.at \/ k.by # l.by \/ k.dev # l.dev BY DEF Key
<1> QED BY <1>1 DEF Key, WinsOver

\* What a mutation of a task that is there does.
LEMMA ApplyMutation ==
  ASSUME NEW x \in Task, NEW e \in MutationEvent
  PROVE  ApplyEvent(x, e) =
           IF ~WinsOver(e.key, x.key) THEN x
           ELSE IF e.kind = "task.deleted" THEN NoTask
           ELSE [wrote |-> [x.wrote EXCEPT ![e.kind] = e.id], key |-> e.key]
BY NoTaskIsNone, MutationIsNoCreate DEF ApplyEvent

LEMMA ApplyKeepsType ==
  ASSUME NEW x \in Task, NEW e \in MutationEvent, e.kind # "task.deleted"
  PROVE  ApplyEvent(x, e) \in Task
<1>1. e.kind \in FieldKind BY MutationIsNoCreate DEF FieldKind
<1>2. x.wrote \in [FieldKind -> Nat] /\ x.key \in Key BY DEF Task, FieldKind
<1>3. [x.wrote EXCEPT ![e.kind] = e.id] \in [FieldKind -> Nat]
  BY <1>1, <1>2, MutationIsNoCreate
<1>4. [wrote |-> [x.wrote EXCEPT ![e.kind] = e.id], key |-> e.key] \in Task
  BY <1>3, MutationIsNoCreate DEF Task, FieldKind
<1> QED BY <1>4, ApplyMutation

\* task-projector.ts:92-98, AC-INV-2: a mutation folded a second time, by a
\* duplicate delivery or by a rebuild that had read it already, changes nothing.
THEOREM MutationIsIdempotent ==
  ASSUME NEW x \in Task \union {NoTask}, NEW e \in MutationEvent
  PROVE  ApplyEvent(ApplyEvent(x, e), e) = ApplyEvent(x, e)
<1>0. ApplyEvent(NoTask, e) = NoTask BY MutationIsNoCreate DEF ApplyEvent
<1>1. CASE x = NoTask BY <1>0, <1>1
<1>2. CASE x \in Task /\ ~WinsOver(e.key, x.key) BY <1>2, ApplyMutation
<1>3. CASE x \in Task /\ WinsOver(e.key, x.key) /\ e.kind = "task.deleted"
  BY <1>0, <1>3, ApplyMutation
<1>4. CASE x \in Task /\ WinsOver(e.key, x.key) /\ e.kind # "task.deleted"
  <2> DEFINE y == ApplyEvent(x, e)
  <2>1. y \in Task BY <1>4, ApplyKeepsType
  <2>2. y.key = e.key BY <1>4, ApplyMutation
  <2>3. ~WinsOver(e.key, y.key) BY <2>2, MutationIsNoCreate, TieBreakIsAcyclic
  <2> QED BY <2>1, <2>3, ApplyMutation
<1> QED BY <1>1, <1>2, <1>3, <1>4

\* property-based-invariants C1, per step: two concurrent mutations of one kind
\* that replaces a field, told apart by the tie-break, end in the same task in
\* whichever order a device applies them.
THEOREM AtomicEditsCommute ==
  ASSUME NEW x \in Task, NEW e \in MutationEvent, NEW f \in MutationEvent,
         e.kind = f.kind, e.kind # "task.deleted", e.key # f.key
  PROVE  ApplyEvent(ApplyEvent(x, e), f) = ApplyEvent(ApplyEvent(x, f), e)
<1> DEFINE xe == ApplyEvent(x, e)
           xf == ApplyEvent(x, f)
           Written(g) == [wrote |-> [x.wrote EXCEPT ![g.kind] = g.id], key |-> g.key]
<1>1. xe \in Task /\ xf \in Task BY ApplyKeepsType
<1>2. x.key \in Key /\ e.key \in Key /\ f.key \in Key BY MutationIsNoCreate DEF Task
<1>3. x.wrote \in [FieldKind -> Nat] /\ e.kind \in FieldKind
  BY MutationIsNoCreate DEF Task, FieldKind
<1>4. WinsOver(e.key, f.key) \/ WinsOver(f.key, e.key) BY <1>2, TieBreakDecides
<1>5. ~(WinsOver(e.key, f.key) /\ WinsOver(f.key, e.key)) BY <1>2, TieBreakDecides
<1>6. (WinsOver(e.key, x.key) => xe = Written(e)) /\ (~WinsOver(e.key, x.key) => xe = x)
  BY ApplyMutation
<1>7. (WinsOver(f.key, x.key) => xf = Written(f)) /\ (~WinsOver(f.key, x.key) => xf = x)
  BY ApplyMutation
<1>8. ASSUME WinsOver(e.key, x.key), WinsOver(f.key, e.key)
      PROVE  ApplyEvent(xe, f) = Written(f) /\ ApplyEvent(xf, e) = Written(f)
  <2>1. WinsOver(f.key, x.key) BY <1>2, <1>8, TieBreakIsAcyclic
  <2>2. xe = Written(e) /\ xf = Written(f) BY <1>6, <1>7, <1>8, <2>1
  <2>3. ApplyEvent(xf, e) = xf BY <1>1, <1>5, <1>8, <2>2, ApplyMutation
  <2>4. ApplyEvent(xe, f) = [wrote |-> [xe.wrote EXCEPT ![f.kind] = f.id], key |-> f.key]
    BY <1>1, <1>8, <2>2, ApplyMutation
  <2>5. [xe.wrote EXCEPT ![f.kind] = f.id] = [x.wrote EXCEPT ![f.kind] = f.id]
    BY <1>3, <2>2
  <2> QED BY <2>2, <2>3, <2>4, <2>5
<1>9. ASSUME WinsOver(f.key, x.key), WinsOver(e.key, f.key)
      PROVE  ApplyEvent(xf, e) = Written(e) /\ ApplyEvent(xe, f) = Written(e)
  <2>1. WinsOver(e.key, x.key) BY <1>2, <1>9, TieBreakIsAcyclic
  <2>2. xe = Written(e) /\ xf = Written(f) BY <1>6, <1>7, <1>9, <2>1
  <2>3. ApplyEvent(xe, f) = xe BY <1>1, <1>5, <1>9, <2>2, ApplyMutation
  <2>4. ApplyEvent(xf, e) = [wrote |-> [xf.wrote EXCEPT ![e.kind] = e.id], key |-> e.key]
    BY <1>1, <1>9, <2>2, ApplyMutation
  <2>5. [xf.wrote EXCEPT ![e.kind] = e.id] = [x.wrote EXCEPT ![e.kind] = e.id]
    BY <1>3, <2>2
  <2> QED BY <2>2, <2>3, <2>4, <2>5
<1>10. CASE ~WinsOver(e.key, x.key)
  <2>1. CASE ~WinsOver(f.key, x.key) BY <1>6, <1>7, <1>10, <2>1
  <2>2. CASE WinsOver(f.key, x.key)
    <3>1. ~WinsOver(e.key, f.key) BY <1>2, <1>10, <2>2, TieBreakIsAcyclic
    <3>2. xf = Written(f) /\ xf.key = f.key BY <1>7, <2>2
    <3>3. ApplyEvent(xf, e) = xf BY <1>1, <3>1, <3>2, ApplyMutation
    <3> QED BY <1>6, <1>10, <3>3
  <2> QED BY <2>1, <2>2
<1>11. CASE WinsOver(e.key, x.key) /\ ~WinsOver(f.key, x.key)
  <2>1. ~WinsOver(f.key, e.key) BY <1>2, <1>11, TieBreakIsAcyclic
  <2>2. xe = Written(e) /\ xe.key = e.key BY <1>6, <1>11
  <2>3. ApplyEvent(xe, f) = xe BY <1>1, <2>1, <2>2, ApplyMutation
  <2> QED BY <1>7, <1>11, <2>3
<1> QED BY <1>4, <1>8, <1>9, <1>10, <1>11

\* task-store-utils.ts:3-26: whatever the wall clock says, an edit stamped over a
\* task as projected changes it.
THEOREM StampedEditTakesEffect ==
  ASSUME NEW x \in Task, NEW d \in Device, NEW now \in Nat, NEW id \in Nat,
         NEW m \in Kind
  PROVE  LET e == [id |-> id, kind |-> m, key |-> KeyAt(d, EnsureMonotonic(now, x))]
         IN  ApplyEvent(x, e) # x
<1> DEFINE k == KeyAt(d, EnsureMonotonic(now, x))
           e == [id |-> id, kind |-> m, key |-> k]
<1>1. x.key \in Key /\ x.key.at \in Nat BY DEF Task, Key
<1>2. EnsureMonotonic(now, x) \in Nat /\ EnsureMonotonic(now, x) > x.key.at
  BY <1>1 DEF EnsureMonotonic
<1>3. k \in Key /\ k.at > x.key.at BY <1>2, BoardAssumption DEF KeyAt, Key
<1>4. e \in MutationEvent BY <1>3 DEF MutationEvent
<1>5. WinsOver(k, x.key) BY <1>1, <1>3 DEF WinsOver, Key
<1>6. k # x.key BY <1>1, <1>3 DEF Key
<1>7. CASE m = "task.deleted" BY <1>4, <1>5, <1>7, NoTaskIsNone, ApplyMutation
<1>8. CASE m # "task.deleted"
  <2>1. ApplyEvent(x, e) = [wrote |-> [x.wrote EXCEPT ![m] = id], key |-> k]
    BY <1>4, <1>5, <1>8, ApplyMutation
  <2> QED BY <1>6, <2>1
<1> QED BY <1>7, <1>8

----------------------------------------------------------------------------
(* The folds of the projector.  FoldLeft is a recursive function on the sets *)
(* of positions: it has a value, that value is unique, and it is built one   *)
(* event at a time.                                                          *)

\* What the board can show of the task.
Shown == Task \union {NoTask}

\* One turn of the loop of a fold.
Turn(seen, y, e) == IF e.id \in seen THEN y ELSE ApplyEvent(y, e)

LEMMA ApplyTyped ==
  ASSUME NEW x \in Shown, NEW e \in Event
  PROVE  ApplyEvent(x, e) \in Shown
<1>1. CASE e.kind = "task.created"
  <2>1. e \notin MutationEvent
    BY <1>1, MutationIsNoCreate
  <2>2. e.task \in Task
    BY <2>1 DEF Event, MutationEvent
  <2> QED
    BY <1>1, <2>2 DEF ApplyEvent, Shown
<1>2. CASE e.kind # "task.created"
  <2>1. e \in MutationEvent
    BY <1>2 DEF Event, MutationEvent
  <2>2. CASE x = NoTask
    BY <1>2, <2>2 DEF ApplyEvent
  <2>3. CASE x # NoTask /\ e.kind = "task.deleted"
    BY <1>2, <2>3 DEF ApplyEvent, Shown
  <2>4. CASE x # NoTask /\ e.kind # "task.deleted"
    BY <2>1, <2>4, ApplyKeepsType DEF Shown
  <2> QED
    BY <2>2, <2>3, <2>4
<1> QED
  BY <1>1, <1>2

LEMMA TurnTyped ==
  ASSUME NEW seen, NEW y \in Shown, NEW e \in Event
  PROVE  Turn(seen, y, e) \in Shown
BY ApplyTyped DEF Turn

\* Every set of naturals has a least element.
LEMMA LeastNumber ==
  ASSUME NEW S \in SUBSET Nat, S # {}
  PROVE  \E n \in S : \A k \in S : n <= k
<1>1. PICK top \in S : TRUE
  OBVIOUS
<1> DEFINE R == StrictSubsetOrdering(0 .. top)
           T == {0 .. n : n \in {m \in S : m <= top}}
<1>2. top \in Nat /\ IsFiniteSet(0 .. top)
  BY FS_Interval
<1>3. IsWellFoundedOn(R, SUBSET (0 .. top))
  BY <1>2, FS_StrictSubsetOrderingWellFounded, FS_FiniteSubsetsOfFinite
<1>4. T \subseteq SUBSET (0 .. top) /\ T # {}
  <2>1. \A n \in S : n <= top => 0 .. n \subseteq 0 .. top
    BY <1>2
  <2>2. 0 .. top \in T
    BY <1>2
  <2> QED
    BY <2>1, <2>2
<1>5. PICK x \in T : \A y \in T : <<y, x>> \notin R
  BY <1>3, <1>4, WFMin
<1>6. PICK n \in S : n <= top /\ x = 0 .. n
  OBVIOUS
<1>7. ASSUME NEW k \in S PROVE n <= k
  <2> SUFFICES ASSUME k < n PROVE FALSE
    BY <1>6
  <2>1. k \in Nat /\ n \in Nat
    OBVIOUS
  <2>2. 0 .. k \in T
    BY <1>2, <1>6, <2>1
  <2>3. 0 .. k \subseteq 0 .. n /\ 0 .. k # 0 .. n
    BY <2>1
  <2>4. <<0 .. k, 0 .. n>> \in R
    BY <1>2, <1>6, <2>1, <2>3 DEF StrictSubsetOrdering
  <2> QED
    BY <1>5, <1>6, <2>2, <2>4
<1> QED
  BY <1>7

\* The last position of a set of positions.
LEMMA LastPosition ==
  ASSUME NEW n \in Nat, NEW q \in SUBSET (1 .. n), q # {}
  PROVE  Max(q) \in q /\ \A k \in q : k <= Max(q)
<1> DEFINE B == {m \in Nat : \A k \in q : k <= m}
<1>1. n \in B
  OBVIOUS
<1>2. PICK m \in B : \A k \in B : m <= k
  BY <1>1, LeastNumber
<1>3. m \in q
  <2> SUFFICES ASSUME m \notin q PROVE FALSE
    OBVIOUS
  <2>1. \A k \in q : k < m /\ k >= 1
    BY <1>2
  <2>2. m >= 1 /\ m - 1 \in Nat
    <3>1. PICK k \in q : TRUE
      OBVIOUS
    <3>2. k \in Nat /\ k < m /\ k >= 1 /\ m \in Nat
      BY <2>1
    <3> QED
      BY ONLY <3>2
  <2>3. m - 1 \in B
    BY <2>1, <2>2
  <2> QED
    BY <1>2, <2>2, <2>3
<1>4. m \in q /\ \A k \in q : m >= k
  BY <1>2, <1>3
<1> QED
  BY <1>4 DEF Max

\* The function that FoldLeft defines, on the first n positions of s.
IsFold(f, n, seen, x, s) ==
  f = [q \in SUBSET (1 .. n) |->
         IF q = {} THEN x ELSE Turn(seen, f[q \ {Max(q)}], s[Max(q)])]

LEMMA FoldValue ==
  ASSUME NEW f, NEW n \in Nat, NEW seen, NEW x, NEW s, IsFold(f, n, seen, x, s)
  PROVE  /\ f[{}] = x
         /\ \A q \in SUBSET (1 .. n) :
              q # {} => f[q] = Turn(seen, f[q \ {Max(q)}], s[Max(q)])
<1>1. {} \in SUBSET (1 .. n)
  OBVIOUS
<1> QED
  BY <1>1 DEF IsFold

LEMMA FoldUnique ==
  ASSUME NEW f, NEW g, NEW n \in Nat, NEW seen, NEW x, NEW s,
         IsFold(f, n, seen, x, s), IsFold(g, n, seen, x, s)
  PROVE  \A q \in SUBSET (1 .. n) : f[q] = g[q]
<1>a. /\ f[{}] = x /\ g[{}] = x
      /\ \A q \in SUBSET (1 .. n) : q # {} =>
           /\ f[q] = Turn(seen, f[q \ {Max(q)}], s[Max(q)])
           /\ g[q] = Turn(seen, g[q \ {Max(q)}], s[Max(q)])
  BY FoldValue
<1> DEFINE K == {k \in 0 .. n : \E q \in SUBSET (1 .. k) : f[q] # g[q]}
<1> SUFFICES ASSUME K # {} PROVE FALSE
  OBVIOUS
<1>1. PICK k \in K : \A m \in K : k <= m
  <2>1. K \in SUBSET Nat
    OBVIOUS
  <2> QED
    BY <2>1, LeastNumber
<1>2. PICK q \in SUBSET (1 .. k) : f[q] # g[q]
  OBVIOUS
<1>3. q \in SUBSET (1 .. n) /\ k \in Nat /\ k <= n
  OBVIOUS
<1>4. q # {}
  BY <1>2, <1>a
<1> DEFINE top == Max(q)
<1>5. top \in q /\ \A m \in q : m <= top
  BY <1>3, <1>4, LastPosition
<1> HIDE DEF top
<1>6. top - 1 \in 0 .. n /\ top - 1 < k /\ q \ {top} \in SUBSET (1 .. top - 1)
  BY <1>3, <1>5
<1>7. f[q \ {top}] = g[q \ {top}]
  <2>1. top - 1 \notin K
    BY <1>1, <1>3, <1>6
  <2> QED
    BY <1>6, <2>1
<1>8. f[q] = Turn(seen, f[q \ {top}], s[top]) /\ g[q] = Turn(seen, g[q \ {top}], s[top])
  BY <1>3, <1>4, <1>a DEF top
<1> QED
  BY <1>2, <1>7, <1>8

HasFold(n, seen, x, s) == \E f \in [SUBSET (1 .. n) -> Shown] : IsFold(f, n, seen, x, s)

LEMMA FoldExists ==
  ASSUME NEW n \in Nat, NEW seen, NEW x \in Shown, NEW s \in Seq(Event), n <= Len(s)
  PROVE  HasFold(n, seen, x, s)
<1> DEFINE K == {m \in 0 .. n : ~HasFold(m, seen, x, s)}
<1> SUFFICES ASSUME K # {} PROVE FALSE
  OBVIOUS
<1>1. PICK k \in K : \A m \in K : k <= m
  <2>1. K \in SUBSET Nat
    OBVIOUS
  <2> QED
    BY <2>1, LeastNumber
<1>2. k \in Nat /\ k <= n /\ ~HasFold(k, seen, x, s)
  OBVIOUS
<1>3. k # 0
  <2>1. ASSUME k = 0 PROVE FALSE
    <3> DEFINE f == [q \in SUBSET (1 .. 0) |-> x]
    <3>1. \A q \in SUBSET (1 .. 0) : q = {}
      OBVIOUS
    <3>2. IsFold(f, 0, seen, x, s)
      BY <3>1 DEF IsFold
    <3>3. f \in [SUBSET (1 .. 0) -> Shown]
      OBVIOUS
    <3> HIDE DEF f
    <3>4. HasFold(0, seen, x, s)
      BY <3>2, <3>3 DEF HasFold
    <3> QED
      BY <1>2, <2>1, <3>4
  <2> QED
    BY <2>1
<1>4. PICK g \in [SUBSET (1 .. k - 1) -> Shown] : IsFold(g, k - 1, seen, x, s)
  <2>1. k - 1 \in 0 .. n /\ ~(k <= k - 1)
    BY <1>2, <1>3
  <2>2. k - 1 \notin K
    BY <1>1, <2>1
  <2> QED
    BY <2>1, <2>2 DEF HasFold
<1>b. /\ g[{}] = x
      /\ \A q \in SUBSET (1 .. k - 1) :
           q # {} => g[q] = Turn(seen, g[q \ {Max(q)}], s[Max(q)])
  <2> DEFINE j == k - 1
  <2>1. j \in Nat /\ IsFold(g, j, seen, x, s)
    BY <1>2, <1>3, <1>4
  <2> HIDE DEF j
  <2>2. /\ g[{}] = x
        /\ \A q \in SUBSET (1 .. j) :
             q # {} => g[q] = Turn(seen, g[q \ {Max(q)}], s[Max(q)])
    <3>1. {} \in SUBSET (1 .. j)
      OBVIOUS
    <3> QED
      BY ONLY <2>1, <3>1 DEF IsFold
  <2> QED
    BY <2>2 DEF j
<1> HIDE DEF K
<1> DEFINE f == [q \in SUBSET (1 .. k) |->
                   IF k \in q THEN Turn(seen, g[q \ {k}], s[k]) ELSE g[q]]
<1>5. \A q \in SUBSET (1 .. k) : q \ {k} \in SUBSET (1 .. k - 1)
  BY <1>2
<1>6. s[k] \in Event
  BY <1>2, <1>3
<1>7. ASSUME NEW q \in SUBSET (1 .. k)
      PROVE  /\ f[q] \in Shown
             /\ f[q] = IF q = {} THEN x ELSE Turn(seen, f[q \ {Max(q)}], s[Max(q)])
  <2>1. q \ {k} \in SUBSET (1 .. k - 1)
    BY <1>5
  <2>2. CASE k \in q
    <3>1. Max(q) \in q /\ \A m \in q : m <= Max(q)
      BY <1>2, <2>2, LastPosition
    <3>2. Max(q) = k
      <4>1. Max(q) \in 1 .. k /\ k <= Max(q)
        BY <2>2, <3>1
      <4> QED
        BY ONLY <1>2, <4>1
    <3>3. f[q] = Turn(seen, g[q \ {k}], s[k])
      BY <2>2
    <3>4. f[q \ {k}] = g[q \ {k}]
      OBVIOUS
    <3>5. f[q] \in Shown
      BY <1>6, <2>1, <3>3, TurnTyped
    <3> HIDE DEF f
    <3> QED
      BY <2>2, <3>2, <3>3, <3>4, <3>5
  <2>3. CASE k \notin q
    <3>1. q \in SUBSET (1 .. k - 1) /\ q \ {k} = q
      BY <2>1, <2>3
    <3>2. f[q] = g[q] /\ f[q] \in Shown
      BY <2>3, <3>1
    <3>3. CASE q = {}
      <4> HIDE DEF f
      <4> QED
        BY <1>b, <3>2, <3>3
    <3>4. CASE q # {}
      <4>2. g[q] = Turn(seen, g[q \ {Max(q)}], s[Max(q)])
        BY <1>b, <3>1, <3>4
      <4>3. q \ {Max(q)} \in SUBSET (1 .. k) /\ k \notin q \ {Max(q)}
        BY <2>3
      <4>4. f[q \ {Max(q)}] = g[q \ {Max(q)}]
        BY <4>3
      <4> HIDE DEF f
      <4> QED
        BY <3>2, <3>4, <4>2, <4>4
    <3> QED
      BY <3>3, <3>4
  <2> QED
    BY <2>2, <2>3
<1>8. f \in [SUBSET (1 .. k) -> Shown]
  <2>1. f = [q \in SUBSET (1 .. k) |-> f[q]]
    OBVIOUS
  <2> HIDE DEF f
  <2> QED
    BY <1>7, <2>1
<1>9. IsFold(f, k, seen, x, s)
  <2> HIDE DEF f
  <2> QED
    BY <1>7, <1>8 DEF IsFold
<1> HIDE DEF f
<1> QED
  BY <1>2, <1>8, <1>9 DEF HasFold

\* The fold of a list is the value of any such function at all its positions.
LEMMA FoldedIs ==
  ASSUME NEW seen, NEW x \in Shown, NEW s \in Seq(Event),
         NEW f, IsFold(f, Len(s), seen, x, s)
  PROVE  Folded(seen, x, s) = f[1 .. Len(s)]
<1> DEFINE g == CHOOSE h : IsFold(h, Len(s), seen, x, s)
<1>1. IsFold(g, Len(s), seen, x, s)
  OBVIOUS
<1>2. DOMAIN s = 1 .. Len(s)
  OBVIOUS
<1>3. Folded(seen, x, s) = g[1 .. Len(s)]
  BY <1>2 DEF Folded, FoldLeft, MapThenFoldSet, IsFold, Turn
<1> HIDE DEF g
<1>4. \A q \in SUBSET (1 .. Len(s)) : f[q] = g[q]
  <2> DEFINE n == Len(s)
  <2>1. n \in Nat /\ IsFold(f, n, seen, x, s) /\ IsFold(g, n, seen, x, s)
    BY <1>1
  <2> HIDE DEF n
  <2>2. \A q \in SUBSET (1 .. n) : f[q] = g[q]
    BY ONLY <2>1, FoldUnique
  <2> QED
    BY <2>2 DEF n
<1> QED
  BY <1>3, <1>4

LEMMA FoldOfNone ==
  ASSUME NEW seen, NEW x \in Shown
  PROVE  Folded(seen, x, <<>>) = x
<1> DEFINE s == <<>>
<1>1. s \in Seq(Event) /\ Len(s) = 0 /\ 1 .. 0 = {}
  OBVIOUS
<1> HIDE DEF s
<1>2. HasFold(0, seen, x, s)
  <2>1. 0 \in Nat /\ 0 <= Len(s)
    BY <1>1
  <2> QED
    BY ONLY <1>1, <2>1, x \in Shown, FoldExists
<1>3. PICK f \in [SUBSET (1 .. 0) -> Shown] : IsFold(f, 0, seen, x, s)
  BY <1>2 DEF HasFold
<1>4. Folded(seen, x, s) = f[{}]
  <2>1. IsFold(f, Len(s), seen, x, s)
    <3>1. IsFold(f, 0, seen, x, s)
      BY ONLY <1>3
    <3>2. Len(s) = 0
      BY ONLY <1>1
    <3> QED
      BY ONLY <3>1, <3>2
  <2>2. Folded(seen, x, s) = f[1 .. Len(s)]
    <3>1. s \in Seq(Event)
      BY ONLY <1>1
    <3> QED
      BY ONLY <2>1, <3>1, x \in Shown, FoldedIs
  <2> QED
    BY ONLY <1>1, <2>2
<1>5. f[{}] = x
  BY ONLY <1>3, 0 \in Nat, FoldValue
<1> QED
  BY <1>4, <1>5 DEF s

LEMMA FoldTyped ==
  ASSUME NEW seen, NEW x \in Shown, NEW s \in Seq(Event)
  PROVE  Folded(seen, x, s) \in Shown
<1>1. HasFold(Len(s), seen, x, s)
  <2>1. Len(s) \in Nat /\ Len(s) <= Len(s)
    OBVIOUS
  <2> QED
    BY <2>1, FoldExists
<1>2. PICK f \in [SUBSET (1 .. Len(s)) -> Shown] : IsFold(f, Len(s), seen, x, s)
  BY <1>1 DEF HasFold
<1>3. Folded(seen, x, s) = f[1 .. Len(s)]
  BY <1>2, FoldedIs
<1> QED
  BY <1>2, <1>3

\* A fold takes the events one by one.
LEMMA FoldOfAppend ==
  ASSUME NEW seen, NEW x \in Shown, NEW s \in Seq(Event), NEW e \in Event
  PROVE  Folded(seen, x, Append(s, e)) = Turn(seen, Folded(seen, x, s), e)
<1> DEFINE n == Len(s)
           t == Append(s, e)
<1>1. n \in Nat /\ t \in Seq(Event) /\ Len(t) = n + 1 /\ t[n + 1] = e
      /\ \A i \in 1 .. n : t[i] = s[i]
  OBVIOUS
<1> HIDE DEF n, t
<1>2. PICK f \in [SUBSET (1 .. n + 1) -> Shown] : IsFold(f, n + 1, seen, x, t)
  <2>1. n + 1 \in Nat /\ n + 1 <= Len(t)
    BY <1>1
  <2>2. HasFold(n + 1, seen, x, t)
    BY <1>1, <2>1, FoldExists
  <2> QED
    BY <2>2 DEF HasFold
<1>a. /\ f[{}] = x
      /\ \A q \in SUBSET (1 .. n + 1) :
           q # {} => f[q] = Turn(seen, f[q \ {Max(q)}], t[Max(q)])
  <2> DEFINE j == n + 1
  <2>1. j \in Nat /\ IsFold(f, j, seen, x, t)
    BY <1>1, <1>2
  <2> HIDE DEF j
  <2>2. /\ f[{}] = x
        /\ \A q \in SUBSET (1 .. j) :
             q # {} => f[q] = Turn(seen, f[q \ {Max(q)}], t[Max(q)])
    <3>1. {} \in SUBSET (1 .. j)
      OBVIOUS
    <3> QED
      BY ONLY <2>1, <3>1 DEF IsFold
  <2> QED
    BY <2>2 DEF j
<1> DEFINE g == [q \in SUBSET (1 .. n) |-> f[q]]
<1>3. IsFold(g, n, seen, x, s)
  <2>1. ASSUME NEW q \in SUBSET (1 .. n)
        PROVE  g[q] = IF q = {} THEN x ELSE Turn(seen, g[q \ {Max(q)}], s[Max(q)])
    <3>1. q \in SUBSET (1 .. n + 1)
      BY <1>1
    <3>2. CASE q = {}
      BY <1>a, <3>2
    <3>3. CASE q # {}
      <4>1. f[q] = Turn(seen, f[q \ {Max(q)}], t[Max(q)])
        BY <1>a, <3>1, <3>3
      <4>2. Max(q) \in 1 .. n
        BY <1>1, <3>3, LastPosition
      <4>3. t[Max(q)] = s[Max(q)]
        BY <1>1, <4>2
      <4>4. g[q \ {Max(q)}] = f[q \ {Max(q)}] /\ g[q] = f[q]
        OBVIOUS
      <4> HIDE DEF g
      <4> QED
        BY <3>3, <4>1, <4>3, <4>4
    <3> QED
      BY <3>2, <3>3
  <2>2. g = [q \in SUBSET (1 .. n) |-> g[q]]
    OBVIOUS
  <2> HIDE DEF g
  <2> QED
    BY <2>1, <2>2 DEF IsFold
<1>4. Folded(seen, x, s) = f[1 .. n]
  <2>1. g[1 .. n] = f[1 .. n]
    OBVIOUS
  <2> HIDE DEF g
  <2> QED
    BY <1>3, <2>1, FoldedIs DEF n
<1>5. Folded(seen, x, t) = f[1 .. n + 1]
  BY <1>1, <1>2, FoldedIs
<1>6. Max(1 .. n + 1) = n + 1 /\ (1 .. n + 1) \ {n + 1} = 1 .. n
  <2>1. n + 1 \in 1 .. n + 1 /\ n + 1 \in Nat
    BY <1>1
  <2>2. Max(1 .. n + 1) \in 1 .. n + 1 /\ \A k \in 1 .. n + 1 : k <= Max(1 .. n + 1)
    BY <2>1, LastPosition
  <2>3. Max(1 .. n + 1) = n + 1
    BY <1>1, <2>1, <2>2
  <2> QED
    BY <1>1, <2>3
<1>7. f[1 .. n + 1] = Turn(seen, f[1 .. n], e)
  <2>1. n + 1 \in 1 .. n + 1
    BY <1>1
  <2> QED
    BY <1>1, <1>6, <1>a, <2>1
<1> QED
  BY <1>4, <1>5, <1>7 DEF t

\* A fold that is to skip all it meets changes nothing.
LEMMA FoldSkips ==
  ASSUME NEW seen, NEW x \in Shown, NEW s \in Seq(Event), Ids(s) \subseteq seen
  PROVE  Folded(seen, x, s) = x
<1> DEFINE n == Len(s)
           f == [q \in SUBSET (1 .. n) |-> x]
<1>1. n \in Nat /\ DOMAIN s = 1 .. n
  OBVIOUS
<1> HIDE DEF n
<1>2. ASSUME NEW q \in SUBSET (1 .. n), q # {}
      PROVE  x = Turn(seen, f[q \ {Max(q)}], s[Max(q)])
  <2>1. Max(q) \in DOMAIN s
    BY <1>1, <1>2, LastPosition
  <2>2. s[Max(q)].id \in seen
    BY <2>1 DEF Ids
  <2>3. f[q \ {Max(q)}] = x
    OBVIOUS
  <2> HIDE DEF f
  <2> QED
    BY <2>2, <2>3 DEF Turn
<1>3. f = [q \in SUBSET (1 .. n) |->
             IF q = {} THEN x ELSE Turn(seen, f[q \ {Max(q)}], s[Max(q)])]
  BY <1>2
<1>4. f[1 .. n] = x
  OBVIOUS
<1> HIDE DEF f
<1>5. IsFold(f, Len(s), seen, x, s)
  BY <1>3 DEF IsFold, n
<1> QED
  BY <1>4, <1>5, FoldedIs DEF n

LEMMA EventTyped ==
  ASSUME NEW e \in Event
  PROVE  e.id \in Nat /\ e # NoEvent
BY NoneAssumption DEF Event

LEMMA ReplayedTyped ==
  ASSUME NEW s \in Seq(Event)
  PROVE  Replayed(s) \in Shown
<1>1. NoTask \in Shown
  BY DEF Shown
<1> QED
  BY <1>1, FoldTyped DEF Replayed

LEMMA ReplayedOfNone == Replayed(<<>>) = NoTask
<1>1. NoTask \in Shown
  BY DEF Shown
<1> QED
  BY <1>1, FoldOfNone DEF Replayed

\* replayOrder keeps an event that is appended last at the end, unless it is a
\* bootstrap behind others.
LEMMA ReplayedOfAppend ==
  ASSUME NEW s \in Seq(Event), NEW e \in Event, e.id # BootstrapId \/ s = <<>>
  PROVE  Replayed(Append(s, e)) = ApplyEvent(Replayed(s), e)
<1> DEFINE t == Append(s, e)
           Early(l) == Folded(Nat \ {BootstrapId}, NoTask, l)
<1>1. NoTask \in Shown /\ t \in Seq(Event)
  BY DEF Shown
<1>2. Early(s) \in Shown /\ Early(t) \in Shown
  BY <1>1, FoldTyped
<1>3. Early(t) = Turn(Nat \ {BootstrapId}, Early(s), e)
  BY <1>1, FoldOfAppend
<1>4. Replayed(s) = Folded({BootstrapId}, Early(s), s)
      /\ Replayed(t) = Turn({BootstrapId}, Folded({BootstrapId}, Early(t), s), e)
  BY <1>2, FoldOfAppend DEF Replayed
<1> HIDE DEF t, Early
<1>5. CASE e.id # BootstrapId
  <2>1. Early(t) = Early(s)
    BY <1>3, <1>5, EventTyped DEF Turn
  <2>2. Replayed(t) = Turn({BootstrapId}, Replayed(s), e)
    BY <1>4, <2>1
  <2> QED
    BY <1>5, <2>2 DEF Turn, t
<1>6. CASE e.id = BootstrapId /\ s = <<>>
  <2>1. Early(s) = NoTask
    BY <1>1, <1>6, FoldOfNone DEF Early
  <2>2. Early(t) = ApplyEvent(NoTask, e)
    BY <1>3, <1>6, <2>1 DEF Turn
  <2>3. Folded({BootstrapId}, Early(t), s) = Early(t) /\ Replayed(s) = NoTask
    BY <1>2, <1>6, FoldOfNone, ReplayedOfNone
  <2> QED
    BY <1>4, <1>6, <2>2, <2>3 DEF Turn, t
<1> QED
  BY <1>5, <1>6

\* Any event folded a second time changes nothing.
LEMMA AgainChangesNothing ==
  ASSUME NEW x \in Shown, NEW e \in Event
  PROVE  ApplyEvent(ApplyEvent(x, e), e) = ApplyEvent(x, e)
<1>1. CASE e \in MutationEvent
  BY <1>1, MutationIsIdempotent DEF Shown
<1>2. CASE e \notin MutationEvent
  <2>1. e.kind = "task.created" /\ e.task \in Task
    BY <1>2 DEF Event, MutationEvent
  <2> QED
    BY <2>1, NoTaskIsNone DEF ApplyEvent
<1> QED
  BY <1>1, <1>2

----------------------------------------------------------------------------
(* Lists of events and their ids. *)

LEMMA IdsOfNone == Ids(<<>>) = {}
BY DEF Ids

LEMMA IdsOfAppend ==
  ASSUME NEW s \in Seq(Event), NEW e \in Event
  PROVE  Ids(Append(s, e)) = Ids(s) \union {e.id}
<1> DEFINE t == Append(s, e)
<1>1. Len(s) \in Nat /\ DOMAIN s = 1 .. Len(s) /\ DOMAIN t = 1 .. Len(s) + 1
      /\ t[Len(s) + 1] = e /\ \A i \in 1 .. Len(s) : t[i] = s[i]
  OBVIOUS
<1> HIDE DEF t
<1>2. DOMAIN t = DOMAIN s \union {Len(s) + 1}
  BY <1>1
<1>3. Ids(t) = {t[i].id : i \in DOMAIN s} \union {e.id}
  BY <1>1, <1>2 DEF Ids
<1>4. {t[i].id : i \in DOMAIN s} = Ids(s)
  BY <1>1 DEF Ids
<1> QED
  BY <1>3, <1>4 DEF t

\* The first of a list with distinct ids is not among the rest.
LEMMA HeadAndTail ==
  ASSUME NEW s \in Seq(Event), s # <<>>
  PROVE  /\ Head(s) \in Event /\ Tail(s) \in Seq(Event)
         /\ Head(s).id \in Ids(s) /\ Ids(Tail(s)) \subseteq Ids(s)
         /\ DOMAIN Tail(s) = 1 .. Len(s) - 1
         /\ \A i \in DOMAIN Tail(s) : i + 1 \in DOMAIN s /\ Tail(s)[i] = s[i + 1]
         /\ (\A i, j \in DOMAIN s : s[i].id = s[j].id => i = j) =>
              /\ Head(s).id \notin Ids(Tail(s))
              /\ \A i, j \in DOMAIN Tail(s) : Tail(s)[i].id = Tail(s)[j].id => i = j
<1>1. Len(s) \in Nat /\ Len(s) # 0 /\ DOMAIN s = 1 .. Len(s) /\ Head(s) = s[1]
      /\ Head(s) \in Event /\ Tail(s) \in Seq(Event) /\ Len(Tail(s)) = Len(s) - 1
      /\ \A i \in 1 .. Len(s) - 1 : Tail(s)[i] = s[i + 1]
  OBVIOUS
<1> DEFINE t == Tail(s)
           n == Len(s)
<1>2. DOMAIN t = 1 .. n - 1
  BY <1>1
<1> HIDE DEF t, n
<1>3. 1 \in DOMAIN s
  BY <1>1
<1>4. ASSUME NEW i \in DOMAIN t
      PROVE  i \in Nat /\ i + 1 \in DOMAIN s /\ t[i] = s[i + 1] /\ i + 1 # 1
  BY <1>1, <1>2 DEF n, t
<1>5. Head(s).id \in Ids(s)
  BY <1>1, <1>3 DEF Ids
<1>6. Ids(t) \subseteq Ids(s)
  BY <1>4 DEF Ids
<1>7. ASSUME \A i, j \in DOMAIN s : s[i].id = s[j].id => i = j
      PROVE  /\ Head(s).id \notin Ids(t)
             /\ \A i, j \in DOMAIN t : t[i].id = t[j].id => i = j
  <2>1. \A i \in DOMAIN t : t[i].id # Head(s).id
    BY <1>1, <1>3, <1>4, <1>7
  <2>2. ASSUME NEW i \in DOMAIN t, NEW j \in DOMAIN t, t[i].id = t[j].id PROVE i = j
    <3>1. s[i + 1].id = s[j + 1].id
      BY <1>4, <2>2
    <3>2. i + 1 = j + 1
      BY <1>4, <1>7, <3>1
    <3>3. i \in Nat /\ j \in Nat
      BY <1>4
    <3> QED
      BY ONLY <3>2, <3>3
  <2> QED
    BY <2>1, <2>2 DEF Ids
<1> QED
  BY <1>1, <1>2, <1>4, <1>5, <1>6, <1>7 DEF t, n

LEMMA EmptyTyped == <<>> \in Seq(Event)
OBVIOUS

----------------------------------------------------------------------------
(* Types. *)

USE DEF group, durable, session, history

LEMMA InitTyped == Init => TypeOK
<1> SUFFICES ASSUME Init PROVE TypeOK
  OBVIOUS
<1>1. \A d \in Device : (IF d = Founder THEN "live" ELSE "absent") \in Phase
  BY DEF Phase
<1>2. bus \in Seq(Event) /\ edits \in Seq(Event) /\ faults \in Nat /\ hasty \in BOOLEAN
      /\ covers \in [Device -> SUBSET Nat]
      /\ snapshot \in [Device -> Task \union {NoTask}]
      /\ invite \in [Device -> {"none", "invited", "synced"}]
      /\ shown \in [Device -> Task \union {NoTask}]
  BY EmptyTyped DEF Init
<1>3. bootstrapped \in [Device -> BOOLEAN] /\ phase \in [Device -> Phase]
  BY <1>1 DEF Init
<1>4. log \in [Device -> Seq(Event)] /\ read \in [Device -> Nat]
      /\ since \in [Device -> Seq(Event)] /\ copy \in [Device -> Seq(Event)]
      /\ queue \in [Device -> Seq(Event)] /\ unsent \in [Device -> Seq(Event)]
  BY EmptyTyped DEF Init
<1>5. emitting \in [Device -> Event \union {NoEvent}]
      /\ late \in [Device -> BOOLEAN] /\ unseeded \in [Device -> BOOLEAN]
  BY DEF Init
<1> QED
  BY <1>2, <1>3, <1>4, <1>5 DEF TypeOK

LEMMA KeyTyped ==
  ASSUME NEW d \in Device, NEW at \in Nat
  PROVE  KeyAt(d, at) \in Key
BY BoardAssumption DEF KeyAt, Key

LEMMA EnqueueTyped ==
  ASSUME TypeOK, NEW d \in Device, NEW e \in Event, Enqueue(d, e)
  PROVE  TypeOK'
<1>1. edits' \in Seq(Event) /\ queue' \in [Device -> Seq(Event)]
  BY DEF Enqueue, TypeOK
<1>2. hasty' \in BOOLEAN
  BY DEF Enqueue, TypeOK
<1> QED
  BY <1>1, <1>2 DEF Enqueue, TypeOK

\* What createTask and dispatch stamp.
LEMMA StampedTyped ==
  ASSUME NEW d \in Device, NEW id \in Nat, NEW at \in Nat, NEW m \in Kind
  PROVE  /\ CreateEvent(id, KeyAt(d, at)) \in Event
         /\ [id |-> id, kind |-> m, key |-> KeyAt(d, at)] \in Event
<1>1. KeyAt(d, at) \in Key
  BY KeyTyped
<1> QED
  BY <1>1 DEF CreateEvent, Event, Task

LEMMA EditStamped ==
  ASSUME TypeOK, NEW d \in Device, DispatchCreate(d) \/ DispatchMutation(d)
  PROVE  \E e \in Event :
           /\ e.id = Len(edits) + 1 /\ Enqueue(d, e)
           /\ IF e.kind = "task.created" THEN edits = <<>>
              ELSE shown[d] # NoTask /\ e.key.dev = Client[d]
<1>1. CASE DispatchCreate(d)
  <2>1. PICK now \in Clock : Enqueue(d, CreateEvent(1, KeyAt(d, now)))
    BY <1>1 DEF DispatchCreate
  <2>2. CreateEvent(1, KeyAt(d, now)) \in Event
    BY BoardAssumption, StampedTyped DEF Kind
  <2>3. /\ CreateEvent(1, KeyAt(d, now)).id = Len(edits) + 1
        /\ CreateEvent(1, KeyAt(d, now)).kind = "task.created" /\ edits = <<>>
    BY <1>1 DEF DispatchCreate, CreateEvent
  <2> QED
    BY <2>1, <2>2, <2>3
<1>2. CASE DispatchMutation(d)
  <2>1. PICK now \in Clock, m \in Mutation :
          Enqueue(d, [id |-> Len(edits) + 1, kind |-> m,
                      key |-> KeyAt(d, EnsureMonotonic(now, shown[d]))])
    BY <1>2 DEF DispatchMutation
  <2>2. shown[d] \in Task
    BY <1>2 DEF DispatchMutation, TypeOK
  <2>3. EnsureMonotonic(now, shown[d]) \in Nat
    BY <2>2, BoardAssumption DEF EnsureMonotonic, Task, Key
  <2>4. Len(edits) + 1 \in Nat /\ m \in Kind
    BY BoardAssumption DEF TypeOK
  <2>5. [id |-> Len(edits) + 1, kind |-> m,
         key |-> KeyAt(d, EnsureMonotonic(now, shown[d]))] \in Event
    BY <2>3, <2>4, StampedTyped
  <2>6. shown[d] # NoTask /\ m # "task.created"
    BY <1>2, <2>4 DEF DispatchMutation, Kind
  <2>7. KeyAt(d, EnsureMonotonic(now, shown[d])).dev = Client[d]
    BY DEF KeyAt
  <2> QED
    BY <2>1, <2>5, <2>6, <2>7
<1> QED
  BY <1>1, <1>2

LEMMA AcceptTyped ==
  ASSUME TypeOK, NEW d \in Device, NEW e \in Event, Accept(d, e)
  PROVE  log' \in [Device -> Seq(Event)] /\ emitting' \in [Device -> Event \union {NoEvent}]
BY DEF Accept, TypeOK

LEMMA EditsTyped ==
  ASSUME TypeOK, NEW d \in Device, Edits(d)
  PROVE  TypeOK'
<1>1. CASE DispatchCreate(d) \/ DispatchMutation(d)
  BY <1>1, EditStamped, EnqueueTyped
<1>2. CASE AcceptLocal(d)
  <2>1. queue[d] \in Seq(Event) /\ queue[d] # <<>> /\ unsent[d] \in Seq(Event)
    BY <1>2 DEF AcceptLocal, TypeOK
  <2>2. Head(queue[d]) \in Event /\ Tail(queue[d]) \in Seq(Event)
    BY <2>1, HeadAndTail
  <2>3. log' \in [Device -> Seq(Event)] /\ emitting' \in [Device -> Event \union {NoEvent}]
    BY <1>2, <2>2, AcceptTyped DEF AcceptLocal
  <2>4. Append(unsent[d], Head(queue[d])) \in Seq(Event)
    BY <2>1, <2>2
  <2>5. queue' \in [Device -> Seq(Event)] /\ unsent' \in [Device -> Seq(Event)]
    BY <1>2, <2>2, <2>4 DEF AcceptLocal, TypeOK
  <2> QED
    BY <1>2, <2>3, <2>5 DEF AcceptLocal, TypeOK
<1>3. CASE Send(d)
  <2>1. unsent[d] \in Seq(Event) /\ unsent[d] # <<>>
    BY <1>3 DEF Send, TypeOK
  <2>2. Head(unsent[d]) \in Event /\ Tail(unsent[d]) \in Seq(Event)
    BY <2>1, HeadAndTail
  <2>3. bus' \in Seq(Event) /\ unsent' \in [Device -> Seq(Event)]
    BY <1>3, <2>2 DEF Send, TypeOK
  <2> QED
    BY <1>3, <2>3 DEF Send, TypeOK
<1> QED
  BY <1>1, <1>2, <1>3 DEF Edits

LEMMA ReceivesTyped ==
  ASSUME TypeOK, NEW d \in Device, Receives(d)
  PROVE  TypeOK'
<1>1. CASE Deliver(d)
  <2> DEFINE e == bus[read[d] + 1]
  <2>1. read[d] \in Nat /\ read[d] < Len(bus) /\ bus \in Seq(Event)
    BY <1>1 DEF Deliver, TypeOK
  <2>2. e \in Event
    BY <2>1
  <2> HIDE DEF e
  <2>3. log' \in [Device -> Seq(Event)] /\ emitting' \in [Device -> Event \union {NoEvent}]
    <3>1. (log' = log /\ emitting' = emitting) \/ Accept(d, e)
      BY <1>1 DEF Deliver, e
    <3> QED
      BY <2>2, <3>1, AcceptTyped DEF TypeOK
  <2>4. read' \in [Device -> Nat]
    BY <1>1, <2>1 DEF Deliver, TypeOK
  <2> QED
    BY <1>1, <2>3, <2>4 DEF Deliver, TypeOK
<1>2. CASE Invite(d)
  <2>1. Len(bus) \in Nat /\ "unmounted" \in Phase
    BY DEF TypeOK, Phase
  <2>2. read' \in [Device -> Nat] /\ phase' \in [Device -> Phase]
        /\ invite' \in [Device -> {"none", "invited", "synced"}]
    BY <1>2, <2>1 DEF Invite, TypeOK
  <2> QED
    BY <1>2, <2>2 DEF Invite, TypeOK
<1>3. CASE PublishSnapshot(d)
  <2>1. Replayed(log[Founder]) \in Shown
    BY BoardAssumption, ReplayedTyped DEF TypeOK
  <2>2. snapshot' \in [Device -> Task \union {NoTask}]
        /\ invite' \in [Device -> {"none", "invited", "synced"}]
    BY <1>3, <2>1 DEF PublishSnapshot, TypeOK, Shown
  <2>3. Ids(log[Founder]) \in SUBSET Nat
    <3>1. log[Founder] \in Seq(Event)
      BY BoardAssumption DEF TypeOK
    <3> QED
      BY <3>1, EventTyped DEF Ids
  <2>4. covers' \in [Device -> SUBSET Nat]
    BY <1>3, <2>3 DEF PublishSnapshot, TypeOK
  <2> QED
    BY <1>3, <2>2, <2>4 DEF PublishSnapshot, TypeOK
<1>4. CASE ResolveBootstrap(d)
  <2> DEFINE e == [id |-> BootstrapId, kind |-> "task.created", task |-> snapshot[d]]
  <2>1. phase' \in [Device -> Phase] /\ bootstrapped' \in [Device -> BOOLEAN]
    BY <1>4 DEF ResolveBootstrap, TypeOK, Phase
  <2>2. CASE snapshot[d] = NoTask \/ BootstrapId \in Ids(log[d])
    <3>1. UNCHANGED <<log, emitting, late>>
      BY <1>4, <2>2 DEF ResolveBootstrap
    <3> QED
      BY <1>4, <2>1, <3>1 DEF ResolveBootstrap, TypeOK
  <2>3. CASE ~(snapshot[d] = NoTask \/ BootstrapId \in Ids(log[d]))
    <3>1. snapshot[d] \in Task
      BY <2>3 DEF TypeOK
    <3>2. e \in Event
      BY <3>1 DEF Event, BootstrapId
    <3>3. Accept(d, e) /\ late' = [late EXCEPT ![d] = @ \/ log[d] # <<>>]
      BY <1>4, <2>3 DEF ResolveBootstrap
    <3> HIDE DEF e
    <3>4. log' \in [Device -> Seq(Event)] /\ emitting' \in [Device -> Event \union {NoEvent}]
      BY <3>2, <3>3, AcceptTyped
    <3>5. late' \in [Device -> BOOLEAN]
      BY <3>3 DEF TypeOK
    <3> QED
      BY <1>4, <2>1, <3>4, <3>5 DEF ResolveBootstrap, TypeOK
  <2> QED
    BY <2>2, <2>3
<1>5. CASE JoinTimeout(d)
  BY <1>5 DEF JoinTimeout, TypeOK, Phase
<1> QED
  BY <1>1, <1>2, <1>3, <1>4, <1>5 DEF Receives

LEMMA StartTyped ==
  ASSUME TypeOK, NEW d \in Device, StartEngine(d)
  PROVE  /\ phase' \in [Device -> Phase]
         /\ since' \in [Device -> Seq(Event)] /\ copy' \in [Device -> Seq(Event)]
BY EmptyTyped DEF StartEngine, TypeOK, Phase

LEMMA RebuiltTyped ==
  ASSUME TypeOK, NEW d \in Device
  PROVE  Rebuilt(d) \in Shown
<1>1. copy[d] \in Seq(Event) /\ since[d] \in Seq(Event)
  BY DEF TypeOK
<1> QED
  BY <1>1, ReplayedTyped, FoldTyped DEF Rebuilt

LEMMA HookTyped ==
  ASSUME TypeOK, NEW d \in Device, Hook(d)
  PROVE  TypeOK'
<1>1. CASE Emit(d)
  <2>1. emitting[d] \in Event /\ shown[d] \in Shown /\ since[d] \in Seq(Event)
    BY <1>1 DEF Emit, TypeOK, Shown
  <2>2. ApplyEvent(shown[d], emitting[d]) \in Shown
    BY <2>1, ApplyTyped
  <2>3. shown' \in [Device -> Shown]
    BY <1>1, <2>2 DEF Emit, TypeOK, Shown
  <2>4. Append(since[d], emitting[d]) \in Seq(Event)
    BY <2>1
  <2>5. since' \in [Device -> Seq(Event)]
    BY <1>1, <2>4 DEF Emit, TypeOK
  <2>6. emitting' \in [Device -> Event \union {NoEvent}]
    BY <1>1 DEF Emit, TypeOK
  <2> QED
    BY <1>1, <2>3, <2>5, <2>6 DEF Emit, TypeOK, Shown
<1>2. CASE Mount(d)
  BY <1>2 DEF Mount, TypeOK, Phase
<1>3. CASE LoadLog(d)
  BY <1>3 DEF LoadLog, TypeOK, Phase
<1>4. CASE Rebuild(d)
  <2>1. shown' \in [Device -> Shown]
    BY <1>4, RebuiltTyped DEF Rebuild, TypeOK, Shown
  <2>2. StartEngine(d)
    BY <1>4 DEF Rebuild
  <2> QED
    BY <1>4, <2>1, <2>2, StartTyped DEF Rebuild, TypeOK, Shown
<1>5. CASE LoadFails(d)
  <2>1. StartEngine(d) /\ faults' \in Nat /\ unseeded' \in [Device -> BOOLEAN]
    BY <1>5 DEF LoadFails, TypeOK
  <2> QED
    BY <1>5, <2>1, StartTyped DEF LoadFails, TypeOK
<1>6. CASE Reload(d)
  BY <1>6, EmptyTyped DEF Reload, TypeOK, Phase
<1> QED
  BY <1>1, <1>2, <1>3, <1>4, <1>5, <1>6 DEF Hook

LEMMA NextTyped == TypeOK /\ [Next]_vars => TypeOK'
<1> SUFFICES ASSUME TypeOK, [Next]_vars PROVE TypeOK'
  OBVIOUS
<1>1. CASE Next
  BY <1>1, EditsTyped, ReceivesTyped, HookTyped DEF Next
<1>2. CASE UNCHANGED vars
  BY <1>2 DEF vars, TypeOK
<1> QED
  BY <1>1, <1>2

\* Every variable has its type, for any devices, clocks and bounds: every event is
\* stamped with a key, and what the folds yield is a task or none.
THEOREM TypeCorrect == Spec => []TypeOK
<1> QED
  BY InitTyped, NextTyped, PTL DEF Spec

----------------------------------------------------------------------------
(* The inductive invariant. *)

\* An edit is in one device's queue, once, until that device accepts it.
IdInv ==
  /\ Ids(bus) \subseteq 1 .. Len(edits)
  /\ \A d \in Device :
       /\ Ids(queue[d]) \subseteq 1 .. Len(edits)
       /\ Ids(unsent[d]) \subseteq 1 .. Len(edits)
       /\ Ids(log[d]) \subseteq 0 .. Len(edits)
       /\ Ids(queue[d]) \intersect Ids(bus) = {}
       /\ \A i, j \in DOMAIN queue[d] : queue[d][i].id = queue[d][j].id => i = j
  /\ \A c, d \in Device :
       /\ Ids(queue[d]) \intersect Ids(log[c]) = {}
       /\ Ids(queue[d]) \intersect Ids(unsent[c]) = {}
       /\ c # d => Ids(queue[d]) \intersect Ids(queue[c]) = {}

\* What a session works on is in its log: the log only grows while it lasts.
TraceInv ==
  \A d \in Device :
    /\ Ids(copy[d]) \subseteq Ids(log[d])
    /\ Ids(since[d]) \subseteq Ids(log[d])
    /\ emitting[d] # NoEvent => emitting[d].id \in Ids(log[d])

\* To fold the pending event into x makes it what a rebuild would show.
ToShow(d, x) ==
  IF emitting[d] = NoEvent THEN x = Replayed(log[d])
  ELSE ApplyEvent(x, emitting[d]) = Replayed(log[d])

\* The pending event is in the log, so a rebuild shows the same with or without it.
Again(d) ==
  emitting[d] # NoEvent => ApplyEvent(Replayed(log[d]), emitting[d]) = Replayed(log[d])

\* Behind a loaded copy, the rebuild lacks at most the pending event; one that the
\* copy has already is folded a second time.
Rebuilding(d) ==
  IF emitting[d] # NoEvent /\ emitting[d].id \in Ids(copy[d])
  THEN Rebuilt(d) = Replayed(log[d])
  ELSE ToShow(d, Rebuilt(d))

ShowAt(d) ==
  ~late[d] =>
    /\ Again(d)
    /\ phase[d] = "loaded" => Rebuilding(d)
    /\ phase[d] \in {"joining", "live"} /\ ~unseeded[d] => ToShow(d, shown[d])

ShowInv == \A d \in Device : ShowAt(d)

----------------------------------------------------------------------------
(* Ids: an edit is accepted once. *)

LEMMA InitIds == Init => IdInv /\ TraceInv
BY IdsOfNone DEF Init, IdInv, TraceInv

\* What a step may do to the lists that IdInv speaks of, when no edit is taken
\* from a queue: the ids of logs and of what is sent come from elsewhere.
LEMMA IdsKept ==
  ASSUME TypeOK, IdInv, UNCHANGED edits, UNCHANGED bus,
         \A d \in Device : queue'[d] = queue[d] \/ queue'[d] = <<>>,
         \A d \in Device : unsent'[d] = unsent[d] \/ unsent'[d] = <<>>,
         \A d \in Device : Ids(log'[d]) \subseteq Ids(log[d]) \union Ids(bus) \union {BootstrapId}
  PROVE  IdInv'
<1>1. Len(edits) \in Nat
  BY DEF TypeOK
<1>2. \A d \in Device : Ids(queue'[d]) \subseteq Ids(queue[d])
                        /\ Ids(unsent'[d]) \subseteq Ids(unsent[d])
  BY IdsOfNone
<1>3. \A d \in Device : BootstrapId \notin Ids(queue[d])
  BY <1>1 DEF IdInv, BootstrapId
<1>4. \A d \in Device : \A i, j \in DOMAIN queue'[d] :
        queue'[d][i].id = queue'[d][j].id => i = j
  BY DEF IdInv
<1>5. \A c, d \in Device :
        /\ Ids(queue'[d]) \intersect Ids(log'[c]) = {}
        /\ Ids(queue'[d]) \intersect Ids(unsent'[c]) = {}
        /\ Ids(queue'[d]) \intersect Ids(bus) = {}
        /\ c # d => Ids(queue'[d]) \intersect Ids(queue'[c]) = {}
  <2> TAKE c, d \in Device
  <2>1. /\ Ids(queue[d]) \intersect Ids(log[c]) = {}
        /\ Ids(queue[d]) \intersect Ids(unsent[c]) = {}
        /\ Ids(queue[d]) \intersect Ids(bus) = {}
        /\ c # d => Ids(queue[d]) \intersect Ids(queue[c]) = {}
    BY DEF IdInv
  <2>2. Ids(log'[c]) \subseteq Ids(log[c]) \union Ids(bus) \union {BootstrapId}
    OBVIOUS
  <2> QED
    BY ONLY <1>2, <1>3, <2>1, <2>2
<1>6. \A d \in Device : Ids(log'[d]) \subseteq 0 .. Len(edits)
  BY <1>1 DEF IdInv, BootstrapId
<1> QED
  BY <1>2, <1>4, <1>5, <1>6 DEF IdInv

LEMMA IdsEnqueue ==
  ASSUME TypeOK, IdInv, NEW d \in Device, NEW e \in Event, e.id = Len(edits) + 1,
         Enqueue(d, e)
  PROVE  IdInv'
<1> DEFINE n == Len(edits)
<1>1. n \in Nat /\ Len(edits') = n + 1 /\ e.id = n + 1
  BY DEF Enqueue, TypeOK
<1>2. queue[d] \in Seq(Event) /\ queue' = [queue EXCEPT ![d] = Append(queue[d], e)]
  BY DEF Enqueue, TypeOK
<1>3. queue'[d] = Append(queue[d], e) /\ \A c \in Device : c # d => queue'[c] = queue[c]
  BY <1>2 DEF TypeOK
<1>4. Ids(queue'[d]) = Ids(queue[d]) \union {n + 1}
  BY <1>1, <1>2, <1>3, IdsOfAppend
<1>5. UNCHANGED <<bus, unsent, log>>
  BY DEF Enqueue
<1> HIDE DEF n
<1>6. n + 1 \notin Ids(bus) /\ \A c \in Device :
        n + 1 \notin Ids(queue[c]) /\ n + 1 \notin Ids(unsent[c]) /\ n + 1 \notin Ids(log[c])
  BY <1>1 DEF IdInv, n
<1>7. \A i, j \in DOMAIN queue'[d] : queue'[d][i].id = queue'[d][j].id => i = j
  <2> DEFINE q == queue[d]
             t == queue'[d]
  <2>1. Len(q) \in Nat /\ DOMAIN q = 1 .. Len(q) /\ DOMAIN t = 1 .. Len(q) + 1
        /\ t[Len(q) + 1] = e /\ \A i \in 1 .. Len(q) : t[i] = q[i]
    BY <1>2, <1>3
  <2>2. \A i \in 1 .. Len(q) : q[i].id # n + 1
    BY <1>6, <2>1 DEF Ids
  <2>3. \A i, j \in 1 .. Len(q) : q[i].id = q[j].id => i = j
    BY <2>1 DEF IdInv
  <2> HIDE DEF q, t
  <2>4. \A i, j \in DOMAIN t : t[i].id = t[j].id => i = j
    BY <1>1, <2>1, <2>2, <2>3
  <2> QED
    BY <2>4 DEF t
<1>8. \A c \in Device : \A i, j \in DOMAIN queue'[c] :
        queue'[c][i].id = queue'[c][j].id => i = j
  BY <1>3, <1>7 DEF IdInv
<1>9. \A c \in Device : Ids(queue'[c]) \subseteq 1 .. n + 1 /\ Ids(unsent[c]) \subseteq 1 .. n + 1
                        /\ Ids(log[c]) \subseteq 0 .. n + 1 /\ Ids(bus) \subseteq 1 .. n + 1
                        /\ Ids(queue'[c]) \intersect Ids(bus) = {}
  <2> TAKE c \in Device
  <2>1. 1 .. n \subseteq 1 .. n + 1 /\ 0 .. n \subseteq 0 .. n + 1 /\ n + 1 \in 1 .. n + 1
    BY <1>1
  <2>2. Ids(queue[c]) \subseteq 1 .. n /\ Ids(unsent[c]) \subseteq 1 .. n
        /\ Ids(log[c]) \subseteq 0 .. n /\ Ids(bus) \subseteq 1 .. n
        /\ Ids(queue[c]) \intersect Ids(bus) = {}
    BY DEF IdInv, n
  <2> QED
    BY <1>3, <1>4, <1>6, <2>1, <2>2
<1>10. \A c, b \in Device :
         /\ Ids(queue'[b]) \intersect Ids(log[c]) = {}
         /\ Ids(queue'[b]) \intersect Ids(unsent[c]) = {}
         /\ c # b => Ids(queue'[b]) \intersect Ids(queue'[c]) = {}
  <2> TAKE c, b \in Device
  <2>1. /\ Ids(queue[b]) \intersect Ids(log[c]) = {}
        /\ Ids(queue[b]) \intersect Ids(unsent[c]) = {}
        /\ c # b => Ids(queue[b]) \intersect Ids(queue[c]) = {}
    BY DEF IdInv
  <2> QED
    BY <1>3, <1>4, <1>6, <2>1
<1>11. Len(edits') = n + 1 /\ UNCHANGED bus /\ UNCHANGED unsent /\ UNCHANGED log
  BY <1>1, <1>5
<1> QED
  BY ONLY <1>8, <1>9, <1>10, <1>11 DEF IdInv

\* acceptLocal moves the head of the queue to the log and to what is to be sent.
LEMMA IdsAcceptLocal ==
  ASSUME TypeOK, IdInv, NEW d \in Device, AcceptLocal(d)
  PROVE  IdInv'
<1> DEFINE q == queue[d]
           e == Head(q)
<1>1. q \in Seq(Event) /\ q # <<>> /\ log[d] \in Seq(Event) /\ unsent[d] \in Seq(Event)
  BY DEF AcceptLocal, TypeOK
<1>2. \A i, j \in DOMAIN q : q[i].id = q[j].id => i = j
  BY DEF IdInv
<1>3. /\ queue' = [queue EXCEPT ![d] = Tail(q)]
      /\ unsent' = [unsent EXCEPT ![d] = Append(unsent[d], e)]
      /\ log' = [log EXCEPT ![d] = Append(log[d], e)]
      /\ UNCHANGED <<bus, edits>>
  BY DEF AcceptLocal, Accept
<1>4. /\ queue'[d] = Tail(q) /\ unsent'[d] = Append(unsent[d], e)
      /\ log'[d] = Append(log[d], e)
      /\ \A c \in Device : c # d =>
           queue'[c] = queue[c] /\ unsent'[c] = unsent[c] /\ log'[c] = log[c]
  BY <1>3 DEF TypeOK
<1> HIDE DEF e
<1>5. e \in Event /\ e.id \in Ids(q) /\ Ids(Tail(q)) \subseteq Ids(q)
      /\ e.id \notin Ids(Tail(q))
      /\ \A i, j \in DOMAIN Tail(q) : Tail(q)[i].id = Tail(q)[j].id => i = j
  BY <1>1, <1>2, HeadAndTail DEF e
<1>6. Ids(unsent'[d]) = Ids(unsent[d]) \union {e.id}
      /\ Ids(log'[d]) = Ids(log[d]) \union {e.id}
  BY <1>1, <1>4, <1>5, IdsOfAppend
<1>7. \A c \in Device : Ids(queue'[c]) \subseteq Ids(queue[c]) /\ e.id \notin Ids(queue'[c])
  <2> TAKE c \in Device
  <2>1. CASE c = d
    <3>1. queue'[c] = Tail(q) /\ Ids(queue[c]) = Ids(q)
      BY <1>4, <2>1
    <3> QED
      BY ONLY <1>5, <3>1
  <2>2. CASE c # d
    <3>1. Ids(queue[c]) \intersect Ids(queue[d]) = {}
      BY <2>2 DEF IdInv
    <3> QED
      BY <1>4, <1>5, <2>2, <3>1
  <2> QED
    BY <2>1, <2>2
<1>8. \A c \in Device :
        /\ Ids(unsent'[c]) \subseteq Ids(unsent[c]) \union {e.id}
        /\ Ids(log'[c]) \subseteq Ids(log[c]) \union {e.id}
  BY <1>4, <1>6
<1>9. \A c \in Device : \A i, j \in DOMAIN queue'[c] :
        queue'[c][i].id = queue'[c][j].id => i = j
  <2> TAKE c \in Device
  <2>1. CASE c = d
    <3>1. queue'[c] = Tail(q)
      BY <1>4, <2>1
    <3> QED
      BY ONLY <1>5, <3>1
  <2>2. CASE c # d
    BY <1>4, <2>2 DEF IdInv
  <2> QED
    BY <2>1, <2>2
<1>10. e.id \in 1 .. Len(edits) /\ 1 .. Len(edits) \subseteq 0 .. Len(edits)
  <2>1. Len(edits) \in Nat
    BY DEF TypeOK
  <2> QED
    BY <1>5, <2>1 DEF IdInv
<1>11. \A c \in Device :
         /\ Ids(queue'[c]) \subseteq 1 .. Len(edits) /\ Ids(unsent'[c]) \subseteq 1 .. Len(edits)
         /\ Ids(log'[c]) \subseteq 0 .. Len(edits)
         /\ Ids(queue'[c]) \intersect Ids(bus) = {}
  <2> TAKE c \in Device
  <2>1. /\ Ids(queue[c]) \subseteq 1 .. Len(edits) /\ Ids(unsent[c]) \subseteq 1 .. Len(edits)
        /\ Ids(log[c]) \subseteq 0 .. Len(edits)
        /\ Ids(queue[c]) \intersect Ids(bus) = {}
    BY DEF IdInv
  <2> QED
    BY <1>7, <1>8, <1>10, <2>1
<1>12. \A c, b \in Device :
         /\ Ids(queue'[b]) \intersect Ids(log'[c]) = {}
         /\ Ids(queue'[b]) \intersect Ids(unsent'[c]) = {}
         /\ c # b => Ids(queue'[b]) \intersect Ids(queue'[c]) = {}
  <2> TAKE c, b \in Device
  <2>1. /\ Ids(queue[b]) \intersect Ids(log[c]) = {}
        /\ Ids(queue[b]) \intersect Ids(unsent[c]) = {}
        /\ c # b => Ids(queue[b]) \intersect Ids(queue[c]) = {}
    BY DEF IdInv
  <2> QED
    BY <1>7, <1>8, <2>1
<1>13. UNCHANGED <<bus, edits>>
  BY <1>3
<1> QED
  BY <1>9, <1>11, <1>12, <1>13 DEF IdInv

LEMMA IdsSend ==
  ASSUME TypeOK, IdInv, NEW d \in Device, Send(d)
  PROVE  IdInv'
<1> DEFINE u == unsent[d]
           e == Head(u)
<1>1. u \in Seq(Event) /\ u # <<>> /\ bus \in Seq(Event)
  BY DEF Send, TypeOK
<1>2. bus' = Append(bus, e) /\ unsent' = [unsent EXCEPT ![d] = Tail(u)]
      /\ UNCHANGED <<edits, log, queue>>
  BY DEF Send
<1>3. unsent'[d] = Tail(u) /\ \A c \in Device : c # d => unsent'[c] = unsent[c]
  BY <1>2 DEF TypeOK
<1> HIDE DEF e
<1>4. e \in Event /\ e.id \in Ids(u) /\ Ids(Tail(u)) \subseteq Ids(u)
  BY <1>1, HeadAndTail DEF e
<1>5. Ids(bus') = Ids(bus) \union {e.id}
  BY <1>1, <1>2, <1>4, IdsOfAppend
<1>6. \A c \in Device : Ids(unsent'[c]) \subseteq Ids(unsent[c])
  BY <1>3, <1>4
<1>7. e.id \in 1 .. Len(edits) /\ \A c \in Device : e.id \notin Ids(queue[c])
  BY <1>4 DEF IdInv
<1> HIDE DEF u
<1>8. Ids(bus') \subseteq 1 .. Len(edits)
      /\ \A c \in Device : Ids(queue[c]) \intersect Ids(bus') = {}
  BY <1>5, <1>7 DEF IdInv
<1>9. \A c, b \in Device : Ids(queue[b]) \intersect Ids(unsent'[c]) = {}
  BY <1>6 DEF IdInv
<1>10. \A c \in Device : Ids(unsent'[c]) \subseteq 1 .. Len(edits)
  BY <1>6 DEF IdInv
<1>11. UNCHANGED edits /\ UNCHANGED log /\ UNCHANGED queue
  BY <1>2
<1> QED
  BY <1>8, <1>9, <1>10, <1>11 DEF IdInv

\* What is accepted from the group is on the bus, or is the bootstrap.
LEMMA IdsAccept ==
  ASSUME TypeOK, IdInv, NEW d \in Device, NEW e \in Event, Accept(d, e),
         e.id \in Ids(bus) \union {BootstrapId}
  PROVE  \A c \in Device :
           Ids(log'[c]) \subseteq Ids(log[c]) \union Ids(bus) \union {BootstrapId}
<1>1. log[d] \in Seq(Event) /\ log' = [log EXCEPT ![d] = Append(log[d], e)]
  BY DEF Accept, TypeOK
<1>2. log'[d] = Append(log[d], e) /\ \A c \in Device : c # d => log'[c] = log[c]
  BY <1>1 DEF TypeOK
<1>3. Ids(log'[d]) = Ids(log[d]) \union {e.id}
  BY <1>1, <1>2, IdsOfAppend
<1> TAKE c \in Device
<1>4. CASE c = d
  BY <1>3, <1>4
<1>5. CASE c # d
  <2>1. Ids(log'[c]) = Ids(log[c])
    BY <1>2, <1>5
  <2> QED
    BY <2>1
<1> QED
  BY <1>4, <1>5

LEMMA NextIds ==
  ASSUME TypeOK, IdInv, [Next]_vars
  PROVE  IdInv'
<1>1. ASSUME NEW d \in Device, Edits(d) PROVE IdInv'
  <2>1. CASE DispatchCreate(d) \/ DispatchMutation(d)
    BY <2>1, EditStamped, IdsEnqueue
  <2> QED
    BY <1>1, <2>1, IdsAcceptLocal, IdsSend DEF Edits
<1>2. ASSUME NEW d \in Device, Receives(d) PROVE IdInv'
  <2>1. UNCHANGED edits /\ UNCHANGED bus /\ UNCHANGED queue /\ UNCHANGED unsent
    BY <1>2 DEF Receives, Deliver, Invite, PublishSnapshot, ResolveBootstrap, JoinTimeout
  <2>2. \A c \in Device :
          Ids(log'[c]) \subseteq Ids(log[c]) \union Ids(bus) \union {BootstrapId}
    <3>1. CASE Deliver(d)
      <4> DEFINE e == bus[read[d] + 1]
      <4>1. read[d] \in Nat /\ read[d] < Len(bus) /\ bus \in Seq(Event)
        BY <3>1 DEF Deliver, TypeOK
      <4>2. e \in Event /\ read[d] + 1 \in DOMAIN bus
        BY <4>1
      <4>3. e.id \in Ids(bus)
        BY <4>2 DEF Ids
      <4>4. UNCHANGED log \/ Accept(d, e)
        BY <3>1 DEF Deliver
      <4> HIDE DEF e
      <4> QED
        BY <4>2, <4>3, <4>4, IdsAccept
    <3>2. CASE ResolveBootstrap(d)
      <4> DEFINE e == [id |-> BootstrapId, kind |-> "task.created", task |-> snapshot[d]]
      <4>1. CASE snapshot[d] = NoTask \/ BootstrapId \in Ids(log[d])
        BY <3>2, <4>1 DEF ResolveBootstrap
      <4>2. CASE ~(snapshot[d] = NoTask \/ BootstrapId \in Ids(log[d]))
        <5>1. Accept(d, e) /\ e \in Event /\ e.id = BootstrapId
          BY <3>2, <4>2 DEF ResolveBootstrap, TypeOK, Event, BootstrapId
        <5> HIDE DEF e
        <5> QED
          BY <5>1, IdsAccept
      <4> QED
        BY <4>1, <4>2
    <3>3. CASE Invite(d) \/ PublishSnapshot(d) \/ JoinTimeout(d)
      BY <3>3 DEF Invite, PublishSnapshot, JoinTimeout
    <3> QED
      BY <1>2, <3>1, <3>2, <3>3 DEF Receives
  <2> QED
    BY <2>1, <2>2, IdsKept
<1>3. ASSUME NEW d \in Device, Hook(d) PROVE IdInv'
  <2>1. UNCHANGED edits /\ UNCHANGED bus /\ UNCHANGED log
    BY <1>3 DEF Hook, Emit, Mount, LoadLog, Rebuild, LoadFails, Reload
  <2>2. \A c \in Device : (queue'[c] = queue[c] \/ queue'[c] = <<>>)
                          /\ (unsent'[c] = unsent[c] \/ unsent'[c] = <<>>)
    <3>1. CASE Reload(d)
      BY <3>1 DEF Reload, TypeOK
    <3>2. CASE ~Reload(d)
      BY <1>3, <3>2 DEF Hook, Emit, Mount, LoadLog, Rebuild, LoadFails
    <3> QED
      BY <3>1, <3>2
  <2> QED
    BY <2>1, <2>2, IdsKept
<1>4. CASE UNCHANGED vars
  <2>1. UNCHANGED edits /\ UNCHANGED bus /\ UNCHANGED queue /\ UNCHANGED unsent
        /\ UNCHANGED log
    BY <1>4 DEF vars
  <2> QED
    BY <2>1, IdsKept
<1> QED
  BY <1>1, <1>2, <1>3, <1>4 DEF Next

----------------------------------------------------------------------------
(* What a session has read, and what it shows. *)

\* An accepted event is behind what the log had, and pending.
LEMMA AcceptedLast ==
  ASSUME TypeOK, NEW d \in Device, NEW e \in Event, Accept(d, e)
  PROVE  /\ log'[d] = Append(log[d], e) /\ emitting[d] = NoEvent /\ emitting'[d] = e
         /\ Ids(log'[d]) = Ids(log[d]) \union {e.id}
         /\ \A c \in Device : c # d => log'[c] = log[c] /\ emitting'[c] = emitting[c]
<1>1. log[d] \in Seq(Event)
  BY DEF TypeOK
<1>2. /\ log'[d] = Append(log[d], e) /\ emitting[d] = NoEvent /\ emitting'[d] = e
      /\ \A c \in Device : c # d => log'[c] = log[c] /\ emitting'[c] = emitting[c]
  BY DEF Accept, TypeOK
<1> QED
  BY <1>1, <1>2, IdsOfAppend

\* The steps that accept an event.
Accepts(d, e) ==
  /\ Accept(d, e)
  /\ \/ AcceptLocal(d) /\ e = Head(queue[d])
     \/ Deliver(d) /\ e.id \in Ids(bus)
     \/ ResolveBootstrap(d) /\ e.id = BootstrapId /\ (late'[d] \/ log[d] = <<>>)

\* A step is an event accepted, or one of the hook's, or it leaves the device's
\* projection and log as they are.
Still(d) ==
  /\ log'[d] = log[d] /\ emitting'[d] = emitting[d] /\ copy'[d] = copy[d]
  /\ since'[d] = since[d] /\ shown'[d] = shown[d] /\ unseeded'[d] = unseeded[d]
  /\ late'[d] = late[d]
  /\ \/ phase'[d] = phase[d]
     \/ phase[d] \in {"joining", "live"} /\ phase'[d] = "live"
     \/ phase'[d] = "unmounted"

LEMMA StepsOfADevice ==
  ASSUME TypeOK, NEW d \in Device, Edits(d) \/ Receives(d) \/ Hook(d)
  PROVE  /\ \A c \in Device : c # d => Still(c)
         /\ Still(d) \/ Hook(d) \/ \E e \in Event : Accepts(d, e)
<1>1. CASE DispatchCreate(d) \/ DispatchMutation(d)
  <2>1. PICK e \in Event : Enqueue(d, e)
    BY <1>1, EditStamped
  <2> QED
    BY <2>1 DEF Enqueue, Still
<1>2. CASE AcceptLocal(d)
  <2>1. queue[d] \in Seq(Event) /\ queue[d] # <<>>
    BY <1>2 DEF AcceptLocal, TypeOK
  <2>2. Head(queue[d]) \in Event
    BY <2>1, HeadAndTail
  <2>3. Accepts(d, Head(queue[d]))
    BY <1>2 DEF Accepts, AcceptLocal
  <2>4. \A c \in Device : c # d => Still(c)
    BY <1>2, <2>2, AcceptedLast DEF AcceptLocal, Still
  <2> QED
    BY <2>2, <2>3, <2>4
<1>3. CASE Send(d)
  BY <1>3 DEF Send, Still
<1>4. CASE Deliver(d)
  <2> DEFINE e == bus[read[d] + 1]
  <2>1. read[d] \in Nat /\ read[d] < Len(bus) /\ bus \in Seq(Event)
    BY <1>4 DEF Deliver, TypeOK
  <2>2. e \in Event /\ read[d] + 1 \in DOMAIN bus
    BY <2>1
  <2>3. e.id \in Ids(bus)
    BY <2>2 DEF Ids
  <2>4. UNCHANGED <<log, emitting>> \/ Accept(d, e)
    BY <1>4 DEF Deliver
  <2> HIDE DEF e
  <2>5. UNCHANGED <<bootstrapped, phase, shown, since, copy, queue, unsent, late, unseeded>>
    BY <1>4 DEF Deliver
  <2>6. CASE UNCHANGED <<log, emitting>>
    BY <2>5, <2>6 DEF Still
  <2>7. CASE Accept(d, e)
    <3>1. Accepts(d, e)
      BY <1>4, <2>3, <2>7 DEF Accepts
    <3>2. \A c \in Device : c # d => Still(c)
      BY <2>2, <2>5, <2>7, AcceptedLast DEF Still
    <3> QED
      BY <2>2, <3>1, <3>2
  <2> QED
    BY <2>4, <2>6, <2>7
<1>5. CASE Invite(d)
  BY <1>5 DEF Invite, Still, TypeOK
<1>6. CASE PublishSnapshot(d)
  BY <1>6 DEF PublishSnapshot, Still
<1>7. CASE ResolveBootstrap(d)
  <2> DEFINE e == [id |-> BootstrapId, kind |-> "task.created", task |-> snapshot[d]]
  <2>1. /\ phase[d] \in {"joining", "live"} /\ phase' = [phase EXCEPT ![d] = "live"]
        /\ UNCHANGED <<read, shown, since, copy, queue, unsent, unseeded>>
    BY <1>7 DEF ResolveBootstrap
  <2>2. phase'[d] = "live" /\ \A c \in Device : c # d => phase'[c] = phase[c]
    BY <2>1 DEF TypeOK
  <2>3. CASE snapshot[d] = NoTask \/ BootstrapId \in Ids(log[d])
    <3>1. UNCHANGED <<log, emitting, late>>
      BY <1>7, <2>3 DEF ResolveBootstrap
    <3> QED
      BY <2>1, <2>2, <3>1 DEF Still
  <2>4. CASE ~(snapshot[d] = NoTask \/ BootstrapId \in Ids(log[d]))
    <3>1. Accept(d, e) /\ e \in Event /\ e.id = BootstrapId
      BY <1>7, <2>4 DEF ResolveBootstrap, TypeOK, Event, BootstrapId
    <3>2. late' = [late EXCEPT ![d] = @ \/ log[d] # <<>>]
      BY <1>7, <2>4 DEF ResolveBootstrap
    <3> HIDE DEF e
    <3>3. (late'[d] \/ log[d] = <<>>) /\ \A c \in Device : c # d => late'[c] = late[c]
      BY <3>2 DEF TypeOK
    <3>4. Accepts(d, e)
      BY <1>7, <3>1, <3>3 DEF Accepts
    <3>5. \A c \in Device : c # d => Still(c)
      BY <2>1, <2>2, <3>1, <3>3, AcceptedLast DEF Still
    <3> QED
      BY <3>1, <3>4, <3>5
  <2> QED
    BY <2>3, <2>4
<1>8. CASE JoinTimeout(d)
  BY <1>8 DEF JoinTimeout, Still, TypeOK
<1>9. CASE Hook(d)
  <2>1. \A c \in Device : c # d => Still(c)
    <3>1. CASE Emit(d)
      BY <3>1 DEF Emit, Still, TypeOK
    <3>2. CASE Mount(d)
      BY <3>2 DEF Mount, Still, TypeOK
    <3>3. CASE LoadLog(d)
      BY <3>3 DEF LoadLog, Still, TypeOK
    <3>4. CASE Rebuild(d)
      BY <3>4 DEF Rebuild, StartEngine, Still, TypeOK
    <3>5. CASE LoadFails(d)
      BY <3>5 DEF LoadFails, StartEngine, Still, TypeOK
    <3>6. CASE Reload(d)
      BY <3>6 DEF Reload, Still, TypeOK
    <3> QED
      BY <1>9, <3>1, <3>2, <3>3, <3>4, <3>5, <3>6 DEF Hook
  <2> QED
    BY <1>9, <2>1
<1> QED
  BY <1>1, <1>2, <1>3, <1>4, <1>5, <1>6, <1>7, <1>8, <1>9 DEF Edits, Receives

\* TraceInv of one device.
TraceAt(d) ==
  /\ Ids(copy[d]) \subseteq Ids(log[d])
  /\ Ids(since[d]) \subseteq Ids(log[d])
  /\ emitting[d] # NoEvent => emitting[d].id \in Ids(log[d])

LEMMA StillTraces ==
  ASSUME NEW d \in Device, TraceAt(d), Still(d)
  PROVE  TraceAt(d)'
BY DEF TraceAt, Still

LEMMA StillShows ==
  ASSUME NEW d \in Device, ShowAt(d), Still(d)
  PROVE  ShowAt(d)'
<1>1. /\ log'[d] = log[d] /\ emitting'[d] = emitting[d] /\ copy'[d] = copy[d]
      /\ since'[d] = since[d] /\ shown'[d] = shown[d] /\ unseeded'[d] = unseeded[d]
      /\ late'[d] = late[d]
      /\ phase'[d] = "loaded" => phase[d] = "loaded"
      /\ phase'[d] \in {"joining", "live"} => phase[d] \in {"joining", "live"}
  BY DEF Still
<1>2. Rebuilt(d)' = Rebuilt(d)
  BY <1>1 DEF Rebuilt
<1> QED
  BY <1>1, <1>2 DEF ShowAt, Again, Rebuilding, ToShow

LEMMA AcceptsTraces ==
  ASSUME TypeOK, NEW d \in Device, NEW e \in Event, Accepts(d, e), TraceAt(d)
  PROVE  TraceAt(d)'
<1>1. UNCHANGED copy /\ UNCHANGED since
  BY DEF Accepts, AcceptLocal, Deliver, ResolveBootstrap
<1>2. emitting'[d] = e /\ Ids(log'[d]) = Ids(log[d]) \union {e.id}
  BY AcceptedLast DEF Accepts
<1> QED
  BY <1>1, <1>2 DEF TraceAt

\* An event is accepted behind all that the log has, unless it is a bootstrap that
\* comes late; and while a copy is on its way back only the device's own edits are.
LEMMA AcceptsShows ==
  ASSUME TypeOK, IdInv, NEW d \in Device, NEW e \in Event, Accepts(d, e),
         TraceAt(d), ShowAt(d)
  PROVE  ShowAt(d)'
<1> SUFFICES ASSUME ~late'[d] PROVE ShowAt(d)'
  BY DEF ShowAt
<1>1. /\ log'[d] = Append(log[d], e) /\ emitting[d] = NoEvent /\ emitting'[d] = e
      /\ log[d] \in Seq(Event) /\ e # NoEvent
  BY AcceptedLast, EventTyped DEF Accepts, TypeOK
<1>2. /\ UNCHANGED copy /\ UNCHANGED since /\ UNCHANGED shown /\ UNCHANGED unseeded
      /\ ~late[d]
      /\ phase'[d] = "loaded" => phase[d] = "loaded"
      /\ phase'[d] \in {"joining", "live"} => phase[d] \in {"joining", "live"}
  <2>1. CASE AcceptLocal(d) \/ Deliver(d)
    BY <2>1 DEF AcceptLocal, Deliver
  <2>2. CASE ResolveBootstrap(d)
    <3>1. late[d] => late'[d]
      BY <2>2 DEF ResolveBootstrap, TypeOK
    <3>2. phase[d] \in {"joining", "live"} /\ phase'[d] = "live"
      BY <2>2 DEF ResolveBootstrap, TypeOK
    <3> QED
      BY <2>2, <3>1, <3>2 DEF ResolveBootstrap
  <2> QED
    BY <2>1, <2>2 DEF Accepts
<1>3. e.id # BootstrapId \/ log[d] = <<>>
  <2>1. CASE AcceptLocal(d) /\ e = Head(queue[d])
    <3>1. queue[d] \in Seq(Event) /\ queue[d] # <<>>
      BY <2>1 DEF AcceptLocal, TypeOK
    <3>2. e.id \in Ids(queue[d])
      BY <2>1, <3>1, HeadAndTail
    <3> QED
      BY <3>2 DEF IdInv, BootstrapId
  <2>2. CASE e.id \in Ids(bus)
    BY <2>2 DEF IdInv, BootstrapId
  <2> QED
    BY <2>1, <2>2 DEF Accepts
<1>4. phase[d] = "loaded" => e.id \notin Ids(copy[d])
  <2> SUFFICES ASSUME phase[d] = "loaded" PROVE e.id \notin Ids(copy[d])
    OBVIOUS
  <2>1. AcceptLocal(d) /\ e = Head(queue[d])
    BY DEF Accepts, Deliver, ResolveBootstrap
  <2>2. queue[d] \in Seq(Event) /\ queue[d] # <<>>
    BY <2>1 DEF AcceptLocal, TypeOK
  <2>3. e.id \in Ids(queue[d])
    BY <2>1, <2>2, HeadAndTail
  <2>4. e.id \notin Ids(log[d])
    BY <2>3 DEF IdInv
  <2> QED
    BY <2>4 DEF TraceAt
<1>5. Replayed(log'[d]) = ApplyEvent(Replayed(log[d]), e)
  BY <1>1, <1>3, ReplayedOfAppend
<1>6. ApplyEvent(Replayed(log'[d]), e) = Replayed(log'[d])
  BY <1>1, <1>5, ReplayedTyped, AgainChangesNothing
<1>7. Rebuilt(d)' = Rebuilt(d)
  BY <1>2 DEF Rebuilt
<1>8. \A x : ToShow(d, x) => ToShow(d, x)'
  BY <1>1, <1>5 DEF ToShow
<1>9. phase[d] = "loaded" => ToShow(d, Rebuilt(d))
  BY <1>1, <1>2 DEF ShowAt, Rebuilding
<1>10. phase'[d] = "loaded" => Rebuilding(d)'
  <2> SUFFICES ASSUME phase'[d] = "loaded" PROVE Rebuilding(d)'
    OBVIOUS
  <2>1. ApplyEvent(Rebuilt(d), e) = Replayed(log'[d])
    BY <1>1, <1>2, <1>5, <1>9 DEF ToShow
  <2>2. emitting'[d].id \notin Ids(copy'[d])
    BY <1>1, <1>2, <1>4
  <2> QED
    BY <1>1, <1>7, <2>1, <2>2 DEF Rebuilding, ToShow
<1>11. Again(d)'
  BY <1>1, <1>6 DEF Again
<1>12. phase'[d] \in {"joining", "live"} /\ ~unseeded'[d] => ToShow(d, shown[d])'
  <2> SUFFICES ASSUME phase'[d] \in {"joining", "live"}, ~unseeded'[d]
               PROVE  ToShow(d, shown[d])'
    OBVIOUS
  <2>1. ToShow(d, shown[d])
    BY <1>2 DEF ShowAt
  <2>2. ApplyEvent(shown'[d], e) = Replayed(log'[d])
    BY <1>1, <1>2, <1>5, <2>1 DEF ToShow
  <2> QED
    BY <1>1, <2>2 DEF ToShow
<1> QED
  BY <1>10, <1>11, <1>12 DEF ShowAt

LEMMA HookTraces ==
  ASSUME TypeOK, NEW d \in Device, Hook(d), TraceAt(d)
  PROVE  TraceAt(d)'
<1>1. log'[d] = log[d]
  BY DEF Hook, Emit, Mount, LoadLog, Rebuild, LoadFails, Reload
<1>2. CASE Emit(d)
  <2>1. emitting[d] \in Event /\ since[d] \in Seq(Event) /\ emitting[d].id \in Ids(log[d])
    BY <1>2 DEF Emit, TypeOK, TraceAt
  <2>2. Ids(Append(since[d], emitting[d])) \subseteq Ids(log[d])
    BY <2>1, IdsOfAppend DEF TraceAt
  <2>3. since'[d] = since[d] \/ since'[d] = Append(since[d], emitting[d])
    BY <1>2 DEF Emit, TypeOK
  <2>4. copy'[d] = copy[d] /\ emitting'[d] = NoEvent
    BY <1>2 DEF Emit, TypeOK
  <2> QED
    BY <1>1, <2>2, <2>3, <2>4 DEF TraceAt
<1>3. CASE Mount(d)
  BY <1>3 DEF Mount, TraceAt
<1>4. CASE LoadLog(d)
  <2>1. copy'[d] = log[d] /\ UNCHANGED since /\ UNCHANGED emitting
    BY <1>4 DEF LoadLog, TypeOK
  <2> QED
    BY <1>1, <2>1 DEF TraceAt
<1>5. CASE Rebuild(d) \/ LoadFails(d)
  <2>1. copy'[d] = <<>> /\ since'[d] = <<>> /\ UNCHANGED emitting
    BY <1>5 DEF Rebuild, LoadFails, StartEngine, TypeOK
  <2> QED
    BY <1>1, <2>1, IdsOfNone DEF TraceAt
<1>6. CASE Reload(d)
  <2>1. copy'[d] = <<>> /\ since'[d] = <<>> /\ emitting'[d] = NoEvent
    BY <1>6 DEF Reload, TypeOK
  <2> QED
    BY <1>1, <2>1, IdsOfNone DEF TraceAt
<1> QED
  BY <1>2, <1>3, <1>4, <1>5, <1>6 DEF Hook

\* foldAccepted: what is pending is folded, and is kept for a rebuild in flight.
LEMMA EmitShows ==
  ASSUME TypeOK, NEW d \in Device, Emit(d), TraceAt(d), ShowAt(d)
  PROVE  ShowAt(d)'
<1> SUFFICES ASSUME ~late'[d] PROVE ShowAt(d)'
  BY DEF ShowAt
<1> DEFINE e == emitting[d]
<1>1. e \in Event /\ e # NoEvent /\ since[d] \in Seq(Event)
  BY DEF Emit, TypeOK
<1>2. /\ log'[d] = log[d] /\ copy'[d] = copy[d] /\ emitting'[d] = NoEvent
      /\ phase'[d] = phase[d] /\ unseeded'[d] = unseeded[d] /\ ~late[d]
      /\ shown'[d] = ApplyEvent(shown[d], e)
      /\ phase[d] = "loaded" => since'[d] = Append(since[d], e)
  BY DEF Emit, TypeOK
<1>3. Again(d)'
  BY <1>2 DEF Again
<1>4. phase'[d] \in {"joining", "live"} /\ ~unseeded'[d] => ToShow(d, shown[d])'
  BY <1>1, <1>2 DEF ShowAt, ToShow
<1>5. phase'[d] = "loaded" => Rebuilding(d)'
  <2> SUFFICES ASSUME phase[d] = "loaded" PROVE Rebuilding(d)'
    BY <1>2
  <2>1. Replayed(copy[d]) \in Shown
    BY ReplayedTyped DEF TypeOK
  <2>2. Rebuilt(d)' = Turn(Ids(copy[d]), Rebuilt(d), e)
    BY <1>1, <1>2, <2>1, FoldOfAppend DEF Rebuilt
  <2>3. Rebuilding(d)
    BY <1>2 DEF ShowAt
  <2>4. Rebuilt(d)' = Replayed(log[d])
    BY <1>1, <2>2, <2>3 DEF Rebuilding, ToShow, Turn
  <2> QED
    BY <1>2, <2>4 DEF Rebuilding, ToShow
<1> QED
  BY <1>3, <1>4, <1>5 DEF ShowAt

\* The copy has all that was emitted before it was read, so none is replayed.
LEMMA LoadShows ==
  ASSUME TypeOK, NEW d \in Device, LoadLog(d), TraceAt(d), ShowAt(d)
  PROVE  ShowAt(d)'
<1>1. /\ copy'[d] = log[d] /\ log'[d] = log[d] /\ since'[d] = since[d]
      /\ emitting'[d] = emitting[d] /\ late'[d] = late[d] /\ phase'[d] = "loaded"
      /\ log[d] \in Seq(Event) /\ since[d] \in Seq(Event)
  BY DEF LoadLog, TypeOK
<1>2. Rebuilt(d)' = Folded(Ids(log[d]), Replayed(log[d]), since[d])
  BY <1>1 DEF Rebuilt
<1>3. Rebuilt(d)' = Replayed(log[d])
  BY <1>1, <1>2, ReplayedTyped, FoldSkips DEF TraceAt
<1>4. Rebuilding(d)'
  BY <1>1, <1>3 DEF Rebuilding, ToShow, TraceAt
<1>5. ~late'[d] => Again(d)'
  BY <1>1 DEF ShowAt, Again
<1> QED
  BY <1>1, <1>4, <1>5 DEF ShowAt

LEMMA RebuildShows ==
  ASSUME TypeOK, NEW d \in Device, Rebuild(d), ShowAt(d)
  PROVE  ShowAt(d)'
<1> SUFFICES ASSUME ~late'[d] PROVE ShowAt(d)'
  BY DEF ShowAt
<1>1. /\ phase[d] = "loaded" /\ phase'[d] \in {"joining", "live"}
      /\ shown'[d] = Rebuilt(d)
      /\ log'[d] = log[d] /\ emitting'[d] = emitting[d] /\ ~late[d]
  BY DEF Rebuild, StartEngine, TypeOK
<1>2. Again(d) /\ Rebuilding(d)
  BY <1>1 DEF ShowAt
<1>3. ToShow(d, Rebuilt(d))
  BY <1>2 DEF Rebuilding, Again, ToShow
<1>4. ToShow(d, shown[d])'
  BY <1>1, <1>3 DEF ToShow
<1>5. Again(d)'
  BY <1>1, <1>2 DEF Again
<1> QED
  BY <1>1, <1>4, <1>5 DEF ShowAt

LEMMA HookShows ==
  ASSUME TypeOK, NEW d \in Device, Hook(d), TraceAt(d), ShowAt(d)
  PROVE  ShowAt(d)'
<1>1. CASE Mount(d)
  <2>1. /\ phase'[d] = "loading" /\ log'[d] = log[d] /\ emitting'[d] = emitting[d]
        /\ late'[d] = late[d]
    BY <1>1 DEF Mount, TypeOK
  <2> QED
    BY <2>1 DEF ShowAt, Again
<1>2. CASE LoadFails(d)
  <2>1. /\ phase'[d] \in {"joining", "live"} /\ unseeded'[d] /\ log'[d] = log[d]
        /\ emitting'[d] = emitting[d] /\ late'[d] = late[d]
    BY <1>2 DEF LoadFails, StartEngine, TypeOK
  <2> QED
    BY <2>1 DEF ShowAt, Again
<1>3. CASE Reload(d)
  <2>1. phase'[d] = "unmounted" /\ emitting'[d] = NoEvent
    BY <1>3 DEF Reload, TypeOK
  <2> QED
    BY <2>1 DEF ShowAt, Again
<1> QED
  BY <1>1, <1>2, <1>3, EmitShows, LoadShows, RebuildShows DEF Hook

BoardInv == TypeOK /\ IdInv /\ TraceInv /\ ShowInv

LEMMA InitBoard == Init => BoardInv
<1> SUFFICES ASSUME Init PROVE BoardInv
  OBVIOUS
<1>1. ShowInv
  <2> SUFFICES ASSUME NEW d \in Device PROVE ShowAt(d)
    BY DEF ShowInv
  <2>1. emitting[d] = NoEvent /\ phase[d] # "loaded" /\ shown[d] = NoTask /\ log[d] = <<>>
    BY DEF Init
  <2> QED
    BY <2>1, ReplayedOfNone DEF ShowAt, Again, ToShow
<1> QED
  BY <1>1, InitTyped, InitIds DEF BoardInv

LEMMA NextBoard == BoardInv /\ [Next]_vars => BoardInv'
<1> SUFFICES ASSUME BoardInv, [Next]_vars PROVE BoardInv'
  OBVIOUS
<1>1. TypeOK /\ IdInv /\ (\A d \in Device : TraceAt(d) /\ ShowAt(d))
  BY DEF BoardInv, TraceInv, TraceAt, ShowInv
<1>2. TypeOK' /\ IdInv'
  BY <1>1, NextTyped, NextIds
<1>3. \A d \in Device : TraceAt(d)' /\ ShowAt(d)'
  <2>1. CASE UNCHANGED vars
    <3>1. \A d \in Device : Still(d)
      BY <2>1 DEF vars, Still
    <3> QED
      BY <1>1, <3>1, StillTraces, StillShows
  <2>2. ASSUME NEW d \in Device, Edits(d) \/ Receives(d) \/ Hook(d)
        PROVE  \A c \in Device : TraceAt(c)' /\ ShowAt(c)'
    <3>1. ASSUME NEW c \in Device, Still(c) PROVE TraceAt(c)' /\ ShowAt(c)'
      BY <1>1, <3>1, StillTraces, StillShows
    <3>2. CASE Hook(d)
      BY <1>1, <2>2, <3>1, <3>2, StepsOfADevice, HookTraces, HookShows
    <3>3. ASSUME NEW e \in Event, Accepts(d, e) PROVE TraceAt(d)' /\ ShowAt(d)'
      BY <1>1, <3>3, AcceptsTraces, AcceptsShows
    <3>4. Still(d) \/ Hook(d) \/ \E e \in Event : Accepts(d, e)
      BY <1>1, <2>2, StepsOfADevice
    <3>5. \A c \in Device : c # d => Still(c)
      BY <1>1, <2>2, StepsOfADevice
    <3> QED
      BY <3>1, <3>2, <3>3, <3>4, <3>5
  <2> QED
    BY <2>1, <2>2 DEF Next
<1> QED
  BY <1>2, <1>3 DEF BoardInv, TraceInv, TraceAt, ShowInv

LEMMA BoardInvariant == Spec => []BoardInv
<1> QED
  BY InitBoard, NextBoard, PTL DEF Spec

\* R-INV-4 (react-engine-hooks.ts:343-480): for any number of devices, edits and
\* reloads, a seeded device shows what a rebuild from its accepted log would show,
\* whatever was accepted before, during and after the load that seeded it.
THEOREM SeededShowsTheLog == Spec => []ShowsTheLog
<1>1. BoardInv => ShowsTheLog
  BY DEF BoardInv, ShowInv, ShowAt, ToShow, ShowsTheLog, Seeded
<1> QED
  BY <1>1, BoardInvariant, PTL

----------------------------------------------------------------------------
(* Convergence.  What a fold of a create, or of a snapshot, and edits of one *)
(* kind ends with depends on which edits there were, not on their order.     *)

Created == edits[1].task

\* The task with one field replaced by edit i.
Written(i, m) == [wrote |-> [Created.wrote EXCEPT ![m] = i], key |-> edits[i].key]

\* Edit i of S is the one that a fold meets first, of those with its key.
FirstOfKey(i, S) == \A j \in S \ {1} : edits[j].key = edits[i].key => i <= j

\* y is the task after the edits S, all of kind m: it is as created, or as the one
\* of them left it that none of them beats.
Result(y, S, m) ==
  /\ \/ y = Created
     \/ \E i \in S \ {1} : /\ y = Written(i, m) /\ WinsOver(edits[i].key, Created.key)
                           /\ FirstOfKey(i, S)
  /\ ~WinsOver(Created.key, y.key)
  /\ \A i \in S \ {1} : ~WinsOver(edits[i].key, y.key)

\* The edits S are edits of kind m of a task that has been created.
OneKind(S, m) ==
  /\ S \subseteq DOMAIN edits /\ 1 \in S
  /\ Created \in Task /\ m \in FieldKind
  /\ \A i \in S \ {1} : edits[i] \in MutationEvent /\ edits[i].id = i /\ edits[i].kind = m

\* Edit i is among S already, or comes behind those of S with its key.
Due(i, S) == i \in S \/ \A j \in S \ {1} : edits[j].key = edits[i].key => j <= i

LEMMA WrittenTyped ==
  ASSUME NEW S, NEW m, OneKind(S, m), NEW i \in S \ {1}
  PROVE  /\ Written(i, m) \in Task /\ Written(i, m).key = edits[i].key
         /\ edits[i].key \in Key /\ i \in Nat /\ Created.key \in Key
         /\ Created.wrote \in [FieldKind -> Nat]
<1>1. edits[i] \in MutationEvent /\ edits[i].id = i
  BY DEF OneKind
<1>2. edits[i].key \in Key /\ i \in Nat
  BY <1>1, MutationIsNoCreate
<1>3. Created.wrote \in [FieldKind -> Nat] /\ Created.key \in Key
  BY DEF OneKind, Task, FieldKind
<1>4. [Created.wrote EXCEPT ![m] = i] \in [FieldKind -> Nat]
  BY <1>2, <1>3 DEF OneKind
<1> QED
  BY <1>2, <1>3, <1>4 DEF Written, Task, FieldKind

LEMMA ResultTyped ==
  ASSUME NEW S, NEW m, OneKind(S, m), NEW y, Result(y, S, m)
  PROVE  y \in Task /\ y.key \in Key
<1>1. y \in Task
  BY WrittenTyped DEF Result, OneKind
<1> QED
  BY <1>1 DEF Task

LEMMA ResultOfCreate ==
  ASSUME NEW m, OneKind({1}, m)
  PROVE  Result(Created, {1}, m)
<1>1. Created.key \in Key
  BY DEF OneKind, Task
<1> QED
  BY <1>1, TieBreakIsAcyclic DEF Result

\* One more edit, whether or not it was among those before.
LEMMA ResultOfEdit ==
  ASSUME NEW S, NEW m, NEW T, OneKind(T, m), S \subseteq T, 1 \in S, NEW i \in T \ {1},
         NEW y, Result(y, S, m), Due(i, S)
  PROVE  Result(ApplyEvent(y, edits[i]), S \union {i}, m)
<1>1. OneKind(S, m)
  BY DEF OneKind
<1>2. y \in Task /\ y.key \in Key
  BY <1>1, ResultTyped
<1> DEFINE e == edits[i]
<1>3. /\ e \in MutationEvent /\ e.kind = m /\ e.id = i /\ e.kind # "task.deleted"
      /\ e.key \in Key /\ Created.key \in Key
  BY WrittenTyped DEF OneKind, FieldKind
<1>4. \A j \in S \ {1} : edits[j].key \in Key
  BY <1>1, WrittenTyped
<1> HIDE DEF e
<1>5. CASE ~WinsOver(e.key, y.key)
  <2>1. ApplyEvent(y, e) = y
    BY <1>2, <1>3, <1>5, ApplyMutation
  <2>2. y = Created \/ \E k \in (S \union {i}) \ {1} :
          /\ y = Written(k, m) /\ WinsOver(edits[k].key, Created.key)
          /\ FirstOfKey(k, S \union {i})
    <3> SUFFICES ASSUME NEW k \in S \ {1}, y = Written(k, m),
                        WinsOver(edits[k].key, Created.key), FirstOfKey(k, S)
                 PROVE  FirstOfKey(k, S \union {i})
      BY DEF Result
    <3> QED
      BY DEF FirstOfKey, Due
  <2> QED
    BY <1>5, <2>1, <2>2 DEF Result, e
<1>6. CASE WinsOver(e.key, y.key)
  <2> DEFINE z == Written(i, m)
  <2>1. ApplyEvent(y, e) = [wrote |-> [y.wrote EXCEPT ![m] = i], key |-> e.key]
    BY <1>2, <1>3, <1>6, ApplyMutation
  <2>2. [y.wrote EXCEPT ![m] = i] = [Created.wrote EXCEPT ![m] = i]
    <3>1. CASE y = Created
      BY <3>1
    <3>2. ASSUME NEW j \in S \ {1}, y = Written(j, m)
          PROVE  [y.wrote EXCEPT ![m] = i] = [Created.wrote EXCEPT ![m] = i]
      <4>1. y.wrote = [Created.wrote EXCEPT ![m] = j]
        BY <3>2 DEF Written
      <4>2. Created.wrote \in [FieldKind -> Nat] /\ m \in FieldKind
        BY WrittenTyped DEF OneKind
      <4> QED
        BY <4>1, <4>2
    <3> QED
      BY <3>1, <3>2 DEF Result
  <2>3. ApplyEvent(y, e) = z /\ z.key = e.key
    BY <2>1, <2>2 DEF Written, e
  <2>4. WinsOver(e.key, Created.key)
    <3>1. CASE y = Created
      BY <1>6, <3>1
    <3>2. ASSUME NEW j \in S \ {1}, y = Written(j, m), WinsOver(edits[j].key, Created.key)
          PROVE  WinsOver(e.key, Created.key)
      <4>1. y.key = edits[j].key
        BY <3>2 DEF Written
      <4> QED
        BY <1>2, <1>3, <1>6, <3>2, <4>1, TieBreakIsAcyclic
    <3> QED
      BY <3>1, <3>2 DEF Result
  <2>5. ~WinsOver(Created.key, e.key)
    BY <1>3, <2>4, TieBreakIsAcyclic
  <2>6. ~WinsOver(e.key, e.key)
    BY <1>3, TieBreakIsAcyclic
  <2>7. ASSUME NEW j \in S \ {1} PROVE ~WinsOver(edits[j].key, e.key)
    <3>1. ~WinsOver(edits[j].key, y.key) /\ edits[j].key \in Key
      BY <1>4 DEF Result
    <3> QED
      BY <1>2, <1>3, <1>6, <3>1, TieBreakIsAcyclic
  <2> HIDE DEF z
  <2>8. Result(z, S \union {i}, m)
    <3>1. FirstOfKey(i, S \union {i})
      <4>1. \A j \in S \ {1} : edits[j].key # edits[i].key
        BY <1>6 DEF Result, e
      <4>2. i \in Nat /\ i <= i
        BY WrittenTyped
      <4> QED
        BY <4>1, <4>2 DEF FirstOfKey
    <3>2. \E k \in (S \union {i}) \ {1} :
            /\ z = Written(k, m) /\ WinsOver(edits[k].key, Created.key)
            /\ FirstOfKey(k, S \union {i})
      BY <2>4, <3>1 DEF z, e
    <3> QED
      BY <2>3, <2>5, <2>6, <2>7, <3>2 DEF Result, e
  <2> QED
    BY <2>3, <2>8 DEF e
<1> QED
  BY <1>5, <1>6 DEF e

\* The create again, of a task that is there.
LEMMA CreateAgain ==
  ASSUME NEW y \in Task, NEW e, e.kind = "task.created"
  PROVE  ApplyEvent(y, e) = y
BY NoTaskIsNone DEF ApplyEvent

\* The edits settle what the task is.
LEMMA ResultIsUnique ==
  ASSUME NEW S, NEW m, OneKind(S, m),
         NEW y, NEW z, Result(y, S, m), Result(z, S, m)
  PROVE  y = z
<1>1. y.key \in Key /\ z.key \in Key /\ Created.key \in Key
  BY ResultTyped DEF OneKind, Task
<1>2. ASSUME NEW v, NEW w, Result(v, S, m), Result(w, S, m) PROVE ~WinsOver(v.key, w.key)
  <2>1. CASE v = Created
    BY <1>2, <2>1 DEF Result
  <2>2. ASSUME NEW i \in S \ {1}, v = Written(i, m) PROVE ~WinsOver(v.key, w.key)
    BY <1>2, <2>2 DEF Result, Written
  <2> QED
    BY <1>2, <2>1, <2>2 DEF Result
<1>3. y.key = z.key
  BY <1>1, <1>2, TieBreakDecides
<1>4. ASSUME NEW v, NEW w, Result(v, S, m), Result(w, S, m), v.key = w.key,
             NEW i \in S \ {1}, v = Written(i, m), WinsOver(edits[i].key, Created.key),
             FirstOfKey(i, S)
      PROVE  v = w
  <2>1. w # Created
    <3> SUFFICES ASSUME w = Created PROVE FALSE
      OBVIOUS
    <3>1. Created.key = edits[i].key
      BY <1>4 DEF Written
    <3> QED
      BY <1>1, <1>4, <3>1, TieBreakIsAcyclic
  <2>2. PICK j \in S \ {1} : w = Written(j, m) /\ FirstOfKey(j, S)
    BY <1>4, <2>1 DEF Result
  <2>3. edits[i].key = edits[j].key
    BY <1>4, <2>2 DEF Written
  <2>4. i = j
    <3>1. i <= j /\ j <= i
      BY <1>4, <2>2, <2>3 DEF FirstOfKey
    <3>2. i \in Nat /\ j \in Nat
      BY WrittenTyped
    <3> QED
      BY ONLY <3>1, <3>2
  <2> QED
    BY <1>4, <2>2, <2>4
<1> QED
  BY <1>3, <1>4 DEF Result

\* A list, one more element at a time.
Prefix(s, n) == SubSeq(s, 1, n)

LEMMA PrefixSteps ==
  ASSUME NEW s \in Seq(Event), NEW n \in 1 .. Len(s)
  PROVE  /\ Prefix(s, n - 1) \in Seq(Event) /\ s[n] \in Event
         /\ Prefix(s, n) = Append(Prefix(s, n - 1), s[n])
<1>1. n \in Nat /\ n - 1 \in Nat /\ n - 1 <= Len(s) /\ Len(s) \in Nat
  OBVIOUS
<1>2. /\ Prefix(s, n - 1) \in Seq(Event) /\ Len(Prefix(s, n - 1)) = n - 1
      /\ \A i \in 1 .. n - 1 : Prefix(s, n - 1)[i] = s[i]
  BY <1>1 DEF Prefix
<1>3. /\ Prefix(s, n) \in Seq(Event) /\ Len(Prefix(s, n)) = n
      /\ \A i \in 1 .. n : Prefix(s, n)[i] = s[i]
  BY <1>1 DEF Prefix
<1>4. s[n] \in Event
  OBVIOUS
<1> QED
  BY <1>1, <1>2, <1>3, <1>4

LEMMA PrefixEnds ==
  ASSUME NEW s \in Seq(Event)
  PROVE  Prefix(s, 0) = <<>> /\ Prefix(s, Len(s)) = s
BY DEF Prefix

----------------------------------------------------------------------------
(* Where the events of a list come from. *)

\* Event e is the edit of its id in the list of edits.
IsOf(e, list) == e.id \in DOMAIN list /\ list[e.id] = e

AreOf(s, list) == \A p \in DOMAIN s : IsOf(s[p], list)

Bootstrap(d) == [id |-> BootstrapId, kind |-> "task.created", task |-> snapshot[d]]

\* What a device holds was dispatched by someone, or is its bootstrap.
OriginAt(d) ==
  /\ AreOf(queue[d], edits) /\ AreOf(unsent[d], edits)
  /\ \A p \in DOMAIN log[d] :
       IsOf(log[d][p], edits) \/ (snapshot[d] # NoTask /\ log[d][p] = Bootstrap(d))

OriginInv ==
  /\ \A i \in DOMAIN edits : edits[i].id = i /\ (edits[i].kind = "task.created" <=> i = 1)
  /\ AreOf(bus, edits)
  /\ \A d \in Device : OriginAt(d)

\* Before the task is created nobody has anything.
Nothing ==
  \A d \in Device :
    /\ log[d] = <<>> /\ copy[d] = <<>> /\ since[d] = <<>>
    /\ snapshot[d] = NoTask /\ shown[d] = NoTask /\ emitting[d] = NoEvent

StartInv == edits = <<>> => Nothing

\* A snapshot is what the founder's log came to at some time, and the founder
\* itself has none.
SnapAt(d) ==
  snapshot[d] # NoTask =>
    /\ invite[d] = "synced"
    /\ \E n \in 0 .. Len(log[Founder]) :
         /\ snapshot[d] = Replayed(Prefix(log[Founder], n))
         /\ covers[d] = Ids(Prefix(log[Founder], n))

SnapInv ==
  /\ bootstrapped[Founder] /\ BootstrapId \notin Ids(log[Founder])
  /\ \A d \in Device : SnapAt(d)

LEMMA AppendElements ==
  ASSUME NEW s \in Seq(Event), NEW e \in Event
  PROVE  /\ Append(s, e) \in Seq(Event) /\ Len(s) \in Nat
         /\ Len(s) + 1 \in DOMAIN Append(s, e) /\ Append(s, e)[Len(s) + 1] = e
         /\ \A p \in DOMAIN s : p \in DOMAIN Append(s, e) /\ Append(s, e)[p] = s[p]
                                /\ p \in Nat /\ p < Len(s) + 1
         /\ \A p \in DOMAIN Append(s, e) : p \in DOMAIN s \/ p = Len(s) + 1
OBVIOUS

LEMMA TailElements ==
  ASSUME NEW s \in Seq(Event), s # <<>>
  PROVE  /\ Tail(s) \in Seq(Event) /\ 1 \in DOMAIN s /\ Head(s) = s[1] /\ Head(s) \in Event
         /\ \A p \in DOMAIN Tail(s) : p \in Nat /\ 1 < p + 1 /\ p + 1 \in DOMAIN s
                                      /\ Tail(s)[p] = s[p + 1]
OBVIOUS

LEMMA OfAppend ==
  ASSUME NEW list, NEW s \in Seq(Event), NEW e \in Event, AreOf(s, list), IsOf(e, list)
  PROVE  AreOf(Append(s, e), list)
BY AppendElements DEF AreOf

LEMMA OfTail ==
  ASSUME NEW list, NEW s \in Seq(Event), s # <<>>, AreOf(s, list)
  PROVE  AreOf(Tail(s), list) /\ IsOf(Head(s), list)
BY TailElements DEF AreOf

LEMMA OfLonger ==
  ASSUME NEW list \in Seq(Event), NEW x \in Event, NEW e, IsOf(e, list)
  PROVE  IsOf(e, Append(list, x))
BY AppendElements DEF IsOf

LEMMA OfNone == \A list : AreOf(<<>>, list)
BY DEF AreOf

LEMMA InitFlow == Init => OriginInv /\ StartInv /\ SnapInv
<1> SUFFICES ASSUME Init PROVE OriginInv /\ StartInv /\ SnapInv
  OBVIOUS
<1>1. OriginInv
  BY OfNone DEF Init, OriginInv, OriginAt
<1>2. StartInv
  BY DEF Init, StartInv, Nothing
<1>3. SnapInv
  BY BoardAssumption, IdsOfNone DEF Init, SnapInv, SnapAt
<1> QED
  BY <1>1, <1>2, <1>3

\* The lists of a device, which a step leaves as they are, but for what a reload
\* drops and a snapshot where there was none.
Holds(d) ==
  /\ queue'[d] = queue[d] \/ queue'[d] = <<>>
  /\ unsent'[d] = unsent[d] \/ unsent'[d] = <<>>
  /\ log'[d] = log[d]
  /\ snapshot'[d] = snapshot[d] \/ snapshot[d] = NoTask

LEMMA HoldsOrigin ==
  ASSUME UNCHANGED edits, NEW d \in Device, OriginAt(d), Holds(d)
  PROVE  OriginAt(d)'
<1>1. AreOf(queue'[d], edits) /\ AreOf(unsent'[d], edits)
  BY OfNone DEF OriginAt, Holds
<1>2. \A p \in DOMAIN log'[d] :
        IsOf(log'[d][p], edits) \/ (snapshot'[d] # NoTask /\ log'[d][p] = Bootstrap(d)')
  BY DEF OriginAt, Holds, Bootstrap
<1> QED
  BY <1>1, <1>2 DEF OriginAt

LEMMA EnqueueOrigin ==
  ASSUME TypeOK, OriginInv, NEW d \in Device, NEW e \in Event, e.id = Len(edits) + 1,
         e.kind = "task.created" <=> edits = <<>>, Enqueue(d, e)
  PROVE  OriginInv'
<1> DEFINE list == Append(edits, e)
<1>1. edits \in Seq(Event) /\ \A c \in Device : queue[c] \in Seq(Event)
  BY DEF TypeOK
<1>2. /\ edits' = list /\ UNCHANGED bus /\ UNCHANGED unsent /\ UNCHANGED log
      /\ UNCHANGED snapshot /\ queue'[d] = Append(queue[d], e)
      /\ \A c \in Device : c # d => queue'[c] = queue[c]
  BY DEF Enqueue, TypeOK
<1>3. \A f : IsOf(f, edits) => IsOf(f, list)
  BY <1>1, OfLonger
<1>4. IsOf(e, list)
  BY <1>1, AppendElements DEF IsOf
<1>5. \A i \in DOMAIN list : list[i].id = i /\ (list[i].kind = "task.created" <=> i = 1)
  <2>1. \A i \in DOMAIN edits : list[i].id = i /\ (list[i].kind = "task.created" <=> i = 1)
    BY <1>1, AppendElements DEF OriginInv
  <2>2. list[Len(edits) + 1] = e /\ (Len(edits) + 1 = 1 <=> edits = <<>>)
    BY <1>1
  <2> QED
    BY <1>1, <2>1, <2>2, AppendElements
<1> HIDE DEF list
<1>6. \A s : AreOf(s, edits) => AreOf(s, list)
  BY <1>3 DEF AreOf
<1>7. AreOf(Append(queue[d], e), list)
  <2>1. AreOf(queue[d], list)
    BY <1>6 DEF OriginInv, OriginAt
  <2> QED
    BY <1>1, <1>4, <2>1, OfAppend
<1>8. \A c \in Device : OriginAt(c)'
  <2> TAKE c \in Device
  <2>1. OriginAt(c)
    BY DEF OriginInv
  <2>2. AreOf(queue'[c], list) /\ AreOf(unsent'[c], list)
    BY <1>2, <1>6, <1>7, <2>1 DEF OriginAt
  <2>3. \A p \in DOMAIN log'[c] :
          IsOf(log'[c][p], list) \/ (snapshot'[c] # NoTask /\ log'[c][p] = Bootstrap(c)')
    BY <1>2, <1>3, <2>1 DEF OriginAt, Bootstrap
  <2> QED
    BY <1>2, <2>2, <2>3 DEF OriginAt
<1>9. AreOf(bus', list)
  BY <1>2, <1>6 DEF OriginInv
<1> QED
  BY <1>2, <1>5, <1>8, <1>9 DEF OriginInv

LEMMA AcceptLocalOrigin ==
  ASSUME TypeOK, OriginInv, NEW d \in Device, AcceptLocal(d)
  PROVE  OriginInv'
<1> DEFINE q == queue[d]
           e == Head(q)
<1>1. q \in Seq(Event) /\ q # <<>> /\ log[d] \in Seq(Event) /\ unsent[d] \in Seq(Event)
  BY DEF AcceptLocal, TypeOK
<1>2. /\ queue'[d] = Tail(q) /\ unsent'[d] = Append(unsent[d], e)
      /\ log'[d] = Append(log[d], e)
      /\ \A c \in Device : c # d =>
           queue'[c] = queue[c] /\ unsent'[c] = unsent[c] /\ log'[c] = log[c]
  BY DEF AcceptLocal, Accept, TypeOK
<1>3. UNCHANGED edits /\ UNCHANGED bus /\ UNCHANGED snapshot
  BY DEF AcceptLocal, group
<1>4. AreOf(q, edits) /\ AreOf(unsent[d], edits)
  BY DEF OriginInv, OriginAt
<1> HIDE DEF e
<1>5. e \in Event /\ IsOf(e, edits) /\ AreOf(Tail(q), edits)
  BY <1>1, <1>4, OfTail, TailElements DEF e
<1>6. AreOf(Append(unsent[d], e), edits)
  BY <1>1, <1>4, <1>5, OfAppend
<1>7. \A p \in DOMAIN log'[d] :
        IsOf(log'[d][p], edits) \/ (snapshot[d] # NoTask /\ log'[d][p] = Bootstrap(d))
  BY <1>1, <1>2, <1>5, AppendElements DEF OriginInv, OriginAt
<1>8. \A c \in Device : OriginAt(c)'
  <2> TAKE c \in Device
  <2>1. CASE c = d
    BY <1>2, <1>3, <1>5, <1>6, <1>7, <2>1 DEF OriginAt, Bootstrap
  <2>2. CASE c # d
    <3>1. OriginAt(c) /\ Holds(c)
      BY <1>2, <1>3, <2>2 DEF OriginInv, Holds
    <3> QED
      BY <1>3, <3>1, HoldsOrigin
  <2> QED
    BY <2>1, <2>2
<1> QED
  BY <1>3, <1>8 DEF OriginInv

LEMMA SendOrigin ==
  ASSUME TypeOK, OriginInv, NEW d \in Device, Send(d)
  PROVE  OriginInv'
<1> DEFINE u == unsent[d]
           e == Head(u)
<1>1. u \in Seq(Event) /\ u # <<>> /\ bus \in Seq(Event) /\ AreOf(u, edits) /\ AreOf(bus, edits)
  BY DEF Send, TypeOK, OriginInv, OriginAt
<1>2. bus' = Append(bus, e) /\ unsent'[d] = Tail(u)
      /\ \A c \in Device : c # d => unsent'[c] = unsent[c]
  BY DEF Send, TypeOK
<1>3. UNCHANGED edits /\ UNCHANGED log /\ UNCHANGED queue /\ UNCHANGED snapshot
  BY DEF Send, durable
<1> HIDE DEF e
<1>4. e \in Event /\ IsOf(e, edits) /\ AreOf(Tail(u), edits)
  BY <1>1, OfTail, TailElements DEF e
<1>5. AreOf(bus', edits)
  BY <1>1, <1>2, <1>4, OfAppend
<1>6. \A c \in Device : OriginAt(c)'
  BY <1>2, <1>3, <1>4 DEF OriginInv, OriginAt, Bootstrap
<1> QED
  BY <1>3, <1>5, <1>6 DEF OriginInv

\* What a device accepts from the group is an edit or its bootstrap.
LEMMA TakenOrigin ==
  ASSUME TypeOK, OriginInv, NEW d \in Device, NEW e \in Event, Accept(d, e),
         UNCHANGED edits, UNCHANGED bus, UNCHANGED queue, UNCHANGED unsent,
         UNCHANGED snapshot, IsOf(e, edits) \/ (snapshot[d] # NoTask /\ e = Bootstrap(d))
  PROVE  OriginInv'
<1>1. log[d] \in Seq(Event) /\ OriginAt(d)
  BY DEF TypeOK, OriginInv
<1>2. log'[d] = Append(log[d], e) /\ \A c \in Device : c # d => log'[c] = log[c]
  BY AcceptedLast
<1>3. \A p \in DOMAIN log'[d] :
        IsOf(log'[d][p], edits) \/ (snapshot[d] # NoTask /\ log'[d][p] = Bootstrap(d))
  BY <1>1, <1>2, AppendElements DEF OriginAt
<1>4. OriginAt(d)'
  BY <1>1, <1>3 DEF OriginAt, Bootstrap
<1>5. \A c \in Device : c # d => OriginAt(c)'
  BY <1>2, HoldsOrigin DEF OriginInv, Holds
<1> QED
  BY <1>4, <1>5 DEF OriginInv

LEMMA NextOrigin ==
  ASSUME TypeOK, IdInv, OriginInv, StartInv, SnapInv, [Next]_vars
  PROVE  OriginInv'
<1>1. ASSUME UNCHANGED edits, UNCHANGED bus, \A c \in Device : Holds(c) PROVE OriginInv'
  BY <1>1, HoldsOrigin DEF OriginInv
<1>2. ASSUME NEW d \in Device, Edits(d) PROVE OriginInv'
  <2>1. CASE DispatchCreate(d) \/ DispatchMutation(d)
    <3>1. PICK e \in Event :
            /\ e.id = Len(edits) + 1 /\ Enqueue(d, e)
            /\ IF e.kind = "task.created" THEN edits = <<>>
               ELSE shown[d] # NoTask /\ e.key.dev = Client[d]
      BY <2>1, EditStamped
    <3>2. e.kind = "task.created" <=> edits = <<>>
      BY <3>1 DEF StartInv, Nothing
    <3> QED
      BY <3>1, <3>2, EnqueueOrigin
  <2> QED
    BY <1>2, <2>1, AcceptLocalOrigin, SendOrigin DEF Edits
<1>3. ASSUME NEW d \in Device, Receives(d) PROVE OriginInv'
  <2>1. UNCHANGED edits /\ UNCHANGED bus /\ UNCHANGED queue /\ UNCHANGED unsent
    BY <1>3 DEF Receives, Deliver, Invite, PublishSnapshot, ResolveBootstrap, JoinTimeout
  <2>2. CASE Deliver(d)
    <3> DEFINE e == bus[read[d] + 1]
    <3>1. read[d] \in Nat /\ read[d] < Len(bus) /\ bus \in Seq(Event)
      BY <2>2 DEF Deliver, TypeOK
    <3>2. e \in Event /\ IsOf(e, edits)
      BY <3>1 DEF OriginInv, AreOf
    <3>3. UNCHANGED log \/ Accept(d, e)
      BY <2>2 DEF Deliver
    <3>4. UNCHANGED snapshot
      BY <2>2 DEF Deliver, group
    <3> HIDE DEF e
    <3> QED
      BY <1>1, <2>1, <3>2, <3>3, <3>4, TakenOrigin DEF Holds
  <2>3. CASE ResolveBootstrap(d)
    <3> DEFINE e == Bootstrap(d)
    <3>1. UNCHANGED snapshot
      BY <2>3 DEF ResolveBootstrap, group
    <3>2. CASE snapshot[d] = NoTask \/ BootstrapId \in Ids(log[d])
      <4>1. UNCHANGED log
        BY <2>3, <3>2 DEF ResolveBootstrap
      <4> QED
        BY <1>1, <2>1, <3>1, <4>1 DEF Holds
    <3>3. CASE ~(snapshot[d] = NoTask \/ BootstrapId \in Ids(log[d]))
      <4>1. Accept(d, e) /\ e \in Event
        BY <2>3, <3>3 DEF ResolveBootstrap, TypeOK, Event, BootstrapId, Bootstrap
      <4> QED
        BY <2>1, <3>1, <3>3, <4>1, TakenOrigin
    <3> QED
      BY <3>2, <3>3
  <2>4. CASE PublishSnapshot(d)
    <3>1. UNCHANGED log /\ \A c \in Device : c # d => snapshot'[c] = snapshot[c]
      BY <2>4 DEF PublishSnapshot, durable, TypeOK
    <3>2. snapshot[d] = NoTask
      BY <2>4 DEF PublishSnapshot, SnapInv, SnapAt
    <3> QED
      BY <1>1, <2>1, <3>1, <3>2 DEF Holds
  <2>5. CASE Invite(d) \/ JoinTimeout(d)
    <3>1. UNCHANGED log /\ UNCHANGED snapshot
      BY <2>5 DEF Invite, JoinTimeout, durable, group
    <3> QED
      BY <1>1, <2>1, <3>1 DEF Holds
  <2> QED
    BY <1>3, <2>2, <2>3, <2>4, <2>5 DEF Receives
<1>4. ASSUME NEW d \in Device, Hook(d) PROVE OriginInv'
  <2>1. UNCHANGED edits /\ UNCHANGED bus /\ UNCHANGED log /\ UNCHANGED snapshot
    BY <1>4 DEF Hook, Emit, Mount, LoadLog, Rebuild, LoadFails, Reload, group, durable
  <2>2. \A c \in Device : (queue'[c] = queue[c] \/ queue'[c] = <<>>)
                          /\ (unsent'[c] = unsent[c] \/ unsent'[c] = <<>>)
    <3>1. CASE Reload(d)
      BY <3>1 DEF Reload, TypeOK
    <3>2. CASE ~Reload(d)
      BY <1>4, <3>2 DEF Hook, Emit, Mount, LoadLog, Rebuild, LoadFails
    <3> QED
      BY <3>1, <3>2
  <2> QED
    BY <1>1, <2>1, <2>2 DEF Holds
<1>5. CASE UNCHANGED vars
  <2>1. UNCHANGED edits /\ UNCHANGED bus /\ UNCHANGED queue /\ UNCHANGED unsent
        /\ UNCHANGED log /\ UNCHANGED snapshot
    BY <1>5 DEF vars, group
  <2> QED
    BY <1>1, <2>1 DEF Holds
<1> QED
  BY <1>2, <1>3, <1>4, <1>5 DEF Next

----------------------------------------------------------------------------
(* The start, and the snapshots. *)

\* Without an edit there is none in any list.
LEMMA NoIds ==
  ASSUME NEW s \in Seq(Event), Ids(s) \subseteq 1 .. 0
  PROVE  s = <<>>
<1> SUFFICES ASSUME s # <<>> PROVE FALSE
  OBVIOUS
<1>1. s[1].id \in Ids(s)
  BY TailElements DEF Ids
<1> QED
  BY <1>1

\* As long as nothing is sent, only a dispatch brings anything.
LEMMA NothingStays ==
  ASSUME TypeOK, Nothing, bus = <<>>, NEW d \in Device, Receives(d) \/ Hook(d)
  PROVE  Nothing'
<1>5. ASSUME Receives(d) PROVE Nothing'
  <2>1. ~Deliver(d)
    BY DEF Deliver, TypeOK
  <2>2. CASE PublishSnapshot(d)
    <3>1. snapshot' = [snapshot EXCEPT ![d] = NoTask]
      <4>1. log[Founder] = <<>>
        BY BoardAssumption DEF Nothing
      <4> QED
        BY <2>2, <4>1, ReplayedOfNone DEF PublishSnapshot
    <3>2. \A c \in Device : snapshot'[c] = NoTask
      BY <3>1 DEF Nothing, TypeOK
    <3> QED
      BY <2>2, <3>2 DEF Nothing, PublishSnapshot
  <2>3. CASE ResolveBootstrap(d)
    <3>1. snapshot[d] = NoTask
      BY DEF Nothing
    <3>2. UNCHANGED <<log, emitting, snapshot, copy, since, shown>>
      BY <2>3, <3>1 DEF ResolveBootstrap
    <3> QED
      BY <3>2 DEF Nothing
  <2>4. CASE Invite(d) \/ JoinTimeout(d)
    BY <2>4 DEF Nothing, Invite, JoinTimeout
  <2> QED
    BY <1>5, <2>1, <2>2, <2>3, <2>4 DEF Receives
<1>6. ASSUME Hook(d) PROVE Nothing'
  <2>1. /\ log[d] = <<>> /\ emitting[d] = NoEvent /\ copy[d] = <<>> /\ since[d] = <<>>
        /\ shown[d] = NoTask /\ snapshot[d] = NoTask
    BY DEF Nothing
  <2>2. Rebuilt(d) = NoTask
    BY <2>1, ReplayedOfNone, FoldOfNone DEF Rebuilt, Shown
  <2>3. UNCHANGED log /\ UNCHANGED snapshot
    BY <1>6 DEF Hook, Emit, Mount, LoadLog, Rebuild, LoadFails, Reload
  <2>4. ~Emit(d)
    BY <2>1 DEF Emit
  <2>5. /\ copy'[d] = <<>> /\ since'[d] = <<>> /\ shown'[d] = NoTask /\ emitting'[d] = NoEvent
        /\ \A c \in Device : c # d =>
             copy'[c] = copy[c] /\ since'[c] = since[c] /\ shown'[c] = shown[c]
             /\ emitting'[c] = emitting[c]
    <3>1. CASE Mount(d)
      BY <2>1, <3>1 DEF Mount, TypeOK
    <3>2. CASE LoadLog(d)
      BY <2>1, <3>2 DEF LoadLog, TypeOK
    <3>3. CASE Rebuild(d)
      BY <2>1, <2>2, <3>3 DEF Rebuild, StartEngine, TypeOK
    <3>4. CASE LoadFails(d)
      BY <2>1, <3>4 DEF LoadFails, StartEngine, TypeOK
    <3>5. CASE Reload(d)
      BY <2>1, <3>5 DEF Reload, TypeOK
    <3> QED
      BY <1>6, <2>4, <3>1, <3>2, <3>3, <3>4, <3>5 DEF Hook
  <2> QED
    BY <2>3, <2>5 DEF Nothing
<1> QED
  BY <1>5, <1>6

LEMMA NextStart ==
  ASSUME TypeOK, IdInv, StartInv, [Next]_vars
  PROVE  StartInv'
<1> SUFFICES ASSUME edits' = <<>> PROVE Nothing'
  BY DEF StartInv
<1>1. edits = <<>>
  <2>1. edits' = edits \/ \E e \in Event : edits' = Append(edits, e)
    <3>1. ASSUME NEW d \in Device, DispatchCreate(d) \/ DispatchMutation(d)
          PROVE  \E e \in Event : edits' = Append(edits, e)
      BY <3>1, EditStamped DEF Enqueue
    <3>2. ASSUME NEW d \in Device,
                 AcceptLocal(d) \/ Send(d) \/ Receives(d) \/ Hook(d)
          PROVE  edits' = edits
      BY <3>2 DEF AcceptLocal, Send, Receives, Deliver, Invite, PublishSnapshot,
           ResolveBootstrap, JoinTimeout, Hook, Emit, Mount, LoadLog, Rebuild, LoadFails,
           Reload, group
    <3>3. CASE UNCHANGED vars
      BY <3>3 DEF vars, group
    <3> QED
      BY <3>1, <3>2, <3>3 DEF Next, Edits
  <2>2. \A e \in Event : Append(edits, e) # <<>>
    <3> SUFFICES ASSUME NEW e \in Event, Append(edits, e) = <<>> PROVE FALSE
      OBVIOUS
    <3>1. edits \in Seq(Event)
      BY DEF TypeOK
    <3>2. Len(edits) + 1 \in DOMAIN <<>>
      BY <3>1, AppendElements
    <3> QED
      BY <3>2
  <2> QED
    BY <2>1, <2>2
<1>2. Nothing /\ Len(edits) = 0
  BY <1>1 DEF StartInv
<1>3. bus = <<>> /\ \A d \in Device : queue[d] = <<>> /\ unsent[d] = <<>>
  BY <1>2, NoIds DEF IdInv, TypeOK
<1>4. ASSUME NEW d \in Device, Edits(d) PROVE FALSE
  <2>1. ~DispatchCreate(d) /\ ~DispatchMutation(d)
    <3> SUFFICES ASSUME DispatchCreate(d) \/ DispatchMutation(d) PROVE FALSE
      OBVIOUS
    <3>1. PICK e \in Event : edits' = Append(edits, e)
      BY EditStamped DEF Enqueue
    <3> QED
      BY <1>1, <3>1
  <2> QED
    BY <1>3, <1>4, <2>1 DEF Edits, AcceptLocal, Send
<1>5. ASSUME NEW d \in Device, Receives(d) \/ Hook(d) PROVE Nothing'
  BY <1>2, <1>3, <1>5, NothingStays
<1>6. CASE UNCHANGED vars
  BY <1>2, <1>6 DEF vars, group, durable, session, Nothing
<1> QED
  BY <1>4, <1>5, <1>6 DEF Next

\* The founder's log grows behind what a snapshot was taken of.
LEMMA SnapKept ==
  ASSUME TypeOK, SnapInv, bootstrapped'[Founder], UNCHANGED snapshot, UNCHANGED covers,
         \A d \in Device : invite[d] = "synced" => invite'[d] = "synced",
         log'[Founder] = log[Founder]
         \/ \E e \in Event : e.id # BootstrapId /\ log'[Founder] = Append(log[Founder], e)
  PROVE  SnapInv'
<1> DEFINE s == log[Founder]
           t == log'[Founder]
<1>1. s \in Seq(Event)
  BY BoardAssumption DEF TypeOK
<1>2. BootstrapId \notin Ids(t)
  <2>1. BootstrapId \notin Ids(s)
    BY DEF SnapInv
  <2>2. ASSUME NEW e \in Event, e.id # BootstrapId, t = Append(s, e)
        PROVE  BootstrapId \notin Ids(t)
    <3>1. Ids(Append(s, e)) = Ids(s) \union {e.id}
      BY ONLY <1>1, e \in Event, IdsOfAppend
    <3> QED
      BY <2>1, <2>2, <3>1
  <2> HIDE DEF s
  <2> QED
    BY <2>1, <2>2 DEF s
<1>3. Len(s) \in 0 .. Len(t) /\ Len(t) \in Nat /\ Len(s) \in Nat
      /\ \A n \in 0 .. Len(s) : n \in 0 .. Len(t) /\ Prefix(t, n) = Prefix(s, n)
  <2>1. CASE t = s
    BY <1>1, <2>1
  <2>2. ASSUME NEW e \in Event, t = Append(s, e)
        PROVE  Len(s) \in 0 .. Len(t) /\ Len(t) \in Nat /\ Len(s) \in Nat
               /\ \A n \in 0 .. Len(s) : n \in 0 .. Len(t) /\ Prefix(t, n) = Prefix(s, n)
    <3>1. Len(s) \in Nat /\ Len(t) = Len(s) + 1 /\ t \in Seq(Event)
      BY <1>1, <2>2
    <3>2. ASSUME NEW n \in 0 .. Len(s) PROVE Prefix(t, n) = Prefix(s, n)
      <4>1. \A p \in 1 .. n : t[p] = s[p]
        BY <1>1, <2>2, <3>1
      <4> HIDE DEF s, t
      <4> QED
        BY <1>1, <3>1, <4>1 DEF Prefix
    <3> QED
      BY <3>1, <3>2
  <2> QED
    BY <2>1, <2>2
<1> HIDE DEF s, t
<1>4. \A d \in Device : SnapAt(d)'
  <2> SUFFICES ASSUME NEW d \in Device, snapshot[d] # NoTask PROVE SnapAt(d)'
    BY DEF SnapAt
  <2>1. invite'[d] = "synced"
    BY DEF SnapInv, SnapAt
  <2>2. PICK n \in 0 .. Len(s) :
          snapshot[d] = Replayed(Prefix(s, n)) /\ covers[d] = Ids(Prefix(s, n))
    BY DEF SnapInv, SnapAt, s
  <2>3. n \in 0 .. Len(t) /\ snapshot[d] = Replayed(Prefix(t, n)) /\ covers[d] = Ids(Prefix(t, n))
    BY <1>3, <2>2
  <2> QED
    BY <2>1, <2>3 DEF SnapAt, t
<1> QED
  BY <1>2, <1>4 DEF SnapInv, t

LEMMA NextSnap ==
  ASSUME TypeOK, IdInv, SnapInv, [Next]_vars
  PROVE  SnapInv'
<1> USE BoardAssumption
<1>1. ASSUME NEW d \in Device, Edits(d) PROVE SnapInv'
  <2>1. UNCHANGED bootstrapped /\ UNCHANGED snapshot /\ UNCHANGED covers /\ UNCHANGED invite
    <3>1. CASE DispatchCreate(d) \/ DispatchMutation(d)
      BY <3>1, EditStamped DEF Enqueue, durable
    <3> QED
      BY <1>1, <3>1 DEF Edits, AcceptLocal, Send, group, durable, history
  <2>2. CASE DispatchCreate(d) \/ DispatchMutation(d) \/ Send(d)
    <3>1. UNCHANGED log
      BY <2>2, EditStamped DEF Enqueue, durable, Send
    <3> QED
      BY <2>1, <3>1, SnapKept DEF SnapInv
  <2>3. CASE AcceptLocal(d)
    <3> DEFINE e == Head(queue[d])
    <3>1. queue[d] \in Seq(Event) /\ queue[d] # <<>> /\ Accept(d, e)
      BY <2>3 DEF AcceptLocal, TypeOK
    <3>2. e \in Event /\ e.id \in Ids(queue[d])
      BY <3>1, HeadAndTail
    <3>3. e.id # BootstrapId
      <4>1. e.id \in 1 .. Len(edits)
        BY <3>2 DEF IdInv
      <4> HIDE DEF e
      <4> QED
        BY <4>1 DEF BootstrapId
    <3> HIDE DEF e
    <3>4. log'[Founder] = log[Founder] \/ log'[Founder] = Append(log[Founder], e)
      BY <3>1, <3>2, AcceptedLast
    <3> QED
      BY <2>1, <3>2, <3>3, <3>4, SnapKept DEF SnapInv
  <2> QED
    BY <1>1, <2>2, <2>3 DEF Edits
<1>2. ASSUME NEW d \in Device, Receives(d) PROVE SnapInv'
  <2>1. CASE Deliver(d)
    <3> DEFINE e == bus[read[d] + 1]
    <3>1. read[d] \in Nat /\ read[d] < Len(bus) /\ bus \in Seq(Event)
      BY <2>1 DEF Deliver, TypeOK
    <3>2. e \in Event /\ read[d] + 1 \in DOMAIN bus
      BY <3>1
    <3>3. e.id \in Ids(bus)
      BY <3>2 DEF Ids
    <3>4. e.id # BootstrapId
      <4>1. e.id \in 1 .. Len(edits)
        BY <3>3 DEF IdInv
      <4> HIDE DEF e
      <4> QED
        BY <4>1 DEF BootstrapId
    <3>5. UNCHANGED log \/ Accept(d, e)
      BY <2>1 DEF Deliver
    <3>6. UNCHANGED bootstrapped /\ UNCHANGED snapshot /\ UNCHANGED covers /\ UNCHANGED invite
      BY <2>1 DEF Deliver, group, history
    <3> HIDE DEF e
    <3>7. log'[Founder] = log[Founder] \/ log'[Founder] = Append(log[Founder], e)
      BY <3>2, <3>5, AcceptedLast
    <3> QED
      BY <3>2, <3>4, <3>6, <3>7, SnapKept DEF SnapInv
  <2>2. CASE ResolveBootstrap(d)
    <3>1. d # Founder
      BY <2>2 DEF ResolveBootstrap, SnapInv
    <3>2. UNCHANGED snapshot /\ UNCHANGED covers /\ UNCHANGED invite
      BY <2>2 DEF ResolveBootstrap, group
    <3>3. bootstrapped'[Founder] /\ log'[Founder] = log[Founder]
      BY <2>2, <3>1 DEF ResolveBootstrap, Accept, SnapInv, TypeOK
    <3> QED
      BY <3>2, <3>3, SnapKept
  <2>3. CASE PublishSnapshot(d)
    <3>1. /\ UNCHANGED bootstrapped /\ UNCHANGED log
          /\ \A c \in Device : c # d => SnapAt(c)'
      BY <2>3 DEF PublishSnapshot, durable, SnapInv, SnapAt, TypeOK
    <3>2. /\ invite'[d] = "synced" /\ snapshot'[d] = Replayed(log[Founder])
          /\ covers'[d] = Ids(log[Founder])
      BY <2>3 DEF PublishSnapshot, TypeOK
    <3>3. log[Founder] \in Seq(Event)
      BY DEF TypeOK
    <3>4. Len(log[Founder]) \in 0 .. Len(log[Founder])
          /\ Prefix(log[Founder], Len(log[Founder])) = log[Founder]
      BY <3>3, PrefixEnds
    <3>5. SnapAt(d)'
      BY <3>1, <3>2, <3>4 DEF SnapAt
    <3> QED
      BY <3>1, <3>5 DEF SnapInv
  <2>4. CASE Invite(d) \/ JoinTimeout(d)
    <3>1. /\ UNCHANGED bootstrapped /\ UNCHANGED log /\ UNCHANGED snapshot /\ UNCHANGED covers
          /\ \A c \in Device : invite[c] = "synced" => invite'[c] = "synced"
      BY <2>4 DEF Invite, JoinTimeout, durable, group, history, TypeOK
    <3> QED
      BY <3>1, SnapKept DEF SnapInv
  <2> QED
    BY <1>2, <2>1, <2>2, <2>3, <2>4 DEF Receives
<1>3. ASSUME NEW d \in Device, Hook(d) PROVE SnapInv'
  <2>1. /\ UNCHANGED bootstrapped /\ UNCHANGED log /\ UNCHANGED snapshot /\ UNCHANGED covers
        /\ UNCHANGED invite
    BY <1>3 DEF Hook, Emit, Mount, LoadLog, Rebuild, LoadFails, Reload, group, durable, history
  <2> QED
    BY <2>1, SnapKept DEF SnapInv
<1>4. CASE UNCHANGED vars
  <2>1. /\ UNCHANGED bootstrapped /\ UNCHANGED log /\ UNCHANGED snapshot /\ UNCHANGED covers
        /\ UNCHANGED invite
    BY <1>4 DEF vars, group, durable, history
  <2> QED
    BY <2>1, SnapKept DEF SnapInv
<1> QED
  BY <1>1, <1>2, <1>3, <1>4 DEF Next

----------------------------------------------------------------------------
(* The order of one device's edits, which all that others hold keeps. *)

\* Event e is an edit of a field that device d made.
By(d, e) == e.kind # "task.created" /\ e.key.dev = Client[d]

\* If one device made both, it dispatched e before f.
Ahead(e, f) ==
  e.kind # "task.created" /\ f.kind # "task.created" /\ e.key.dev = f.key.dev => e.id < f.id

Rising(s) == \A p, q \in DOMAIN s : p < q => Ahead(s[p], s[q])

Before(s, t) == \A p \in DOMAIN s, q \in DOMAIN t : Ahead(s[p], t[q])

MadeBy(d, s) == \A p \in DOMAIN s : s[p].kind = "task.created" \/ By(d, s[p])

\* In a log a device's edits are in its order, and those it has yet to accept follow.
OrderAt(d) ==
  /\ Rising(queue[d]) /\ Rising(unsent[d]) /\ Rising(log[d])
  /\ Before(bus, unsent[d]) /\ Before(bus, queue[d])
  /\ Before(unsent[d], queue[d]) /\ Before(log[d], queue[d])

\* A device has its own published edits, and of the others' what it has read.
HeardAt(d) ==
  /\ MadeBy(d, queue[d]) /\ MadeBy(d, unsent[d])
  /\ read[d] <= Len(bus) /\ Ids(unsent[d]) \subseteq Ids(log[d])
  /\ \A p \in DOMAIN bus : By(d, bus[p]) => bus[p].id \in Ids(log[d])
  /\ \A p \in DOMAIN log[d] :
       log[d][p].kind # "task.created" /\ ~By(d, log[d][p]) =>
         \E k \in 1 .. read[d] : bus[k] = log[d][p]

OrderInv == Rising(bus) /\ \A d \in Device : OrderAt(d) /\ HeardAt(d)

LEMMA RisingAppend ==
  ASSUME NEW s \in Seq(Event), NEW e \in Event, Rising(s), \A p \in DOMAIN s : Ahead(s[p], e)
  PROVE  Rising(Append(s, e))
<1> DEFINE t == Append(s, e)
<1>1. /\ Len(s) \in Nat /\ t[Len(s) + 1] = e
      /\ \A p \in DOMAIN s : t[p] = s[p] /\ p \in Nat /\ p < Len(s) + 1
      /\ \A p \in DOMAIN t : p \in DOMAIN s \/ p = Len(s) + 1
  BY AppendElements
<1> HIDE DEF t
<1> SUFFICES ASSUME NEW p \in DOMAIN t, NEW q \in DOMAIN t, p < q PROVE Ahead(t[p], t[q])
  BY DEF Rising, t
<1>2. p \in DOMAIN s
  BY <1>1
<1> QED
  BY <1>1, <1>2 DEF Rising

LEMMA RisingTail ==
  ASSUME NEW s \in Seq(Event), s # <<>>, Rising(s)
  PROVE  Rising(Tail(s)) /\ \A q \in DOMAIN Tail(s) : Ahead(Head(s), Tail(s)[q])
<1> DEFINE t == Tail(s)
<1>1. /\ 1 \in DOMAIN s /\ Head(s) = s[1]
      /\ \A p \in DOMAIN t : p \in Nat /\ 1 < p + 1 /\ p + 1 \in DOMAIN s /\ t[p] = s[p + 1]
  BY TailElements
<1> HIDE DEF t
<1>2. \A p, q \in DOMAIN t : p < q => p + 1 < q + 1
  BY <1>1
<1> QED
  BY <1>1, <1>2 DEF Rising, t

LEMMA BeforeAppend ==
  ASSUME NEW s \in Seq(Event), NEW t \in Seq(Event), NEW e \in Event, Before(s, t)
  PROVE  /\ (\A q \in DOMAIN t : Ahead(e, t[q])) => Before(Append(s, e), t)
         /\ (\A p \in DOMAIN s : Ahead(s[p], e)) => Before(s, Append(t, e))
<1>1. ASSUME \A q \in DOMAIN t : Ahead(e, t[q]) PROVE Before(Append(s, e), t)
  BY <1>1, AppendElements DEF Before
<1>2. ASSUME \A p \in DOMAIN s : Ahead(s[p], e) PROVE Before(s, Append(t, e))
  BY <1>2, AppendElements DEF Before
<1> QED
  BY <1>1, <1>2

LEMMA BeforeTail ==
  ASSUME NEW s \in Seq(Event), NEW t \in Seq(Event), Before(s, t)
  PROVE  /\ s # <<>> => \A q \in DOMAIN t : Ahead(Head(s), t[q])
         /\ t # <<>> => Before(s, Tail(t)) /\ \A p \in DOMAIN s : Ahead(s[p], Head(t))
<1>1. ASSUME s # <<>> PROVE \A q \in DOMAIN t : Ahead(Head(s), t[q])
  BY <1>1, TailElements DEF Before
<1>2. ASSUME t # <<>> PROVE Before(s, Tail(t)) /\ \A p \in DOMAIN s : Ahead(s[p], Head(t))
  BY <1>2, TailElements DEF Before
<1> QED
  BY <1>1, <1>2

LEMMA NoneInOrder ==
  /\ Rising(<<>>) /\ \A d : MadeBy(d, <<>>)
  /\ \A s : Before(s, <<>>) /\ Before(<<>>, s)
BY DEF Rising, MadeBy, Before

\* Edits of different devices are in any order.
LEMMA AheadApart ==
  ASSUME NEW c \in Device, NEW d \in Device, c # d, NEW e, NEW f,
         e.kind = "task.created" \/ By(c, e), f.kind = "task.created" \/ By(d, f)
  PROVE  Ahead(e, f)
BY BoardAssumption DEF Ahead, By

\* An edit with a new id is behind all others.
LEMMA AheadOfNew ==
  ASSUME NEW n \in Nat, NEW s, Ids(s) \subseteq 0 .. n, NEW e, e.id = n + 1
  PROVE  \A p \in DOMAIN s : Ahead(s[p], e)
<1> TAKE p \in DOMAIN s
<1>1. s[p].id \in 0 .. n
  BY DEF Ids
<1>2. s[p].id < e.id
  BY <1>1
<1> QED
  BY <1>2 DEF Ahead

LEMMA InitOrder == Init => OrderInv
<1> SUFFICES ASSUME Init PROVE OrderInv
  OBVIOUS
<1>1. \A d \in Device : OrderAt(d)
  BY NoneInOrder DEF Init, OrderAt
<1>2. \A d \in Device : HeardAt(d)
  BY NoneInOrder, IdsOfNone DEF Init, HeardAt
<1> QED
  BY <1>1, <1>2, NoneInOrder DEF Init, OrderInv

\* A step that leaves the lists alone, but for what a reload drops.
LEMMA OrderKept ==
  ASSUME TypeOK, UNCHANGED bus, NEW d \in Device, OrderAt(d), HeardAt(d),
         queue'[d] = queue[d] \/ queue'[d] = <<>>,
         unsent'[d] = unsent[d] \/ unsent'[d] = <<>>,
         log'[d] = log[d],
         read'[d] \in Nat, read[d] <= read'[d], read'[d] <= Len(bus)
  PROVE  OrderAt(d)' /\ HeardAt(d)'
<1>1. OrderAt(d)'
  BY NoneInOrder DEF OrderAt
<1>2. MadeBy(d, queue'[d]) /\ MadeBy(d, unsent'[d])
  BY NoneInOrder DEF HeardAt
<1>3. Ids(unsent'[d]) \subseteq Ids(log'[d])
  BY IdsOfNone DEF HeardAt
<1>4. \A k \in 1 .. read[d] : k \in 1 .. read'[d]
  BY DEF TypeOK
<1>5. \A p \in DOMAIN log'[d] :
        log'[d][p].kind # "task.created" /\ ~By(d, log'[d][p]) =>
          \E k \in 1 .. read'[d] : bus[k] = log'[d][p]
  BY <1>4 DEF HeardAt
<1> QED
  BY <1>1, <1>2, <1>3, <1>5 DEF HeardAt

LEMMA EnqueueOrder ==
  ASSUME TypeOK, IdInv, OrderInv, NEW d \in Device, NEW e \in Event, e.id = Len(edits) + 1,
         e.kind = "task.created" \/ By(d, e), Enqueue(d, e)
  PROVE  OrderInv'
<1> DEFINE q == queue[d]
           n == Len(edits)
<1>1. /\ queue'[d] = Append(q, e) /\ \A c \in Device : c # d => queue'[c] = queue[c]
      /\ UNCHANGED bus /\ UNCHANGED unsent /\ UNCHANGED log /\ UNCHANGED read
  BY DEF Enqueue, TypeOK, durable
<1>2. q \in Seq(Event) /\ bus \in Seq(Event) /\ unsent[d] \in Seq(Event) /\ log[d] \in Seq(Event)
      /\ n \in Nat /\ \A c \in Device : read[c] \in Nat
  BY DEF TypeOK
<1>3. Ids(q) \subseteq 0 .. n /\ Ids(bus) \subseteq 0 .. n
      /\ Ids(unsent[d]) \subseteq 0 .. n /\ Ids(log[d]) \subseteq 0 .. n
  <2>1. /\ Ids(q) \subseteq 1 .. n /\ Ids(bus) \subseteq 1 .. n
        /\ Ids(unsent[d]) \subseteq 1 .. n /\ Ids(log[d]) \subseteq 0 .. n
    BY DEF IdInv
  <2> QED
    BY <1>2, <2>1
<1> HIDE DEF q, n
<1>4. /\ \A p \in DOMAIN q : Ahead(q[p], e)
      /\ \A p \in DOMAIN bus : Ahead(bus[p], e)
      /\ \A p \in DOMAIN unsent[d] : Ahead(unsent[d][p], e)
      /\ \A p \in DOMAIN log[d] : Ahead(log[d][p], e)
  BY <1>2, <1>3, AheadOfNew DEF n
<1>5. OrderAt(d) /\ HeardAt(d)
  BY DEF OrderInv
<1>6. OrderAt(d)'
  <2>1. Rising(Append(q, e)) /\ Before(bus, Append(q, e))
    BY <1>2, <1>4, <1>5, RisingAppend, BeforeAppend DEF OrderAt, q
  <2>2. Before(unsent[d], Append(q, e)) /\ Before(log[d], Append(q, e))
    BY <1>2, <1>4, <1>5, BeforeAppend DEF OrderAt, q
  <2> QED
    BY <1>1, <1>5, <2>1, <2>2 DEF OrderAt
<1>7. HeardAt(d)'
  <2>1. MadeBy(d, Append(q, e))
    BY <1>2, <1>5, AppendElements DEF HeardAt, MadeBy, q
  <2> QED
    BY <1>1, <1>5, <2>1 DEF HeardAt
<1>8. \A c \in Device : c # d => OrderAt(c)' /\ HeardAt(c)'
  BY <1>1 DEF OrderInv, OrderAt, HeardAt
<1> QED
  BY <1>1, <1>6, <1>7, <1>8 DEF OrderInv

LEMMA AcceptLocalOrder ==
  ASSUME TypeOK, OrderInv, NEW d \in Device, AcceptLocal(d)
  PROVE  OrderInv'
<1> DEFINE q == queue[d]
           u == unsent[d]
           s == log[d]
           e == Head(q)
<1>1. q \in Seq(Event) /\ q # <<>> /\ s \in Seq(Event) /\ u \in Seq(Event) /\ bus \in Seq(Event)
  BY DEF AcceptLocal, TypeOK
<1>2. /\ queue'[d] = Tail(q) /\ unsent'[d] = Append(u, e) /\ log'[d] = Append(s, e)
      /\ \A c \in Device : c # d =>
           queue'[c] = queue[c] /\ unsent'[c] = unsent[c] /\ log'[c] = log[c]
  BY DEF AcceptLocal, Accept, TypeOK
<1>3. UNCHANGED bus /\ UNCHANGED read
  BY DEF AcceptLocal, group
<1>4. OrderAt(d) /\ HeardAt(d)
  BY DEF OrderInv
<1>5. e \in Event /\ Tail(q) \in Seq(Event)
  BY <1>1, TailElements
<1>6. Rising(q) /\ Rising(u) /\ Rising(s) /\ Before(bus, u) /\ Before(bus, q)
      /\ Before(u, q) /\ Before(s, q)
  BY <1>4 DEF OrderAt
<1>7. MadeBy(d, q) /\ MadeBy(d, u) /\ Ids(u) \subseteq Ids(s)
  BY <1>4 DEF HeardAt
<1> HIDE DEF q, u, s
<1>8. /\ Rising(Tail(q)) /\ \A p \in DOMAIN Tail(q) : Ahead(e, Tail(q)[p])
      /\ Before(bus, Tail(q)) /\ \A p \in DOMAIN bus : Ahead(bus[p], e)
      /\ Before(u, Tail(q)) /\ \A p \in DOMAIN u : Ahead(u[p], e)
      /\ Before(s, Tail(q)) /\ \A p \in DOMAIN s : Ahead(s[p], e)
  BY <1>1, <1>6, RisingTail, BeforeTail
<1>9. MadeBy(d, Tail(q)) /\ (e.kind = "task.created" \/ By(d, e))
  BY <1>1, <1>7, TailElements DEF MadeBy
<1> HIDE DEF e
<1>10. Rising(Append(u, e)) /\ Rising(Append(s, e)) /\ Before(bus, Append(u, e))
       /\ Before(Append(u, e), Tail(q)) /\ Before(Append(s, e), Tail(q))
  BY <1>1, <1>5, <1>6, <1>8, RisingAppend, BeforeAppend
<1>11. OrderAt(d)'
  BY <1>2, <1>3, <1>8, <1>10 DEF OrderAt
<1>12. HeardAt(d)'
  <2>1. MadeBy(d, Append(u, e))
    BY <1>1, <1>5, <1>7, <1>9, AppendElements DEF MadeBy
  <2>2. Ids(Append(u, e)) \subseteq Ids(Append(s, e)) /\ Ids(s) \subseteq Ids(Append(s, e))
    BY <1>1, <1>5, <1>7, IdsOfAppend
  <2>3. \A p \in DOMAIN bus : By(d, bus[p]) => bus[p].id \in Ids(Append(s, e))
    BY <1>4, <2>2 DEF HeardAt, s
  <2>4. \A p \in DOMAIN Append(s, e) :
          Append(s, e)[p].kind # "task.created" /\ ~By(d, Append(s, e)[p]) =>
            \E k \in 1 .. read[d] : bus[k] = Append(s, e)[p]
    <3> DEFINE t == Append(s, e)
    <3>1. \A p \in DOMAIN t : t[p] = e \/ (p \in DOMAIN s /\ t[p] = s[p])
      BY <1>1, <1>5, AppendElements
    <3>2. \A p \in DOMAIN s : s[p].kind # "task.created" /\ ~By(d, s[p]) =>
            \E k \in 1 .. read[d] : bus[k] = s[p]
      BY <1>4 DEF HeardAt, s
    <3> HIDE DEF t
    <3>3. \A p \in DOMAIN t : t[p].kind # "task.created" /\ ~By(d, t[p]) =>
            \E k \in 1 .. read[d] : bus[k] = t[p]
      BY <1>9, <3>1, <3>2
    <3> QED
      BY <3>3 DEF t
  <2>5. read[d] <= Len(bus)
    BY <1>4 DEF HeardAt
  <2> QED
    BY <1>2, <1>3, <1>9, <2>1, <2>2, <2>3, <2>4, <2>5 DEF HeardAt
<1>13. \A c \in Device : c # d => OrderAt(c)' /\ HeardAt(c)'
  <2> SUFFICES ASSUME NEW c \in Device, c # d PROVE OrderAt(c)' /\ HeardAt(c)'
    OBVIOUS
  <2>1. /\ queue'[c] = queue[c] /\ unsent'[c] = unsent[c] /\ log'[c] = log[c]
        /\ bus' = bus /\ read' = read
    BY <1>2, <1>3
  <2>2. OrderAt(c) /\ HeardAt(c)
    BY DEF OrderInv
  <2>3. OrderAt(c)'
    BY <2>1, <2>2 DEF OrderAt
  <2>4. HeardAt(c)'
    BY <2>1, <2>2 DEF HeardAt
  <2> QED
    BY <2>3, <2>4
<1> QED
  BY <1>3, <1>11, <1>12, <1>13 DEF OrderInv

LEMMA SendOrder ==
  ASSUME TypeOK, OrderInv, NEW d \in Device, Send(d)
  PROVE  OrderInv'
<1> DEFINE u == unsent[d]
           e == Head(u)
<1>1. u \in Seq(Event) /\ u # <<>> /\ bus \in Seq(Event)
      /\ \A c \in Device : unsent[c] \in Seq(Event) /\ queue[c] \in Seq(Event) /\ read[c] \in Nat
  BY DEF Send, TypeOK
<1>2. bus' = Append(bus, e) /\ unsent'[d] = Tail(u)
      /\ \A c \in Device : c # d => unsent'[c] = unsent[c]
  BY DEF Send, TypeOK
<1>3. UNCHANGED queue /\ UNCHANGED log /\ UNCHANGED read
  BY DEF Send, durable
<1>4. OrderAt(d) /\ HeardAt(d)
  BY DEF OrderInv
<1>5. e \in Event /\ Tail(u) \in Seq(Event) /\ e.id \in Ids(u) /\ Ids(Tail(u)) \subseteq Ids(u)
  BY <1>1, HeadAndTail
<1>6. Rising(u) /\ Before(bus, u) /\ Before(u, queue[d]) /\ MadeBy(d, u)
      /\ Ids(u) \subseteq Ids(log[d])
  BY <1>4 DEF OrderAt, HeardAt
<1> HIDE DEF u
<1>7. /\ Rising(Tail(u)) /\ \A p \in DOMAIN Tail(u) : Ahead(e, Tail(u)[p])
      /\ Before(bus, Tail(u)) /\ \A p \in DOMAIN bus : Ahead(bus[p], e)
      /\ \A p \in DOMAIN queue[d] : Ahead(e, queue[d][p])
      /\ Before(Tail(u), queue[d])
  <2>1. Before(Tail(u), queue[d])
    BY <1>1, <1>6, TailElements DEF Before
  <2> QED
    BY <1>1, <1>6, <2>1, RisingTail, BeforeTail
<1>8. MadeBy(d, Tail(u)) /\ (e.kind = "task.created" \/ By(d, e))
  BY <1>1, <1>6, TailElements DEF MadeBy
<1> HIDE DEF e
<1>9. Rising(bus')
  <2>1. Rising(Append(bus, e))
    BY <1>1, <1>5, <1>7, RisingAppend DEF OrderInv
  <2> QED
    BY <1>2, <2>1
<1>10. \A c \in Device : Before(bus', unsent'[c]) /\ Before(bus', queue[c])
  <2> TAKE c \in Device
  <2>1. CASE c = d
    <3>1. Before(bus, queue[d])
      BY <1>4 DEF OrderAt
    <3>2. Before(Append(bus, e), Tail(u)) /\ Before(Append(bus, e), queue[d])
      BY <1>1, <1>5, <1>7, <3>1, BeforeAppend
    <3> QED
      BY <1>2, <2>1, <3>2
  <2>2. CASE c # d
    <3>1. Before(bus, unsent[c]) /\ Before(bus, queue[c])
      BY DEF OrderInv, OrderAt
    <3>2. MadeBy(c, unsent[c]) /\ MadeBy(c, queue[c])
      BY DEF OrderInv, HeardAt
    <3>3. /\ \A p \in DOMAIN unsent[c] : Ahead(e, unsent[c][p])
          /\ \A p \in DOMAIN queue[c] : Ahead(e, queue[c][p])
      BY <1>8, <2>2, <3>2, AheadApart DEF MadeBy
    <3>4. Before(Append(bus, e), unsent[c]) /\ Before(Append(bus, e), queue[c])
      BY <1>1, <1>5, <3>1, <3>3, BeforeAppend
    <3> QED
      BY <1>2, <2>2, <3>4
  <2> QED
    BY <2>1, <2>2
<1>11. \A c \in Device : OrderAt(c)'
  <2> TAKE c \in Device
  <2>1. Rising(unsent'[c]) /\ Before(unsent'[c], queue[c])
    BY <1>2, <1>7 DEF OrderInv, OrderAt
  <2>2. Rising(queue[c]) /\ Rising(log[c]) /\ Before(log[c], queue[c])
    BY DEF OrderInv, OrderAt
  <2> QED
    BY <1>3, <1>10, <2>1, <2>2 DEF OrderAt
<1>12. \A c \in Device : HeardAt(c)'
  <2> TAKE c \in Device
  <2>1. HeardAt(c) /\ Len(bus) \in Nat /\ Len(bus') = Len(bus) + 1
    BY <1>1, <1>2 DEF OrderInv
  <2>2. MadeBy(c, queue[c]) /\ MadeBy(c, unsent'[c]) /\ Ids(unsent'[c]) \subseteq Ids(log[c])
    BY <1>2, <1>5, <1>6, <1>8, <2>1 DEF HeardAt
  <2>3. read[c] <= Len(bus')
    BY <1>1, <2>1 DEF HeardAt
  <2>4. By(c, e) => e.id \in Ids(log[c])
    <3>1. By(c, e) => c = d
      BY <1>8, BoardAssumption DEF By
    <3> QED
      BY <1>5, <1>6, <3>1
  <2>5. \A p \in DOMAIN bus' : By(c, bus'[p]) => bus'[p].id \in Ids(log[c])
    BY <1>1, <1>2, <1>5, <2>1, <2>4, AppendElements DEF HeardAt
  <2>6. \A k \in 1 .. read[c] : bus'[k] = bus[k]
    BY <1>1, <1>2, <2>1 DEF HeardAt
  <2>7. \A p \in DOMAIN log[c] :
          log[c][p].kind # "task.created" /\ ~By(c, log[c][p]) =>
            \E k \in 1 .. read[c] : bus'[k] = log[c][p]
    BY <2>1, <2>6 DEF HeardAt
  <2> QED
    BY <1>3, <2>2, <2>3, <2>5, <2>7 DEF HeardAt
<1> QED
  BY <1>9, <1>11, <1>12 DEF OrderInv

\* An event accepted from the group goes behind what the log has of its device, and
\* ahead of what the device has yet to accept.
LEMMA TakenOrder ==
  ASSUME TypeOK, OrderInv, NEW d \in Device, NEW e \in Event, Accept(d, e),
         UNCHANGED bus, UNCHANGED queue, UNCHANGED unsent,
         \A c \in Device : read'[c] \in Nat /\ read[c] <= read'[c] /\ read'[c] <= Len(bus),
         \A p \in DOMAIN log[d] : Ahead(log[d][p], e),
         \A p \in DOMAIN queue[d] : Ahead(e, queue[d][p]),
         e.kind = "task.created" \/ \E k \in 1 .. read'[d] : bus[k] = e
  PROVE  OrderInv'
<1> DEFINE s == log[d]
           t == Append(s, e)
<1>1. s \in Seq(Event) /\ queue[d] \in Seq(Event) /\ OrderAt(d) /\ HeardAt(d) /\ read[d] \in Nat
  BY DEF TypeOK, OrderInv
<1>2. log'[d] = t /\ \A c \in Device : c # d => log'[c] = log[c]
  BY AcceptedLast
<1>3. Rising(t) /\ Before(t, queue[d])
  BY <1>1, RisingAppend, BeforeAppend DEF OrderAt
<1>4. Ids(t) = Ids(s) \union {e.id}
  BY <1>1, IdsOfAppend
<1>5. \A p \in DOMAIN t : t[p] = e \/ (p \in DOMAIN s /\ t[p] = s[p])
  BY <1>1, AppendElements
<1>6. \A p \in DOMAIN s : s[p].kind # "task.created" /\ ~By(d, s[p]) =>
        \E k \in 1 .. read'[d] : bus[k] = s[p]
  <2>1. \A k \in 1 .. read[d] : k \in 1 .. read'[d]
    BY <1>1
  <2> QED
    BY <1>1, <2>1 DEF HeardAt
<1> HIDE DEF t
<1>7. \A p \in DOMAIN t : t[p].kind # "task.created" /\ ~By(d, t[p]) =>
        \E k \in 1 .. read'[d] : bus[k] = t[p]
  BY <1>5, <1>6
<1>8. OrderAt(d)'
  BY <1>1, <1>2, <1>3 DEF OrderAt
<1>9. HeardAt(d)'
  <2>1. MadeBy(d, queue[d]) /\ MadeBy(d, unsent[d]) /\ Ids(unsent[d]) \subseteq Ids(t)
        /\ read'[d] <= Len(bus)
    BY <1>1, <1>4 DEF HeardAt
  <2>2. \A p \in DOMAIN bus : By(d, bus[p]) => bus[p].id \in Ids(t)
    BY <1>1, <1>4 DEF HeardAt
  <2> QED
    BY <1>2, <1>7, <2>1, <2>2 DEF HeardAt
<1>10. \A c \in Device : c # d => OrderAt(c)' /\ HeardAt(c)'
  <2> SUFFICES ASSUME NEW c \in Device, c # d PROVE OrderAt(c)' /\ HeardAt(c)'
    OBVIOUS
  <2>1. OrderAt(c) /\ HeardAt(c) /\ log'[c] = log[c]
    BY <1>2 DEF OrderInv
  <2> QED
    BY <2>1, OrderKept
<1> QED
  BY <1>8, <1>9, <1>10 DEF OrderInv

LEMMA DeliverOrder ==
  ASSUME TypeOK, OrderInv, NEW d \in Device, Deliver(d)
  PROVE  OrderInv'
<1> DEFINE k == read[d] + 1
           e == bus[k]
<1>1. read[d] \in Nat /\ k \in 1 .. Len(bus) /\ bus \in Seq(Event) /\ e \in Event
      /\ \A c \in Device : read[c] \in Nat
  BY DEF Deliver, TypeOK
<1>2. UNCHANGED bus /\ UNCHANGED queue /\ UNCHANGED unsent
  BY DEF Deliver, group
<1>3. read'[d] = k /\ \A c \in Device : c # d => read'[c] = read[c]
  BY DEF Deliver, TypeOK
<1>4. OrderAt(d) /\ HeardAt(d) /\ \A c \in Device : read[c] <= Len(bus)
  BY DEF OrderInv, HeardAt
<1>5. \A c \in Device : read'[c] \in Nat /\ read[c] <= read'[c] /\ read'[c] <= Len(bus)
  BY <1>1, <1>3, <1>4
<1>6. CASE UNCHANGED log
  BY <1>2, <1>5, <1>6, OrderKept DEF OrderInv
<1>7. CASE Accept(d, e) /\ e.id \notin Ids(log[d])
  <2>1. \A p \in DOMAIN queue[d] : Ahead(e, queue[d][p])
    BY <1>1, <1>4 DEF OrderAt, Before
  <2>2. \A p \in DOMAIN log[d] : Ahead(log[d][p], e)
    <3> SUFFICES ASSUME NEW p \in DOMAIN log[d], log[d][p].kind # "task.created",
                        e.kind # "task.created", log[d][p].key.dev = e.key.dev
                 PROVE  log[d][p].id < e.id
      BY DEF Ahead
    <3>1. ~By(d, e)
      BY <1>1, <1>4, <1>7 DEF HeardAt
    <3>2. ~By(d, log[d][p])
      BY <3>1 DEF By
    <3>3. PICK j \in 1 .. read[d] : bus[j] = log[d][p]
      BY <1>4, <3>2 DEF HeardAt
    <3>4. j \in DOMAIN bus /\ k \in DOMAIN bus /\ j < k
      BY <1>1, <3>3
    <3>5. Ahead(bus[j], e)
      BY <3>4 DEF OrderInv, Rising
    <3> QED
      BY <3>3, <3>5 DEF Ahead
  <2>3. k \in 1 .. read'[d] /\ bus[k] = e
    BY <1>1, <1>3
  <2> HIDE DEF e
  <2> QED
    BY <1>1, <1>2, <1>5, <1>7, <2>1, <2>2, <2>3, TakenOrder
<1>8. UNCHANGED log \/ (Accept(d, e) /\ e.id \notin Ids(log[d]))
  BY DEF Deliver
<1> QED
  BY <1>6, <1>7, <1>8

LEMMA NextOrder ==
  ASSUME TypeOK, IdInv, OrderInv, [Next]_vars
  PROVE  OrderInv'
<1> DEFINE Quiet ==
      /\ UNCHANGED bus /\ UNCHANGED log
      /\ \A c \in Device : (queue'[c] = queue[c] \/ queue'[c] = <<>>)
                           /\ (unsent'[c] = unsent[c] \/ unsent'[c] = <<>>)
                           /\ read'[c] \in Nat /\ read[c] <= read'[c] /\ read'[c] <= Len(bus)
<1>1. ASSUME Quiet PROVE OrderInv'
  BY <1>1, OrderKept DEF OrderInv
<1>2. \A c \in Device : read[c] \in Nat /\ read[c] <= read[c] /\ read[c] <= Len(bus)
  BY DEF OrderInv, HeardAt, TypeOK
<1>3. ASSUME NEW d \in Device, Edits(d) PROVE OrderInv'
  <2>1. CASE DispatchCreate(d) \/ DispatchMutation(d)
    <3>1. PICK e \in Event :
            /\ e.id = Len(edits) + 1 /\ Enqueue(d, e)
            /\ IF e.kind = "task.created" THEN edits = <<>>
               ELSE shown[d] # NoTask /\ e.key.dev = Client[d]
      BY <2>1, EditStamped
    <3>2. e.kind = "task.created" \/ By(d, e)
      BY <3>1 DEF By
    <3> QED
      BY <3>1, <3>2, EnqueueOrder
  <2> QED
    BY <1>3, <2>1, AcceptLocalOrder, SendOrder DEF Edits
<1>4. ASSUME NEW d \in Device, Receives(d) PROVE OrderInv'
  <2>1. CASE ResolveBootstrap(d)
    <3> DEFINE e == Bootstrap(d)
    <3>1. UNCHANGED bus /\ UNCHANGED queue /\ UNCHANGED unsent /\ UNCHANGED read
      BY <2>1 DEF ResolveBootstrap, group
    <3>2. CASE snapshot[d] = NoTask \/ BootstrapId \in Ids(log[d])
      <4>1. UNCHANGED log
        BY <2>1, <3>2 DEF ResolveBootstrap
      <4> QED
        BY <1>1, <1>2, <3>1, <4>1
    <3>3. CASE ~(snapshot[d] = NoTask \/ BootstrapId \in Ids(log[d]))
      <4>1. Accept(d, e) /\ e \in Event /\ e.kind = "task.created"
        BY <2>1, <3>3 DEF ResolveBootstrap, TypeOK, Event, BootstrapId, Bootstrap
      <4> HIDE DEF e
      <4>2. \A f : Ahead(f, e) /\ Ahead(e, f)
        BY <4>1 DEF Ahead, By
      <4> QED
        BY <1>2, <3>1, <4>1, <4>2, TakenOrder
    <3> QED
      BY <3>2, <3>3
  <2>2. CASE Invite(d)
    <3>1. UNCHANGED bus /\ UNCHANGED queue /\ UNCHANGED unsent /\ UNCHANGED log
      BY <2>2 DEF Invite
    <3>2. \A c \in Device : read'[c] = read[c] \/ read'[c] = Len(bus)
      BY <2>2 DEF Invite, TypeOK
    <3>3. Len(bus) \in Nat
      BY DEF TypeOK
    <3>4. \A c \in Device : read'[c] \in Nat /\ read[c] <= read'[c] /\ read'[c] <= Len(bus)
      BY <1>2, <3>2, <3>3
    <3> QED
      BY <1>1, <3>1, <3>4
  <2>3. CASE PublishSnapshot(d) \/ JoinTimeout(d)
    <3>1. UNCHANGED bus /\ UNCHANGED queue /\ UNCHANGED unsent /\ UNCHANGED log
          /\ UNCHANGED read
      BY <2>3 DEF PublishSnapshot, JoinTimeout, durable, group, session
    <3> QED
      BY <1>1, <1>2, <3>1
  <2> QED
    BY <1>4, <2>1, <2>2, <2>3, DeliverOrder DEF Receives
<1>5. ASSUME NEW d \in Device, Hook(d) PROVE OrderInv'
  <2>1. UNCHANGED bus /\ UNCHANGED log /\ UNCHANGED read
    BY <1>5 DEF Hook, Emit, Mount, LoadLog, Rebuild, LoadFails, Reload, group, durable
  <2>2. \A c \in Device : (queue'[c] = queue[c] \/ queue'[c] = <<>>)
                          /\ (unsent'[c] = unsent[c] \/ unsent'[c] = <<>>)
    <3>1. CASE Reload(d)
      BY <3>1 DEF Reload, TypeOK
    <3>2. CASE ~Reload(d)
      BY <1>5, <3>2 DEF Hook, Emit, Mount, LoadLog, Rebuild, LoadFails
    <3> QED
      BY <3>1, <3>2
  <2> QED
    BY <1>1, <1>2, <2>1, <2>2
<1>6. CASE UNCHANGED vars
  <2>1. UNCHANGED bus /\ UNCHANGED queue /\ UNCHANGED unsent /\ UNCHANGED log /\ UNCHANGED read
    BY <1>6 DEF vars, group, durable
  <2> QED
    BY <1>1, <1>2, <2>1
<1> QED
  BY <1>3, <1>4, <1>5, <1>6 DEF Next

\* A list of creates of the task, of its snapshot, and of edits among T.
Takes(s, T) ==
  \A p \in DOMAIN s :
    \/ s[p].kind = "task.created" /\ s[p].id \in {BootstrapId, 1}
    \/ s[p].id \in T \ {1} /\ s[p] = edits[s[p].id]

\* Each event of the list meets those with its key in turn, behind the edits S.
InTurn(s, S) ==
  \A p \in DOMAIN s :
    s[p].id \in {BootstrapId, 1} \/ Due(s[p].id, S \union (Ids(Prefix(s, p - 1)) \ {BootstrapId}))

LEMMA PrefixElements ==
  ASSUME NEW s \in Seq(Event), NEW n \in 0 .. Len(s)
  PROVE  /\ Prefix(s, n) \in Seq(Event) /\ DOMAIN Prefix(s, n) = 1 .. n
         /\ \A p \in 1 .. n : p \in DOMAIN s /\ Prefix(s, n)[p] = s[p]
BY DEF Prefix

\* A device's edits come in its order, so an edit that is not among S meets those
\* with its key in turn if they do so in S.
LEMMA RisingInTurn ==
  ASSUME NEW T, NEW m, OneKind(T, m), NEW s \in Seq(Event), Takes(s, T), Rising(s),
         NEW S, \A i \in T \ S, j \in S \ {1} : edits[j].key = edits[i].key /\ i # 1 => j <= i
  PROVE  InTurn(s, S)
<1> SUFFICES ASSUME NEW q \in DOMAIN s, s[q].id \notin {BootstrapId, 1}
             PROVE  Due(s[q].id, S \union (Ids(Prefix(s, q - 1)) \ {BootstrapId}))
  BY DEF InTurn
<1> DEFINE i == s[q].id
<1>1. i \in T \ {1} /\ s[q] = edits[i] /\ s[q].kind # "task.created"
  BY MutationIsNoCreate DEF Takes, OneKind
<1> SUFFICES ASSUME i \notin S,
                    NEW j \in (S \union (Ids(Prefix(s, q - 1)) \ {BootstrapId})) \ {1},
                    edits[j].key = edits[i].key
             PROVE  j <= i
  BY DEF Due
<1>2. CASE j \in S
  BY <1>1, <1>2
<1>3. CASE j \notin S
  <2>1. j \in Ids(Prefix(s, q - 1)) /\ j # BootstrapId
    BY <1>3
  <2> DEFINE n == q - 1
  <2>2. q \in Nat /\ n \in 0 .. Len(s) /\ \A p \in 1 .. n : p < q
    OBVIOUS
  <2> HIDE DEF n
  <2>3. PICK p \in 1 .. n : p \in DOMAIN s /\ s[p].id = j
    <3>1. j \in Ids(Prefix(s, n))
      BY <2>1 DEF n
    <3> QED
      BY <2>2, <3>1, PrefixElements DEF Ids
  <2>4. j \in T \ {1} /\ s[p] = edits[j] /\ s[p].kind # "task.created"
    BY <2>1, <2>3, MutationIsNoCreate DEF Takes, OneKind
  <2>5. p < q /\ s[p].key.dev = s[q].key.dev
    BY <1>1, <2>2, <2>3, <2>4
  <2>6. s[p].id < s[q].id
    BY <1>1, <2>3, <2>4, <2>5 DEF Rising, Ahead
  <2>7. s[p].id \in Nat /\ s[q].id \in Nat
    <3>1. s[p] \in Event /\ s[q] \in Event
      BY <2>3
    <3> QED
      BY <3>1, EventTyped
  <2> QED
    BY <2>3, <2>6, <2>7
<1> QED
  BY <1>2, <1>3

\* What the front of a list has, is in turn ahead of what is further back.
LEMMA FrontInTurn ==
  ASSUME NEW T, NEW m, OneKind(T, m), NEW s \in Seq(Event), Takes(s, T), Rising(s),
         T \subseteq Ids(s), BootstrapId \notin Ids(s), NEW n \in 0 .. Len(s)
  PROVE  \A i \in T \ Ids(Prefix(s, n)), j \in Ids(Prefix(s, n)) \ {1} :
           edits[j].key = edits[i].key /\ i # 1 => j <= i
<1> SUFFICES ASSUME NEW i \in T \ Ids(Prefix(s, n)), NEW j \in Ids(Prefix(s, n)) \ {1},
                    edits[j].key = edits[i].key, i # 1
             PROVE  j <= i
  OBVIOUS
<1>1. PICK p \in 1 .. n : p \in DOMAIN s /\ s[p].id = j
  BY PrefixElements DEF Ids
<1>2. PICK q \in DOMAIN s : s[q].id = i
  BY DEF Ids
<1>3. q \notin 1 .. n
  <2> SUFFICES ASSUME q \in 1 .. n PROVE FALSE
    OBVIOUS
  <2>1. q \in DOMAIN Prefix(s, n) /\ Prefix(s, n)[q].id = i
    BY <1>2, PrefixElements
  <2> QED
    BY <2>1 DEF Ids
<1>4. p < q
  BY <1>1, <1>2, <1>3
<1>5. j # BootstrapId /\ i # BootstrapId
  BY <1>1, <1>2 DEF Ids
<1>6. /\ s[p] = edits[j] /\ s[p].kind # "task.created"
      /\ s[q] = edits[i] /\ s[q].kind # "task.created"
  BY <1>1, <1>2, <1>5, MutationIsNoCreate DEF Takes, OneKind
<1>7. s[p].id < s[q].id
  BY <1>1, <1>2, <1>4, <1>6 DEF Rising, Ahead
<1>8. s[p].id \in Nat /\ s[q].id \in Nat
  BY EventTyped
<1> QED
  BY <1>1, <1>2, <1>7, <1>8

\* A fold from what the edits S leave the task as leaves it as those and its own do.
LEMMA FoldOfEdits ==
  ASSUME NEW T, NEW m, OneKind(T, m), NEW S, S \subseteq T, 1 \in S,
         NEW y, Result(y, S, m), NEW s \in Seq(Event), Takes(s, T), InTurn(s, S)
  PROVE  Result(Folded({BootstrapId}, y, s), S \union (Ids(s) \ {BootstrapId}), m)
<1> DEFINE F(n) == Folded({BootstrapId}, y, Prefix(s, n))
           G(n) == S \union (Ids(Prefix(s, n)) \ {BootstrapId})
           K == {n \in 0 .. Len(s) : ~Result(F(n), G(n), m)}
<1>1. OneKind(S, m) /\ y \in Shown
  BY ResultTyped DEF OneKind, Shown
<1>2. K = {}
  <2> SUFFICES ASSUME K # {} PROVE FALSE
    OBVIOUS
  <2>1. PICK n \in K : \A k \in K : n <= k
    <3>1. K \in SUBSET Nat
      OBVIOUS
    <3> QED
      BY <3>1, LeastNumber
  <2>2. n # 0
    <3>1. F(0) = y /\ G(0) = S
      BY <1>1, FoldOfNone, PrefixEnds, IdsOfNone
    <3> QED
      BY <3>1
  <2>3. n \in 1 .. Len(s) /\ n - 1 \in 0 .. Len(s) /\ ~(n <= n - 1)
    BY <2>2
  <2>4. n - 1 \notin K
    BY <2>1, <2>3
  <2> DEFINE x == F(n - 1)
             R == G(n - 1)
             e == s[n]
  <2>5. Result(x, R, m)
    BY <2>3, <2>4
  <2>6. ~Result(F(n), G(n), m)
    OBVIOUS
  <2>7. /\ Prefix(s, n - 1) \in Seq(Event) /\ e \in Event
        /\ Prefix(s, n) = Append(Prefix(s, n - 1), e)
    BY <2>3, PrefixSteps
  <2>8. F(n) = Turn({BootstrapId}, x, e)
    BY <1>1, <2>7, FoldOfAppend
  <2>9. G(n) = R \union ({e.id} \ {BootstrapId})
    BY <2>7, IdsOfAppend
  <2>10. Ids(Prefix(s, n - 1)) \ {BootstrapId} \subseteq T
    <3> DEFINE q == Prefix(s, n - 1)
    <3>1. \A p \in DOMAIN q : p \in DOMAIN s /\ q[p] = s[p]
      BY <2>3 DEF Prefix
    <3>2. 1 \in T
      BY DEF OneKind
    <3>3. \A p \in DOMAIN s : s[p].id \in {BootstrapId} \union T
      BY <3>2 DEF Takes
    <3> HIDE DEF q
    <3>4. \A i \in Ids(q) : i \in {BootstrapId} \union T
      BY ONLY <3>1, <3>3 DEF Ids
    <3> QED
      BY <3>4 DEF q
  <2>11. R \subseteq T /\ 1 \in R
    BY <2>10
  <2>12. x \in Task
    <3>1. OneKind(R, m)
      BY <2>11 DEF OneKind
    <3> QED
      BY <2>5, <3>1, ResultTyped
  <2>13. \/ e.kind = "task.created" /\ e.id \in {BootstrapId, 1}
         \/ e.id \in T \ {1} /\ e = edits[e.id]
    BY <2>3 DEF Takes
  <2>14. e.id \in {BootstrapId, 1} \/ Due(e.id, R)
    <3>1. n \in DOMAIN s
      BY <2>3
    <3>2. \/ s[n].id \in {BootstrapId, 1}
          \/ Due(s[n].id, S \union (Ids(Prefix(s, n - 1)) \ {BootstrapId}))
      BY ONLY <3>1, InTurn(s, S) DEF InTurn
    <3> QED
      BY <3>2
  <2> HIDE DEF F, G, K, x, R, e
  <2>15. CASE e.id = BootstrapId
    <3>1. F(n) = x /\ G(n) = R
      BY <2>8, <2>9, <2>15 DEF Turn
    <3> QED
      BY <2>5, <2>6, <3>1
  <2>16. CASE e.kind = "task.created" /\ e.id = 1
    <3>1. F(n) = x /\ G(n) = R
      BY <2>8, <2>9, <2>11, <2>12, <2>16, CreateAgain DEF Turn, BootstrapId
    <3> QED
      BY <2>5, <2>6, <3>1
  <2>17. CASE e.id \in T \ {1} /\ e = edits[e.id] /\ e.id # BootstrapId
    <3> DEFINE i == e.id
    <3>1. F(n) = ApplyEvent(x, edits[i]) /\ G(n) = R \union {i}
      BY <2>8, <2>9, <2>17 DEF Turn
    <3>2. i \in T \ {1}
      BY <2>17
    <3>3. Due(i, R)
      BY <2>14, <2>17
    <3> HIDE DEF i
    <3>4. Result(ApplyEvent(x, edits[i]), R \union {i}, m)
      BY <2>5, <2>11, <3>2, <3>3, ResultOfEdit
    <3> QED
      BY <2>6, <3>1, <3>4
  <2> QED
    BY <2>13, <2>15, <2>16, <2>17
<1>3. Len(s) \in 0 .. Len(s) /\ Prefix(s, Len(s)) = s
  BY PrefixEnds
<1> QED
  BY <1>2, <1>3

\* From nothing, a list that begins with the create goes like one from the task.
LEMMA FoldFromCreate ==
  ASSUME NEW s \in Seq(Event), s # <<>>, s[1].kind = "task.created", s[1].id # BootstrapId,
         s[1].task \in Task
  PROVE  Folded({BootstrapId}, NoTask, s) = Folded({BootstrapId}, s[1].task, s)
<1> DEFINE t == s[1].task
           F(n) == Folded({BootstrapId}, NoTask, Prefix(s, n))
           G(n) == Folded({BootstrapId}, t, Prefix(s, n))
           K == {n \in 1 .. Len(s) : F(n) # G(n)}
<1>1. NoTask \in Shown /\ t \in Shown
  BY DEF Shown
<1>2. K = {}
  <2> SUFFICES ASSUME K # {} PROVE FALSE
    OBVIOUS
  <2>1. PICK n \in K : \A k \in K : n <= k
    <3>1. K \in SUBSET Nat
      OBVIOUS
    <3> QED
      BY <3>1, LeastNumber
  <2>2. n \in 1 .. Len(s) /\ F(n) # G(n)
    OBVIOUS
  <2>3. /\ Prefix(s, n - 1) \in Seq(Event) /\ s[n] \in Event
        /\ Prefix(s, n) = Append(Prefix(s, n - 1), s[n])
    BY <2>2, PrefixSteps
  <2>4. F(n) = Turn({BootstrapId}, F(n - 1), s[n]) /\ G(n) = Turn({BootstrapId}, G(n - 1), s[n])
    BY <1>1, <2>3, FoldOfAppend
  <2>5. CASE n = 1
    <3>1. F(0) = NoTask /\ G(0) = t
      BY <1>1, FoldOfNone, PrefixEnds
    <3>2. F(1) = ApplyEvent(NoTask, s[1]) /\ G(1) = ApplyEvent(t, s[1])
      BY <2>4, <2>5, <3>1 DEF Turn
    <3>3. ApplyEvent(NoTask, s[1]) = t /\ ApplyEvent(t, s[1]) = t
      BY NoTaskIsNone DEF ApplyEvent
    <3> QED
      BY <2>2, <2>5, <3>2, <3>3
  <2>6. CASE n # 1
    <3>1. n - 1 \in 1 .. Len(s) /\ ~(n <= n - 1)
      BY <2>2, <2>6
    <3>2. F(n - 1) = G(n - 1)
      BY <2>1, <3>1
    <3> QED
      BY <2>2, <2>4, <3>2
  <2> QED
    BY <2>5, <2>6
<1>3. Len(s) \in 1 .. Len(s) /\ Prefix(s, Len(s)) = s
  BY PrefixEnds
<1> QED
  BY <1>2, <1>3

\* The first pass of a replay: the bootstrap, if there is one.
LEMMA FoldOfBootstrap ==
  ASSUME NEW s \in Seq(Event), NEW t \in Task, BootstrapId \in Ids(s),
         \A p \in DOMAIN s :
           s[p].id = BootstrapId => s[p].kind = "task.created" /\ s[p].task = t
  PROVE  Folded(Nat \ {BootstrapId}, NoTask, s) = t
<1> DEFINE F(n) == Folded(Nat \ {BootstrapId}, NoTask, Prefix(s, n))
           G(n) == IF BootstrapId \in Ids(Prefix(s, n)) THEN t ELSE NoTask
           K == {n \in 0 .. Len(s) : F(n) # G(n)}
<1>1. NoTask \in Shown
  BY DEF Shown
<1>2. K = {}
  <2> SUFFICES ASSUME K # {} PROVE FALSE
    OBVIOUS
  <2>1. PICK n \in K : \A k \in K : n <= k
    <3>1. K \in SUBSET Nat
      OBVIOUS
    <3> QED
      BY <3>1, LeastNumber
  <2>2. n \in 0 .. Len(s) /\ F(n) # G(n)
    OBVIOUS
  <2>3. n # 0
    <3>1. F(0) = NoTask /\ G(0) = NoTask
      BY <1>1, FoldOfNone, PrefixEnds, IdsOfNone
    <3> QED
      BY <2>2, <3>1
  <2>4. n \in 1 .. Len(s) /\ n - 1 \in 0 .. Len(s) /\ ~(n <= n - 1)
    BY <2>2, <2>3
  <2>5. F(n - 1) = G(n - 1)
    BY <2>1, <2>4
  <2>6. /\ Prefix(s, n - 1) \in Seq(Event) /\ s[n] \in Event
        /\ Prefix(s, n) = Append(Prefix(s, n - 1), s[n])
    BY <2>4, PrefixSteps
  <2>7. F(n) = Turn(Nat \ {BootstrapId}, F(n - 1), s[n])
    BY <1>1, <2>6, FoldOfAppend
  <2>8. Ids(Prefix(s, n)) = Ids(Prefix(s, n - 1)) \union {s[n].id}
    BY <2>6, IdsOfAppend
  <2>9. CASE s[n].id # BootstrapId
    <3>1. F(n) = F(n - 1)
      BY <2>6, <2>7, <2>9, EventTyped DEF Turn
    <3>2. G(n) = G(n - 1)
      BY <2>8, <2>9
    <3> QED
      BY <2>2, <2>5, <3>1, <3>2
  <2>10. CASE s[n].id = BootstrapId
    <3>1. F(n) = ApplyEvent(F(n - 1), s[n])
      BY <2>7, <2>10 DEF Turn
    <3>2. s[n].kind = "task.created" /\ s[n].task = t
      BY <2>4, <2>10
    <3>3. ApplyEvent(NoTask, s[n]) = t /\ ApplyEvent(t, s[n]) = t
      BY <3>2, NoTaskIsNone DEF ApplyEvent
    <3>4. G(n) = t
      BY <2>8, <2>10
    <3> QED
      BY <2>2, <2>5, <3>1, <3>3, <3>4
  <2> QED
    BY <2>9, <2>10
<1>3. Len(s) \in 0 .. Len(s) /\ Prefix(s, Len(s)) = s
  BY PrefixEnds
<1> QED
  BY <1>2, <1>3

\* What a log that begins with the create shows.
LEMMA ReplayOfCreate ==
  ASSUME NEW T, NEW m, OneKind(T, m), NEW s \in Seq(Event), Takes(s, T), Rising(s),
         s # <<>>, s[1] = edits[1], s[1].kind = "task.created", s[1].id = 1,
         BootstrapId \notin Ids(s)
  PROVE  Result(Replayed(s), Ids(s), m)
<1>1. NoTask \in Shown
  BY DEF Shown
<1>2. Ids(s) \subseteq Nat \ {BootstrapId}
  BY EventTyped DEF Ids
<1>3. Folded(Nat \ {BootstrapId}, NoTask, s) = NoTask
  BY <1>1, <1>2, FoldSkips
<1>4. s[1].task = Created /\ Created \in Task
  BY DEF Created, OneKind
<1>5. Replayed(s) = Folded({BootstrapId}, Created, s)
  BY <1>3, <1>4, FoldFromCreate DEF Replayed, BootstrapId
<1>6. OneKind({1}, m) /\ {1} \subseteq T
  BY DEF OneKind
<1>7. Result(Created, {1}, m)
  BY <1>6, ResultOfCreate
<1>8. Result(Folded({BootstrapId}, Created, s), {1} \union (Ids(s) \ {BootstrapId}), m)
  <2>1. InTurn(s, {1})
    BY RisingInTurn
  <2> QED
    BY <1>6, <1>7, <2>1, FoldOfEdits
<1>9. {1} \union (Ids(s) \ {BootstrapId}) = Ids(s)
  <2>1. 1 \in DOMAIN s
    OBVIOUS
  <2> QED
    BY <2>1 DEF Ids
<1> QED
  BY <1>5, <1>8, <1>9

\* What a log with a bootstrap shows.
LEMMA ReplayOfBootstrap ==
  ASSUME NEW T, NEW m, OneKind(T, m), NEW s \in Seq(Event), Takes(s, T),
         NEW S, S \subseteq T, 1 \in S, NEW t, Result(t, S, m), InTurn(s, S),
         BootstrapId \in Ids(s),
         \A p \in DOMAIN s :
           s[p].id = BootstrapId => s[p].kind = "task.created" /\ s[p].task = t
  PROVE  Result(Replayed(s), S \union (Ids(s) \ {BootstrapId}), m)
<1>1. t \in Task
  <2>1. OneKind(S, m)
    BY DEF OneKind
  <2> QED
    BY <2>1, ResultTyped
<1>2. Replayed(s) = Folded({BootstrapId}, t, s)
  BY <1>1, FoldOfBootstrap DEF Replayed
<1>3. Result(Folded({BootstrapId}, t, s), S \union (Ids(s) \ {BootstrapId}), m)
  BY FoldOfEdits
<1> QED
  BY <1>2, <1>3

----------------------------------------------------------------------------
(* Settled devices. *)

ConvergeInv == BoardInv /\ OriginInv /\ StartInv /\ SnapInv /\ OrderInv

LEMMA ConvergeInvariant == Spec => []ConvergeInv
<1>1. Init => ConvergeInv
  BY InitBoard, InitFlow, InitOrder DEF ConvergeInv
<1>2. ConvergeInv /\ [Next]_vars => ConvergeInv'
  BY NextBoard, NextOrigin, NextStart, NextSnap, NextOrder DEF ConvergeInv, BoardInv
<1> QED
  BY <1>1, <1>2, PTL DEF Spec

\* A set with at most one element.
LEMMA OnlyOne ==
  ASSUME NEW V, IsFiniteSet(V), Cardinality(V) <= 1, NEW a \in V, NEW b \in V
  PROVE  a = b
<1> SUFFICES ASSUME a # b PROVE FALSE
  OBVIOUS
<1>1. Cardinality({a}) = 1 /\ IsFiniteSet({a})
  BY FS_Singleton
<1>2. Cardinality({a} \union {b}) = 2
  BY <1>1, FS_AddElement
<1>3. {a} \union {b} \subseteq V /\ Cardinality(V) \in Nat
  BY FS_CardinalityType
<1>4. Cardinality({a} \union {b}) <= Cardinality(V)
  BY <1>3, FS_Subset
<1> QED
  BY <1>2, <1>3, <1>4

\* The published mutations are of one kind.
LEMMA KindOfMutations ==
  ASSUME ConvergeInv,
         Cardinality({edits[i].kind : i \in Mutations} \ {"task.deleted"}) <= 1,
         \A i \in Mutations : edits[i].kind # "task.deleted"
  PROVE  \E m \in FieldKind : \A i \in Ids(bus) \ {1} :
           edits[i] \in MutationEvent /\ edits[i].id = i /\ edits[i].kind = m
<1> DEFINE V == {edits[i].kind : i \in Mutations} \ {"task.deleted"}
<1>1. edits \in Seq(Event) /\ Ids(bus) \subseteq 1 .. Len(edits)
  BY DEF ConvergeInv, BoardInv, TypeOK, IdInv
<1>2. \A i \in Ids(bus) : edits[i] \in Event /\ edits[i].id = i
                          /\ (edits[i].kind = "task.created" <=> i = 1)
  BY <1>1 DEF ConvergeInv, OriginInv
<1>3. \A i \in Ids(bus) \ {1} : i \in Mutations
  BY <1>2 DEF Mutations
<1>4. \A i \in Mutations : edits[i] \in MutationEvent /\ edits[i].kind \in FieldKind
                           /\ edits[i].kind \in V
  <2> TAKE i \in Mutations
  <2>1. edits[i] \in Event /\ edits[i].kind # "task.created" /\ edits[i].kind # "task.deleted"
    BY <1>2 DEF Mutations
  <2>2. edits[i] \in MutationEvent
    BY <2>1 DEF Event, MutationEvent
  <2> QED
    BY <2>1, <2>2, MutationIsNoCreate DEF FieldKind
<1>5. V \subseteq FieldKind /\ IsFiniteSet(V)
  <2>1. V \subseteq FieldKind
    BY <1>4
  <2>2. FieldKind \subseteq {"task.updated"} \union {"task.status_changed"} \union {"task.assigned"}
    BY DEF FieldKind, Kind
  <2>3. IsFiniteSet({"task.updated"} \union {"task.status_changed"} \union {"task.assigned"})
    BY FS_Singleton, FS_AddElement
  <2> QED
    BY <2>1, <2>2, <2>3, FS_Subset
<1> HIDE DEF V
<1>6. CASE V = {}
  <2>1. "task.updated" \in FieldKind
    BY DEF FieldKind, Kind
  <2> QED
    BY <1>3, <1>4, <1>6, <2>1
<1>7. CASE V # {}
  <2>1. PICK m \in V : TRUE
    BY <1>7
  <2>2. Cardinality(V) <= 1
    BY DEF V
  <2>3. \A i \in Mutations : edits[i].kind = m
    BY <1>4, <1>5, <2>2, OnlyOne
  <2> QED
    BY <1>2, <1>3, <1>4, <1>5, <2>3
<1> QED
  BY <1>6, <1>7

\* What settled devices have in their logs.
LEMMA SettledLog ==
  ASSUME ConvergeInv, Settled, NEW d \in Device
  PROVE  /\ log[d] \in Seq(Event) /\ Rising(log[d]) /\ Takes(log[d], Ids(bus))
         /\ \A p \in DOMAIN log[d] : log[d][p].id = BootstrapId =>
              snapshot[d] # NoTask /\ log[d][p].kind = "task.created"
              /\ log[d][p].task = snapshot[d]
         /\ BootstrapId \notin Ids(log[d]) =>
              /\ Ids(log[d]) = Ids(bus) /\ log[d] # <<>> /\ log[d][1] = edits[1]
              /\ log[d][1].kind = "task.created" /\ log[d][1].id = 1 /\ 1 \in Ids(bus)
         /\ shown[d] = Replayed(log[d])
<1> DEFINE s == log[d]
<1>1. s \in Seq(Event) /\ Rising(s)
  BY DEF ConvergeInv, BoardInv, TypeOK, OrderInv, OrderAt
<1>2. ASSUME NEW p \in DOMAIN s
      PROVE  \/ /\ IsOf(s[p], edits) /\ s[p].id \in Ids(bus) /\ s[p].id # BootstrapId
                /\ (s[p].kind = "task.created" <=> s[p].id = 1)
             \/ /\ snapshot[d] # NoTask /\ s[p].kind = "task.created" /\ s[p].task = snapshot[d]
                /\ s[p].id = BootstrapId
  <2>1. CASE IsOf(s[p], edits)
    <3>1. s[p].id # BootstrapId /\ (s[p].kind = "task.created" <=> s[p].id = 1)
      <4>1. s[p].id \in DOMAIN edits /\ edits[s[p].id] = s[p]
        BY <2>1 DEF IsOf
      <4>2. edits \in Seq(Event)
        BY DEF ConvergeInv, BoardInv, TypeOK
      <4>3. s[p].id # BootstrapId
        BY <4>1, <4>2 DEF BootstrapId
      <4> QED
        BY <4>1, <4>3 DEF ConvergeInv, OriginInv
    <3>2. s[p].id \in Ids(s)
      BY DEF Ids
    <3>3. s[p].id \in Ids(bus)
      BY <3>1, <3>2 DEF Settled, Known
    <3> QED
      BY <2>1, <3>1, <3>3
  <2>2. CASE snapshot[d] # NoTask /\ s[p] = Bootstrap(d)
    BY <2>2 DEF Bootstrap
  <2> QED
    BY <2>1, <2>2 DEF ConvergeInv, OriginInv, OriginAt
<1>3. Takes(s, Ids(bus))
  BY <1>2 DEF Takes, IsOf
<1>4. ASSUME BootstrapId \notin Ids(s)
      PROVE  /\ Ids(s) = Ids(bus) /\ s # <<>> /\ s[1] = edits[1]
             /\ s[1].kind = "task.created" /\ s[1].id = 1 /\ 1 \in Ids(bus)
  <2>1. Ids(s) = Ids(bus)
    BY <1>4 DEF Settled, Known
  <2>2. s # <<>> /\ s[1].kind = "task.created"
    BY <1>4 DEF Settled, Based
  <2>3. 1 \in DOMAIN s
    BY <1>1, <2>2
  <2>4. s[1].id # BootstrapId
    BY <1>4, <2>3 DEF Ids
  <2>5. IsOf(s[1], edits) /\ s[1].id \in Ids(bus) /\ s[1].id = 1
    BY <1>2, <2>2, <2>3, <2>4
  <2> QED
    BY <2>1, <2>2, <2>5 DEF IsOf
<1>5. shown[d] = Replayed(s)
  BY DEF ConvergeInv, BoardInv, ShowInv, ShowAt, ToShow, Settled, Seeded
<1>6. \A p \in DOMAIN s : s[p].id = BootstrapId =>
        snapshot[d] # NoTask /\ s[p].kind = "task.created" /\ s[p].task = snapshot[d]
  BY <1>2
<1> QED
  BY <1>1, <1>3, <1>4, <1>5, <1>6

\* A device whose log begins with the create.
LEMMA ShownFromCreate ==
  ASSUME ConvergeInv, Settled, NEW m, OneKind(Ids(bus), m), NEW d \in Device,
         BootstrapId \notin Ids(log[d])
  PROVE  Result(shown[d], Ids(bus), m)
<1>1. /\ log[d] \in Seq(Event) /\ Rising(log[d]) /\ Takes(log[d], Ids(bus))
      /\ Ids(log[d]) = Ids(bus) /\ log[d] # <<>> /\ log[d][1] = edits[1]
      /\ log[d][1].kind = "task.created" /\ log[d][1].id = 1 /\ shown[d] = Replayed(log[d])
  BY SettledLog
<1>2. Result(Replayed(log[d]), Ids(log[d]), m)
  BY <1>1, ReplayOfCreate
<1> QED
  BY <1>1, <1>2

\* The front of the founder's log that a snapshot was taken of.
LEMMA SnapshotResult ==
  ASSUME ConvergeInv, Settled, NEW m, OneKind(Ids(bus), m), NEW d \in Device,
         snapshot[d] # NoTask
  PROVE  /\ Result(snapshot[d], covers[d], m) /\ covers[d] \subseteq Ids(bus) /\ 1 \in covers[d]
         /\ \A i \in Ids(bus) \ covers[d], j \in covers[d] \ {1} :
              edits[j].key = edits[i].key /\ i # 1 => j <= i
<1> DEFINE s == log[Founder]
           T == Ids(bus)
<1>1. Founder \in Device /\ BootstrapId \notin Ids(s)
  BY BoardAssumption DEF ConvergeInv, SnapInv
<1>2. /\ s \in Seq(Event) /\ Rising(s) /\ Takes(s, T) /\ Ids(s) = T /\ s # <<>>
      /\ s[1] = edits[1] /\ s[1].kind = "task.created" /\ s[1].id = 1
  BY <1>1, SettledLog
<1>3. PICK n \in 0 .. Len(s) :
        snapshot[d] = Replayed(Prefix(s, n)) /\ covers[d] = Ids(Prefix(s, n))
  BY DEF ConvergeInv, SnapInv, SnapAt
<1> HIDE DEF s, T
<1> DEFINE t == Prefix(s, n)
<1>4. t \in Seq(Event) /\ DOMAIN t = 1 .. n /\ \A p \in 1 .. n : p \in DOMAIN s /\ t[p] = s[p]
  BY <1>2, PrefixElements
<1>5. n # 0
  BY <1>2, <1>3, PrefixEnds, ReplayedOfNone
<1>6. 1 \in 1 .. n
  BY <1>5
<1>7. \A i \in T \ Ids(t), j \in Ids(t) \ {1} : edits[j].key = edits[i].key /\ i # 1 => j <= i
  BY <1>1, <1>2, FrontInTurn DEF s, T
<1>8. t # <<>> /\ t[1] = edits[1] /\ t[1].kind = "task.created" /\ t[1].id = 1
  BY <1>2, <1>4, <1>6
<1> HIDE DEF t
<1>9. Ids(t) \subseteq Ids(s) /\ 1 \in Ids(t)
  BY <1>4, <1>6, <1>8 DEF Ids
<1>10. Takes(t, T) /\ Rising(t)
  BY <1>2, <1>4 DEF Takes, Rising
<1>11. BootstrapId \notin Ids(t)
  BY <1>1, <1>9 DEF s
<1>12. Result(Replayed(t), Ids(t), m)
  BY <1>4, <1>8, <1>10, <1>11, ReplayOfCreate DEF T
<1> QED
  BY <1>2, <1>3, <1>7, <1>9, <1>12 DEF t, T

\* A device that started from a snapshot.
LEMMA ShownFromSnapshot ==
  ASSUME ConvergeInv, Settled, NEW m, OneKind(Ids(bus), m), NEW d \in Device,
         BootstrapId \in Ids(log[d])
  PROVE  Result(shown[d], Ids(bus), m)
<1> DEFINE s == log[d]
           S == covers[d]
           T == Ids(bus)
<1>1. /\ s \in Seq(Event) /\ Rising(s) /\ Takes(s, T) /\ shown[d] = Replayed(s)
      /\ \A p \in DOMAIN s : s[p].id = BootstrapId =>
           snapshot[d] # NoTask /\ s[p].kind = "task.created" /\ s[p].task = snapshot[d]
  BY SettledLog
<1>2. snapshot[d] # NoTask /\ snapshot[d] \in Task
  <2>1. PICK p \in DOMAIN s : s[p].id = BootstrapId
    BY DEF Ids
  <2> QED
    BY <1>1, <2>1 DEF ConvergeInv, BoardInv, TypeOK
<1>3. /\ Result(snapshot[d], S, m) /\ S \subseteq T /\ 1 \in S
      /\ \A i \in T \ S, j \in S \ {1} : edits[j].key = edits[i].key /\ i # 1 => j <= i
  BY <1>2, SnapshotResult
<1>4. S \union (Ids(s) \ {BootstrapId}) = T
  BY DEF Settled, Known
<1> HIDE DEF s, S, T
<1>5. InTurn(s, S)
  BY <1>1, <1>3, RisingInTurn DEF T
<1>6. BootstrapId \in Ids(s) /\ OneKind(T, m)
  BY DEF s, T
<1>7. Result(Replayed(s), S \union (Ids(s) \ {BootstrapId}), m)
  BY <1>1, <1>3, <1>5, <1>6, ReplayOfBootstrap
<1> QED
  BY <1>1, <1>4, <1>7 DEF T

\* property-based-invariants C1: for any number of devices and edits, settled devices
\* that were sent mutations of one field show the same, whatever the order each folded
\* them in, when its snapshot was taken, and whatever the clocks read.
THEOREM SettledDevicesAgree == Spec => []AtomicEditsConverge
<1>1. ASSUME ConvergeInv, Settled,
             Cardinality({edits[i].kind : i \in Mutations} \ {"task.deleted"}) <= 1,
             \A i \in Mutations : edits[i].kind # "task.deleted"
      PROVE  Agreed
  <2> DEFINE T == Ids(bus)
  <2>1. PICK m \in FieldKind : \A i \in T \ {1} :
          edits[i] \in MutationEvent /\ edits[i].id = i /\ edits[i].kind = m
    BY <1>1, KindOfMutations
  <2>2. OneKind(T, m)
    <3>1. BootstrapId \notin Ids(log[Founder]) /\ Founder \in Device
      BY <1>1, BoardAssumption DEF ConvergeInv, SnapInv
    <3>2. 1 \in T /\ log[Founder] \in Seq(Event) /\ log[Founder] # <<>>
          /\ log[Founder][1] = edits[1] /\ log[Founder][1].kind = "task.created"
      BY <1>1, <3>1, SettledLog
    <3>3. edits[1] \in Event /\ edits[1].kind = "task.created"
      BY <3>2
    <3>4. edits[1] \notin MutationEvent
      BY <3>3, MutationIsNoCreate
    <3>5. Created \in Task
      BY <3>3, <3>4 DEF Event, MutationEvent, Created
    <3>6. T \subseteq DOMAIN edits
      BY <1>1 DEF ConvergeInv, BoardInv, TypeOK, IdInv
    <3> QED
      BY <2>1, <3>2, <3>5, <3>6 DEF OneKind
  <2>3. \A d \in Device : Result(shown[d], T, m)
    BY <1>1, <2>2, ShownFromCreate, ShownFromSnapshot
  <2> HIDE DEF T
  <2>4. \A c, d \in Device : shown[c] = shown[d]
    BY <2>2, <2>3, ResultIsUnique
  <2> QED
    BY <2>4 DEF Agreed
<1>2. ConvergeInv => AtomicEditsConverge
  BY <1>1 DEF AtomicEditsConverge
<1> QED
  BY <1>2, ConvergeInvariant, PTL

----------------------------------------------------------------------------
(* What a fold keeps of the times of one device's edits. *)

Has(s, k) == \E p \in DOMAIN s : s[p].kind = k

\* A create follows a delete, so the task came back.
Back(s) ==
  \E i, j \in DOMAIN s :
    i < j /\ s[i].kind = "task.deleted" /\ s[j].kind = "task.created"

\* Device d edited a task that was there.
Grounded(d, s) ==
  \A p \in DOMAIN s : By(d, s[p]) => \E q \in DOMAIN s : q < p /\ s[q].kind = "task.created"

TimeOf(e) == IF e.kind = "task.created" THEN e.task.key.at ELSE e.key.at

\* No event of the list is older than time a.
Since(a, s) == \A p \in DOMAIN s : a <= TimeOf(s[p])

\* y is the task after the events of s, on a board that had it before if g: if it is
\* not there it was deleted, and if it is, it is no older than a, nor than the edits of
\* device d, unless it came back.
Top(d, a, g, y, s) ==
  IF y = NoTask THEN g \/ Has(s, "task.created") => Has(s, "task.deleted")
  ELSE /\ g \/ Has(s, "task.created")
       /\ a <= y.key.at
       /\ Back(s) \/ \A p \in DOMAIN s : By(d, s[p]) => s[p].key.at <= y.key.at

LEMMA TimesTyped ==
  ASSUME NEW e \in Event
  PROVE  /\ e.kind = "task.created" => e.task \in Task /\ e.task.key.at \in Nat
         /\ e.kind # "task.created" => e \in MutationEvent /\ e.key \in Key /\ e.key.at \in Nat
         /\ \A y \in Task : y.key \in Key /\ y.key.at \in Nat
<1>1. \A y \in Task : y.key \in Key /\ y.key.at \in Nat
  BY DEF Task, Key
<1>2. ASSUME e.kind = "task.created" PROVE e.task \in Task
  <2>1. e \notin MutationEvent
    BY <1>2, MutationIsNoCreate
  <2> QED
    BY <2>1 DEF Event, MutationEvent
<1>3. ASSUME e.kind # "task.created" PROVE e \in MutationEvent
  BY <1>3 DEF Event, MutationEvent
<1>4. \A k \in Key : k.at \in Nat
  BY DEF Key
<1> QED
  BY <1>1, <1>2, <1>3, <1>4, MutationIsNoCreate

LEMMA HasAppend ==
  ASSUME NEW s \in Seq(Event), NEW e \in Event
  PROVE  /\ \A k : Has(Append(s, e), k) <=> Has(s, k) \/ e.kind = k
         /\ Back(s) => Back(Append(s, e))
         /\ Has(s, "task.deleted") /\ e.kind = "task.created" => Back(Append(s, e))
<1> DEFINE t == Append(s, e)
           n == Len(s) + 1
<1>1. /\ n \in DOMAIN t /\ t[n] = e
      /\ \A p \in DOMAIN s : p \in DOMAIN t /\ t[p] = s[p] /\ p < n
      /\ \A p \in DOMAIN t : p \in DOMAIN s \/ p = n
  BY AppendElements
<1> HIDE DEF t, n
<1>2. \A k : Has(t, k) <=> Has(s, k) \/ e.kind = k
  BY <1>1 DEF Has
<1>3. Back(s) => Back(t)
  BY <1>1 DEF Back
<1>4. Has(s, "task.deleted") /\ e.kind = "task.created" => Back(t)
  BY <1>1 DEF Has, Back
<1> QED
  BY <1>2, <1>3, <1>4 DEF t

\* One more event, folded.
LEMMA TopOfAppend ==
  ASSUME NEW d, NEW a \in Nat, NEW g \in BOOLEAN, NEW y \in Shown, NEW s \in Seq(Event),
         NEW e \in Event, a <= TimeOf(e), Grounded(d, s), Top(d, a, g, y, s)
  PROVE  Top(d, a, g, ApplyEvent(y, e), Append(s, e))
<1> DEFINE t == Append(s, e)
<1>1. \A p \in DOMAIN t : t[p] = e \/ (p \in DOMAIN s /\ t[p] = s[p])
  BY AppendElements
<1>2. /\ \A k : Has(t, k) <=> Has(s, k) \/ e.kind = k
      /\ Back(s) => Back(t)
      /\ Has(s, "task.deleted") /\ e.kind = "task.created" => Back(t)
  BY HasAppend
<1>3. \A p \in DOMAIN s : By(d, s[p]) => s[p].key.at \in Nat
  BY TimesTyped DEF By
<1> HIDE DEF t
<1>4. CASE y = NoTask /\ e.kind = "task.created"
  <2>1. ApplyEvent(y, e) = e.task /\ e.task # NoTask /\ a <= e.task.key.at
    BY <1>4, TimesTyped, NoTaskIsNone DEF ApplyEvent, TimeOf
  <2>2. Has(t, "task.created")
    BY <1>2, <1>4
  <2>3. Back(t) \/ \A p \in DOMAIN t : By(d, t[p]) => t[p].key.at <= e.task.key.at
    <3> SUFFICES ASSUME NEW p \in DOMAIN t, By(d, t[p]) PROVE Back(t)
      OBVIOUS
    <3>1. p \in DOMAIN s /\ By(d, s[p])
      BY <1>1, <1>4 DEF By
    <3>2. Has(s, "task.created")
      BY <3>1 DEF Grounded, Has
    <3>3. Has(s, "task.deleted")
      BY <1>4, <3>2 DEF Top
    <3> QED
      BY <1>2, <1>4, <3>3
  <2> QED
    BY <2>1, <2>2, <2>3 DEF Top, t
<1>5. CASE y = NoTask /\ e.kind # "task.created"
  <2>1. ApplyEvent(y, e) = NoTask
    BY <1>5 DEF ApplyEvent
  <2> QED
    BY <1>2, <1>5, <2>1 DEF Top, t
<1>6. CASE y # NoTask /\ e.kind = "task.created"
  <2>1. ApplyEvent(y, e) = y
    BY <1>6 DEF ApplyEvent
  <2>2. \A p \in DOMAIN t : By(d, t[p]) => p \in DOMAIN s /\ t[p] = s[p]
    BY <1>1, <1>6 DEF By
  <2> QED
    BY <1>2, <1>6, <2>1, <2>2 DEF Top, t
<1>7. CASE y # NoTask /\ e.kind # "task.created"
  <2>1. /\ y \in Task /\ y.key \in Key /\ y.key.at \in Nat /\ e \in MutationEvent
        /\ e.key \in Key /\ e.key.at \in Nat
    BY <1>7, TimesTyped DEF Shown
  <2>2. g \/ Has(t, "task.created")
    BY <1>2, <1>7 DEF Top
  <2>3. a <= y.key.at /\ (Back(s) \/ \A p \in DOMAIN s : By(d, s[p]) => s[p].key.at <= y.key.at)
    BY <1>7 DEF Top
  <2>4. CASE ~WinsOver(e.key, y.key)
    <3>1. ApplyEvent(y, e) = y
      BY <2>1, <2>4, ApplyMutation
    <3>2. e.key.at <= y.key.at
      BY <2>1, <2>4 DEF WinsOver
    <3>3. Back(t) \/ \A p \in DOMAIN t : By(d, t[p]) => t[p].key.at <= y.key.at
      BY <1>1, <1>2, <2>3, <3>2
    <3> QED
      BY <1>7, <2>2, <2>3, <3>1, <3>3 DEF Top, t
  <2>5. CASE WinsOver(e.key, y.key) /\ e.kind = "task.deleted"
    <3>1. ApplyEvent(y, e) = NoTask
      BY <2>1, <2>5, ApplyMutation
    <3> QED
      BY <1>2, <2>5, <3>1 DEF Top, t
  <2>6. CASE WinsOver(e.key, y.key) /\ e.kind # "task.deleted"
    <3> DEFINE z == [wrote |-> [y.wrote EXCEPT ![e.kind] = e.id], key |-> e.key]
    <3>1. ApplyEvent(y, e) = z
      BY <2>1, <2>6, ApplyMutation
    <3>2. z # NoTask /\ z.key = e.key
      BY <2>1, <2>6, <3>1, ApplyKeepsType, NoTaskIsNone
    <3>3. y.key.at <= e.key.at
      BY <2>1, <2>6 DEF WinsOver
    <3> HIDE DEF z
    <3>4. a <= z.key.at
      BY <2>1, <2>3, <3>2, <3>3
    <3>5. Back(t) \/ \A p \in DOMAIN t : By(d, t[p]) => t[p].key.at <= z.key.at
      <4> SUFFICES ASSUME ~Back(s), NEW p \in DOMAIN t, By(d, t[p])
                   PROVE  t[p].key.at <= e.key.at
        BY <1>2, <3>2
      <4>1. CASE t[p] = e
        BY <2>1, <4>1
      <4>2. CASE p \in DOMAIN s /\ t[p] = s[p]
        <5>1. s[p].key.at <= y.key.at /\ s[p].key.at \in Nat
          BY <1>3, <2>3, <4>2
        <5> QED
          BY <2>1, <3>3, <4>2, <5>1
      <4> QED
        BY <1>1, <4>1, <4>2
    <3> QED
      BY <2>2, <3>1, <3>2, <3>4, <3>5 DEF Top, t
  <2> QED
    BY <2>4, <2>5, <2>6
<1> QED
  BY <1>4, <1>5, <1>6, <1>7

\* One more event, a create that the fold leaves out.
LEMMA TopOfSkip ==
  ASSUME NEW d, NEW a, NEW y, NEW s \in Seq(Event), NEW e \in Event,
         e.kind = "task.created", Top(d, a, TRUE, y, s)
  PROVE  Top(d, a, TRUE, y, Append(s, e))
<1> DEFINE t == Append(s, e)
<1>1. \A p \in DOMAIN t : By(d, t[p]) => p \in DOMAIN s /\ t[p] = s[p]
  BY AppendElements DEF By
<1>2. (\A k : Has(t, k) <=> Has(s, k) \/ e.kind = k) /\ (Back(s) => Back(t))
  BY HasAppend
<1> HIDE DEF t
<1> QED
  BY <1>1, <1>2 DEF Top, t

\* The second pass of a replay.
LEMMA TopOfFold ==
  ASSUME NEW d, NEW a \in Nat, NEW g \in BOOLEAN, NEW y \in Shown, NEW s \in Seq(Event),
         Grounded(d, s), Since(a, s), Top(d, a, g, y, <<>>),
         \A p \in DOMAIN s : s[p].id = BootstrapId => g /\ s[p].kind = "task.created"
  PROVE  Top(d, a, g, Folded({BootstrapId}, y, s), s)
<1> DEFINE F(n) == Folded({BootstrapId}, y, Prefix(s, n))
           K == {n \in 0 .. Len(s) : ~Top(d, a, g, F(n), Prefix(s, n))}
<1>1. K = {}
  <2> SUFFICES ASSUME K # {} PROVE FALSE
    OBVIOUS
  <2>1. PICK n \in K : \A k \in K : n <= k
    <3>1. K \in SUBSET Nat
      OBVIOUS
    <3> QED
      BY <3>1, LeastNumber
  <2>2. n # 0
    <3>1. F(0) = y /\ Prefix(s, 0) = <<>>
      BY FoldOfNone, PrefixEnds
    <3> QED
      BY <3>1
  <2>3. n \in 1 .. Len(s) /\ n - 1 \in 0 .. Len(s) /\ ~(n <= n - 1)
    BY <2>2
  <2>4. n - 1 \notin K
    BY <2>1, <2>3
  <2> DEFINE x == F(n - 1)
             q == Prefix(s, n - 1)
             e == s[n]
  <2>5. Top(d, a, g, x, q) /\ ~Top(d, a, g, F(n), Prefix(s, n))
    BY <2>3, <2>4
  <2>6. /\ q \in Seq(Event) /\ e \in Event /\ Prefix(s, n) = Append(q, e) /\ n \in DOMAIN s
    BY <2>3, PrefixSteps
  <2>7. F(n) = Turn({BootstrapId}, x, e) /\ x \in Shown
    BY <2>6, FoldOfAppend, FoldTyped
  <2>8. Grounded(d, q)
    <3>1. DOMAIN q = 1 .. n - 1 /\ \A p \in DOMAIN q : p \in DOMAIN s /\ q[p] = s[p]
      BY <2>3, PrefixElements
    <3> HIDE DEF q
    <3>2. \A p \in DOMAIN q, r \in DOMAIN s : r < p => r \in DOMAIN q
      BY <2>3, <3>1
    <3> QED
      BY <3>1, <3>2 DEF Grounded
  <2>9. a <= TimeOf(e) /\ (e.id = BootstrapId => g /\ e.kind = "task.created")
    BY <2>6 DEF Since
  <2> HIDE DEF F, K, x, q, e
  <2>10. CASE e.id = BootstrapId
    <3>1. F(n) = x /\ g = TRUE
      BY <2>7, <2>9, <2>10 DEF Turn
    <3> QED
      BY <2>5, <2>6, <2>9, <2>10, <3>1, TopOfSkip
  <2>11. CASE e.id # BootstrapId
    <3>1. F(n) = ApplyEvent(x, e)
      BY <2>7, <2>11 DEF Turn
    <3> QED
      BY <2>5, <2>6, <2>7, <2>8, <2>9, <3>1, TopOfAppend
  <2> QED
    BY <2>10, <2>11
<1>2. Len(s) \in 0 .. Len(s) /\ Prefix(s, Len(s)) = s
  BY PrefixEnds
<1> QED
  BY <1>1, <1>2

\* What a replay of a log shows.
LEMMA TopOfReplay ==
  ASSUME NEW d, NEW a \in Nat, NEW s \in Seq(Event), NEW t, Grounded(d, s), Since(a, s),
         \A p \in DOMAIN s :
           s[p].id = BootstrapId => s[p].kind = "task.created" /\ s[p].task = t
  PROVE  Top(d, a, FALSE, Replayed(s), s)
<1>1. NoTask \in Shown /\ Task \subseteq Shown
  BY DEF Shown
<1>2. CASE BootstrapId \notin Ids(s)
  <2>1. Ids(s) \subseteq Nat \ {BootstrapId}
    BY <1>2, EventTyped DEF Ids
  <2>2. Replayed(s) = Folded({BootstrapId}, NoTask, s)
    BY <1>1, <2>1, FoldSkips DEF Replayed
  <2>3. Top(d, a, FALSE, NoTask, <<>>)
    BY DEF Top, Has
  <2>4. \A p \in DOMAIN s : s[p].id # BootstrapId
    BY <1>2 DEF Ids
  <2> QED
    BY <1>1, <2>2, <2>3, <2>4, TopOfFold
<1>3. CASE BootstrapId \in Ids(s)
  <2>1. PICK p \in DOMAIN s : s[p].id = BootstrapId
    BY <1>3 DEF Ids
  <2>2. s[p] \in Event /\ s[p].kind = "task.created" /\ s[p].task = t
    BY <2>1
  <2>3. t \in Task /\ a <= t.key.at
    BY <2>2, TimesTyped DEF Since, TimeOf
  <2>4. Replayed(s) = Folded({BootstrapId}, t, s)
    BY <1>3, <2>3, FoldOfBootstrap DEF Replayed
  <2>5. Top(d, a, TRUE, t, <<>>)
    BY <2>3, NoTaskIsNone DEF Top
  <2>6. Top(d, a, TRUE, Replayed(s), s)
    BY <1>1, <2>3, <2>4, <2>5, TopOfFold
  <2>7. Has(s, "task.created")
    BY <2>2 DEF Has
  <2> QED
    BY <2>6, <2>7 DEF Top
<1> QED
  BY <1>2, <1>3

----------------------------------------------------------------------------
(* One writer: what a fold of a create, or of a snapshot, and of edits that *)
(* follow each other in time ends with.                                    *)

KeyOf(i) == IF i = 1 THEN Created.key ELSE edits[i].key

\* The edits T of a created task are of one device, each later than those before it.
OneWriter(T) ==
  /\ T \subseteq Nat \ {0} /\ 1 \in T
  /\ Created \in Task /\ Created.wrote = [m \in FieldKind |-> 1]
  /\ \A i \in T \ {1} : edits[i] \in MutationEvent /\ edits[i].id = i
  /\ \A i, j \in T \ {1} : edits[i].key.dev = edits[j].key.dev
  /\ \A i, j \in T : i < j => KeyOf(i).at < KeyOf(j).at

\* Edit i wrote field m last, of the edits S.
WroteLast(i, m, S) ==
  /\ i \in S /\ (i = 1 \/ edits[i].kind = m)
  /\ \A j \in S \ {1} : edits[j].kind = m => j <= i

\* y is the task with every edit of S applied.
Outcome(y, S) ==
  IF \E i \in S \ {1} : edits[i].kind = "task.deleted" THEN y = NoTask
  ELSE /\ y \in Task
       /\ \E k \in S : y.key = KeyOf(k) /\ \A j \in S : j <= k
       /\ \A m \in FieldKind : WroteLast(y.wrote[m], m, S)

\* Edit i is among S already, or is behind all of S.
Follows(i, S) == i \in S \/ \A j \in S : j < i

LEMMA WriterTyped ==
  ASSUME NEW T, OneWriter(T)
  PROVE  /\ T \subseteq Nat /\ \A i \in T : 1 <= i
         /\ \A i \in T : KeyOf(i) \in Key /\ KeyOf(i).at \in Nat
         /\ Created.key \in Key
<1>1. ASSUME NEW i \in T \ {1} PROVE i \in Nat /\ KeyOf(i) \in Key
  BY MutationIsNoCreate DEF OneWriter, KeyOf
<1>2. KeyOf(1) \in Key /\ Created.key \in Key
  BY DEF OneWriter, Task, KeyOf
<1>3. \A i \in T : i \in Nat /\ KeyOf(i) \in Key
  BY <1>1, <1>2
<1>4. \A k \in Key : k.at \in Nat
  BY DEF Key
<1>5. \A i \in T : 1 <= i
  BY DEF OneWriter
<1> QED
  BY <1>3, <1>4, <1>5, <1>2

LEMMA OutcomeOfCreate ==
  ASSUME OneWriter({1})
  PROVE  Outcome(Created, {1})
<1>1. \A m \in FieldKind : WroteLast(Created.wrote[m], m, {1})
  BY DEF WroteLast, OneWriter
<1>2. Created.key = KeyOf(1) /\ 1 <= 1
  BY DEF KeyOf
<1> QED
  BY <1>1, <1>2 DEF Outcome, OneWriter

\* One more edit, whether or not it was among those before.
LEMMA OutcomeOfEdit ==
  ASSUME NEW T, OneWriter(T), NEW S, S \subseteq T, 1 \in S, NEW i \in T \ {1},
         NEW y, Outcome(y, S), Follows(i, S)
  PROVE  Outcome(ApplyEvent(y, edits[i]), S \union {i})
<1> DEFINE e == edits[i]
           R == S \union {i}
<1>1. /\ e \in MutationEvent /\ e.id = i /\ e.kind \in Kind /\ e.key \in Key
      /\ e.kind # "task.created" /\ KeyOf(i) = e.key /\ i \in R \ {1}
  BY MutationIsNoCreate DEF OneWriter, KeyOf
<1>2. T \subseteq Nat /\ \A j \in T : KeyOf(j) \in Key /\ KeyOf(j).at \in Nat
  BY WriterTyped
<1> HIDE DEF e
<1>3. CASE \E j \in S \ {1} : edits[j].kind = "task.deleted"
  <2>1. y = NoTask
    BY <1>3 DEF Outcome
  <2>2. ApplyEvent(y, e) = NoTask
    BY <1>1, <2>1 DEF ApplyEvent
  <2>3. \E j \in R \ {1} : edits[j].kind = "task.deleted"
    BY <1>3
  <2> QED
    BY <2>2, <2>3 DEF Outcome, e
<1>4. CASE ~\E j \in S \ {1} : edits[j].kind = "task.deleted"
  <2>1. y \in Task /\ y.key \in Key /\ \A m \in FieldKind : WroteLast(y.wrote[m], m, S)
    BY <1>4 DEF Outcome, Task
  <2>2. PICK k \in S : y.key = KeyOf(k) /\ \A j \in S : j <= k
    BY <1>4 DEF Outcome
  <2>3. k \in Nat /\ i \in Nat /\ k \in T /\ i \in T
    BY <1>2
  <2>4. CASE i \in S
    <3>1. i <= k
      BY <2>2, <2>4
    <3>2. i = k \/ KeyOf(i).at < KeyOf(k).at
      BY <2>3, <3>1 DEF OneWriter
    <3>3. KeyOf(k).at \in Nat /\ KeyOf(i).at \in Nat
      BY <1>2, <2>3
    <3>4. ~WinsOver(e.key, y.key)
      BY <1>1, <2>1, <2>2, <3>2, <3>3, TieBreakIsAcyclic DEF WinsOver
    <3>5. ApplyEvent(y, e) = y /\ R = S
      BY <1>1, <2>1, <2>4, <3>4, ApplyMutation
    <3> QED
      BY <3>5 DEF e
  <2>5. CASE i \notin S
    <3>1. \A j \in S : j < i
      BY <2>5 DEF Follows
    <3>2. KeyOf(k).at < KeyOf(i).at /\ KeyOf(k).at \in Nat /\ KeyOf(i).at \in Nat
      BY <1>2, <2>2, <2>3, <3>1 DEF OneWriter
    <3>3. WinsOver(e.key, y.key)
      BY <1>1, <2>2, <3>2 DEF WinsOver
    <3>4. CASE e.kind = "task.deleted"
      <4>1. ApplyEvent(y, e) = NoTask
        BY <1>1, <2>1, <3>3, <3>4, ApplyMutation
      <4>2. \E j \in R \ {1} : edits[j].kind = "task.deleted"
        BY <1>1, <3>4 DEF e
      <4> QED
        BY <4>1, <4>2 DEF Outcome, e
    <3>5. CASE e.kind # "task.deleted"
      <4> DEFINE z == [wrote |-> [y.wrote EXCEPT ![e.kind] = i], key |-> e.key]
      <4>1. ApplyEvent(y, e) = z
        BY <1>1, <2>1, <3>3, <3>5, ApplyMutation
      <4>2. z \in Task
        BY <1>1, <2>1, <3>5, <4>1, ApplyKeepsType
      <4>3. \A j \in R \ {1} : edits[j].kind # "task.deleted"
        BY <1>4, <3>5 DEF e
      <4>4. z.key = KeyOf(i) /\ \A j \in R : j <= i
        <5>1. \A j \in S : j \in Nat /\ j < i
          BY <1>2, <3>1
        <5> QED
          BY <1>1, <2>3, <5>1
      <4>5. ASSUME NEW m \in FieldKind PROVE WroteLast(z.wrote[m], m, R)
        <5>1. y.wrote \in [FieldKind -> Nat]
          BY <2>1 DEF Task, FieldKind
        <5>2. CASE m = e.kind
          <6>1. z.wrote[m] = i
            BY <5>1, <5>2
          <6> QED
            BY <4>4, <5>2, <6>1 DEF WroteLast, e
        <5>3. CASE m # e.kind
          <6>1. z.wrote[m] = y.wrote[m]
            BY <5>1, <5>3
          <6>2. WroteLast(y.wrote[m], m, S)
            BY <2>1
          <6>3. \A j \in R \ {1} : edits[j].kind = m => j \in S
            BY <5>3 DEF e
          <6> HIDE DEF z
          <6> QED
            BY <6>1, <6>2, <6>3 DEF WroteLast
        <5> QED
          BY <5>2, <5>3
      <4>6. i \in R
        OBVIOUS
      <4> HIDE DEF z
      <4>7. Outcome(z, R)
        BY <4>2, <4>3, <4>4, <4>5, <4>6 DEF Outcome
      <4> QED
        BY <4>1, <4>7 DEF e
    <3> QED
      BY <3>4, <3>5
  <2> QED
    BY <2>4, <2>5
<1> QED
  BY <1>3, <1>4

\* Each edit of the list is among S, or behind it and behind those ahead in the list.
InRow(s, S) ==
  \A p \in DOMAIN s :
    s[p].id \in {BootstrapId, 1}
    \/ Follows(s[p].id, S \union (Ids(Prefix(s, p - 1)) \ {BootstrapId}))

\* The ids of a part of a list that takes only of T.
LEMMA PrefixTakes ==
  ASSUME NEW T, 1 \in T, NEW s \in Seq(Event), Takes(s, T), NEW n \in 0 .. Len(s)
  PROVE  Ids(Prefix(s, n)) \ {BootstrapId} \subseteq T
<1> DEFINE q == Prefix(s, n)
<1>1. \A p \in DOMAIN q : p \in DOMAIN s /\ q[p] = s[p]
  BY PrefixElements
<1>2. \A p \in DOMAIN s : s[p].id \in {BootstrapId} \union T
  BY DEF Takes
<1> HIDE DEF q
<1>3. \A i \in Ids(q) : i \in {BootstrapId} \union T
  BY ONLY <1>1, <1>2 DEF Ids
<1> QED
  BY <1>3 DEF q

LEMMA FoldOfWriter ==
  ASSUME NEW T, OneWriter(T), NEW S, S \subseteq T, 1 \in S, NEW y \in Shown, Outcome(y, S),
         \A i \in S \ {1} : edits[i].kind # "task.deleted",
         NEW s \in Seq(Event), Takes(s, T), InRow(s, S), ~Back(s)
  PROVE  Outcome(Folded({BootstrapId}, y, s), S \union (Ids(s) \ {BootstrapId}))
<1> DEFINE F(n) == Folded({BootstrapId}, y, Prefix(s, n))
           G(n) == S \union (Ids(Prefix(s, n)) \ {BootstrapId})
           K == {n \in 0 .. Len(s) : ~Outcome(F(n), G(n))}
<1>1. K = {}
  <2> SUFFICES ASSUME K # {} PROVE FALSE
    OBVIOUS
  <2>1. PICK n \in K : \A k \in K : n <= k
    <3>1. K \in SUBSET Nat
      OBVIOUS
    <3> QED
      BY <3>1, LeastNumber
  <2>2. n # 0
    <3>1. F(0) = y /\ G(0) = S
      BY FoldOfNone, PrefixEnds, IdsOfNone
    <3> QED
      BY <3>1
  <2>3. n \in 1 .. Len(s) /\ n - 1 \in 0 .. Len(s) /\ ~(n <= n - 1)
    BY <2>2
  <2>4. n - 1 \notin K
    BY <2>1, <2>3
  <2> DEFINE q == Prefix(s, n - 1)
             x == F(n - 1)
             R == G(n - 1)
             e == s[n]
  <2>5. Outcome(x, R) /\ ~Outcome(F(n), G(n))
    BY <2>3, <2>4
  <2>6. q \in Seq(Event) /\ e \in Event /\ Prefix(s, n) = Append(q, e) /\ n \in DOMAIN s
    BY <2>3, PrefixSteps
  <2>7. F(n) = Turn({BootstrapId}, x, e) /\ x \in Shown
    BY <2>6, FoldOfAppend, FoldTyped
  <2>8. G(n) = R \union ({e.id} \ {BootstrapId})
    BY <2>6, IdsOfAppend
  <2>9. R \subseteq T /\ 1 \in R
    BY <2>3, PrefixTakes
  <2>10. \/ e.kind = "task.created" /\ e.id \in {BootstrapId, 1}
         \/ e.id \in T \ {1} /\ e = edits[e.id]
    BY <2>6 DEF Takes
  <2>11. e.id \in {BootstrapId, 1} \/ Follows(e.id, R)
    BY <2>6 DEF InRow
  <2>12. ASSUME e.kind = "task.created" PROVE x \in Task
    <3> SUFFICES ASSUME x = NoTask PROVE FALSE
      BY <2>7 DEF Shown
    <3>1. PICK i \in R \ {1} : edits[i].kind = "task.deleted"
      BY <2>5, NoTaskIsNone DEF Outcome
    <3>2. i \in Ids(q) \ {BootstrapId, 1}
      BY <3>1
    <3>3. PICK p \in DOMAIN q : q[p].id = i
      BY <3>2 DEF Ids
    <3>4. p \in DOMAIN s /\ q[p] = s[p] /\ p < n
      <4>1. DOMAIN q = 1 .. n - 1 /\ \A r \in 1 .. n - 1 : r \in DOMAIN s /\ q[r] = s[r]
        BY <2>3, PrefixElements
      <4> HIDE DEF q
      <4> QED
        BY <2>3, <3>3, <4>1
    <3>5. s[p] = edits[i]
      BY <3>2, <3>3, <3>4 DEF Takes
    <3> QED
      BY <2>6, <2>12, <3>1, <3>4, <3>5 DEF Back
  <2> HIDE DEF F, G, K, q, x, R, e
  <2>13. CASE e.id = BootstrapId
    <3>1. F(n) = x /\ G(n) = R
      BY <2>7, <2>8, <2>13 DEF Turn
    <3> QED
      BY <2>5, <3>1
  <2>14. CASE e.kind = "task.created" /\ e.id = 1
    <3>1. F(n) = x /\ G(n) = R
      BY <2>7, <2>8, <2>9, <2>12, <2>14, CreateAgain DEF Turn, BootstrapId
    <3> QED
      BY <2>5, <3>1
  <2>15. CASE e.id \in T \ {1} /\ e = edits[e.id] /\ e.id # BootstrapId
    <3> DEFINE i == e.id
    <3>1. F(n) = ApplyEvent(x, edits[i]) /\ G(n) = R \union {i}
      BY <2>7, <2>8, <2>15 DEF Turn
    <3>2. i \in T \ {1} /\ Follows(i, R)
      BY <2>11, <2>15
    <3> HIDE DEF i
    <3>3. Outcome(ApplyEvent(x, edits[i]), R \union {i})
      BY <2>5, <2>9, <3>2, OutcomeOfEdit
    <3> QED
      BY <2>5, <3>1, <3>3
  <2> QED
    BY <2>10, <2>13, <2>14, <2>15
<1>2. Len(s) \in 0 .. Len(s) /\ Prefix(s, Len(s)) = s
  BY PrefixEnds
<1> QED
  BY <1>1, <1>2

\* Of one writer's edits, one further back in a list has the greater id.
LEMMA WriterRises ==
  ASSUME NEW T, OneWriter(T), NEW s \in Seq(Event), Takes(s, T), Rising(s),
         NEW p \in DOMAIN s, NEW q \in DOMAIN s, p < q,
         s[p].id \notin {BootstrapId, 1}, s[q].id \notin {BootstrapId, 1}
  PROVE  s[p].id < s[q].id
<1> DEFINE i == s[p].id
           j == s[q].id
<1>1. i \in T \ {1} /\ j \in T \ {1} /\ s[p] = edits[i] /\ s[q] = edits[j]
  BY DEF Takes
<1>2. /\ edits[i] \in MutationEvent /\ edits[j] \in MutationEvent
      /\ edits[i].key.dev = edits[j].key.dev
  BY <1>1 DEF OneWriter
<1>3. Ahead(s[p], s[q])
  BY DEF Rising
<1> QED
  BY <1>1, <1>2, <1>3, MutationIsNoCreate DEF Ahead

LEMMA WriterInRow ==
  ASSUME NEW T, OneWriter(T), NEW s \in Seq(Event), Takes(s, T), Rising(s),
         NEW S, \A i \in T \ S, j \in S : i # 1 => j < i
  PROVE  InRow(s, S)
<1> SUFFICES ASSUME NEW q \in DOMAIN s, s[q].id \notin {BootstrapId, 1}, s[q].id \notin S,
                    NEW j \in S \union (Ids(Prefix(s, q - 1)) \ {BootstrapId})
             PROVE  j < s[q].id
  BY DEF InRow, Follows
<1>1. s[q].id \in T \ {1}
  BY DEF Takes
<1>2. CASE j \in S
  BY <1>1, <1>2
<1>3. CASE j = 1
  <2>1. s[q].id \in Nat /\ 1 <= s[q].id /\ s[q].id # 1
    BY <1>1, WriterTyped
  <2> QED
    BY <1>3, <2>1
<1>4. CASE j \notin S /\ j # 1
  <2> DEFINE n == q - 1
  <2>1. q \in Nat /\ n \in 0 .. Len(s) /\ \A p \in 1 .. n : p < q
    OBVIOUS
  <2>2. j \in Ids(Prefix(s, n)) /\ j # BootstrapId
    BY <1>4
  <2> HIDE DEF n
  <2>3. PICK p \in 1 .. n : p \in DOMAIN s /\ s[p].id = j
    BY <2>1, <2>2, PrefixElements DEF Ids
  <2> QED
    BY <1>4, <2>1, <2>2, <2>3, WriterRises
<1> QED
  BY <1>2, <1>3, <1>4

\* What is further back in a list follows its front.
LEMMA FrontFollows ==
  ASSUME NEW T, OneWriter(T), NEW s \in Seq(Event), Takes(s, T), Rising(s),
         T \subseteq Ids(s), BootstrapId \notin Ids(s), NEW n \in 0 .. Len(s)
  PROVE  \A i \in T \ Ids(Prefix(s, n)), j \in Ids(Prefix(s, n)) : i # 1 => j < i
<1> SUFFICES ASSUME NEW i \in T \ Ids(Prefix(s, n)), NEW j \in Ids(Prefix(s, n)), i # 1
             PROVE  j < i
  OBVIOUS
<1>1. PICK p \in 1 .. n : p \in DOMAIN s /\ s[p].id = j
  BY PrefixElements DEF Ids
<1>2. PICK q \in DOMAIN s : s[q].id = i
  BY DEF Ids
<1>3. q \notin 1 .. n
  <2> SUFFICES ASSUME q \in 1 .. n PROVE FALSE
    OBVIOUS
  <2>1. q \in DOMAIN Prefix(s, n) /\ Prefix(s, n)[q].id = i
    BY <1>2, PrefixElements
  <2> QED
    BY <2>1 DEF Ids
<1>4. p < q
  BY <1>1, <1>2, <1>3
<1>5. i # BootstrapId /\ j # BootstrapId
  BY <1>1, <1>2 DEF Ids
<1>6. CASE j = 1
  <2>1. i \in Nat /\ 1 <= i
    BY WriterTyped
  <2> QED
    BY <1>6, <2>1
<1>7. CASE j # 1
  BY <1>1, <1>2, <1>4, <1>5, <1>7, WriterRises
<1> QED
  BY <1>6, <1>7

\* What a log that begins with the create shows.
LEMMA OutcomeFromCreate ==
  ASSUME NEW T, OneWriter(T), NEW s \in Seq(Event), Takes(s, T), Rising(s), ~Back(s),
         s # <<>>, s[1] = edits[1], s[1].kind = "task.created", s[1].id = 1,
         BootstrapId \notin Ids(s)
  PROVE  Outcome(Replayed(s), Ids(s))
<1>1. NoTask \in Shown /\ Created \in Shown
  BY DEF Shown, OneWriter
<1>2. Ids(s) \subseteq Nat \ {BootstrapId}
  BY EventTyped DEF Ids
<1>3. Folded(Nat \ {BootstrapId}, NoTask, s) = NoTask
  BY <1>1, <1>2, FoldSkips
<1>4. s[1].task = Created /\ Created \in Task
  BY DEF Created, OneWriter
<1>5. Replayed(s) = Folded({BootstrapId}, Created, s)
  BY <1>3, <1>4, FoldFromCreate DEF Replayed, BootstrapId
<1>6. OneWriter({1}) /\ {1} \subseteq T
  BY DEF OneWriter
<1>7. Outcome(Created, {1})
  BY <1>6, OutcomeOfCreate
<1>8. InRow(s, {1})
  <2>1. \A i \in T \ {1} : 1 < i
    <3>1. \A i \in T : i \in Nat /\ 1 <= i
      BY WriterTyped
    <3> QED
      BY <3>1
  <2> QED
    BY <2>1, WriterInRow
<1>9. Outcome(Folded({BootstrapId}, Created, s), {1} \union (Ids(s) \ {BootstrapId}))
  BY <1>1, <1>6, <1>7, <1>8, FoldOfWriter
<1>10. {1} \union (Ids(s) \ {BootstrapId}) = Ids(s)
  <2>1. 1 \in DOMAIN s
    OBVIOUS
  <2> QED
    BY <2>1 DEF Ids
<1> QED
  BY <1>5, <1>9, <1>10

\* A settled device whose log begins with the create.
LEMMA HeardFromCreate ==
  ASSUME ConvergeInv, Settled, OneWriter(Ids(bus)), NEW d \in Device, ~Back(log[d]),
         BootstrapId \notin Ids(log[d])
  PROVE  Outcome(shown[d], Ids(bus))
<1>1. /\ log[d] \in Seq(Event) /\ Rising(log[d]) /\ Takes(log[d], Ids(bus))
      /\ Ids(log[d]) = Ids(bus) /\ log[d] # <<>> /\ log[d][1] = edits[1]
      /\ log[d][1].kind = "task.created" /\ log[d][1].id = 1 /\ shown[d] = Replayed(log[d])
  BY SettledLog
<1>2. Outcome(Replayed(log[d]), Ids(log[d]))
  BY <1>1, OutcomeFromCreate
<1> QED
  BY <1>1, <1>2

\* The front of the founder's log that a snapshot was taken of.
LEMMA SnapshotOutcome ==
  ASSUME ConvergeInv, Settled, OneWriter(Ids(bus)), NEW d \in Device, ~Back(log[Founder]),
         snapshot[d] # NoTask
  PROVE  /\ Outcome(snapshot[d], covers[d]) /\ covers[d] \subseteq Ids(bus) /\ 1 \in covers[d]
         /\ \A i \in covers[d] \ {1} : edits[i].kind # "task.deleted"
         /\ \A i \in Ids(bus) \ covers[d], j \in covers[d] : i # 1 => j < i
<1> DEFINE s == log[Founder]
           T == Ids(bus)
<1>1. Founder \in Device /\ BootstrapId \notin Ids(s)
  BY BoardAssumption DEF ConvergeInv, SnapInv
<1>2. /\ s \in Seq(Event) /\ Rising(s) /\ Takes(s, T) /\ Ids(s) = T /\ s # <<>>
      /\ s[1] = edits[1] /\ s[1].kind = "task.created" /\ s[1].id = 1
  BY <1>1, SettledLog
<1>3. PICK n \in 0 .. Len(s) :
        snapshot[d] = Replayed(Prefix(s, n)) /\ covers[d] = Ids(Prefix(s, n))
  BY DEF ConvergeInv, SnapInv, SnapAt
<1>4. OneWriter(T) /\ ~Back(s)
  OBVIOUS
<1> HIDE DEF s, T
<1> DEFINE t == Prefix(s, n)
<1>5. t \in Seq(Event) /\ DOMAIN t = 1 .. n /\ \A p \in 1 .. n : p \in DOMAIN s /\ t[p] = s[p]
  BY <1>2, PrefixElements
<1>6. n # 0
  BY <1>2, <1>3, PrefixEnds, ReplayedOfNone
<1>7. 1 \in 1 .. n
  BY <1>6
<1>8. \A i \in T \ Ids(t), j \in Ids(t) : i # 1 => j < i
  BY <1>1, <1>2, <1>4, FrontFollows DEF s
<1>9. t # <<>> /\ t[1] = edits[1] /\ t[1].kind = "task.created" /\ t[1].id = 1
  BY <1>2, <1>5, <1>7
<1> HIDE DEF t
<1>10. Ids(t) \subseteq Ids(s) /\ 1 \in Ids(t)
  BY <1>5, <1>7, <1>9 DEF Ids
<1>11. Takes(t, T) /\ Rising(t) /\ ~Back(t)
  BY <1>2, <1>4, <1>5 DEF Takes, Rising, Back
<1>12. BootstrapId \notin Ids(t)
  BY <1>1, <1>10 DEF s
<1>13. Outcome(Replayed(t), Ids(t))
  BY <1>4, <1>5, <1>9, <1>11, <1>12, OutcomeFromCreate
<1>14. \A i \in Ids(t) \ {1} : edits[i].kind # "task.deleted"
  BY <1>3, <1>13 DEF Outcome, t
<1> QED
  BY <1>2, <1>3, <1>8, <1>10, <1>13, <1>14 DEF t, T

\* A settled device that started from a snapshot.
LEMMA HeardFromSnapshot ==
  ASSUME ConvergeInv, Settled, OneWriter(Ids(bus)), NEW d \in Device,
         ~Back(log[d]), ~Back(log[Founder]), BootstrapId \in Ids(log[d])
  PROVE  Outcome(shown[d], Ids(bus))
<1> DEFINE s == log[d]
           S == covers[d]
           T == Ids(bus)
<1>1. /\ s \in Seq(Event) /\ Rising(s) /\ Takes(s, T) /\ shown[d] = Replayed(s)
      /\ \A p \in DOMAIN s : s[p].id = BootstrapId =>
           snapshot[d] # NoTask /\ s[p].kind = "task.created" /\ s[p].task = snapshot[d]
  BY SettledLog
<1>2. snapshot[d] # NoTask /\ snapshot[d] \in Task
  <2>1. PICK p \in DOMAIN s : s[p].id = BootstrapId
    BY DEF Ids
  <2> QED
    BY <1>1, <2>1 DEF ConvergeInv, BoardInv, TypeOK
<1>3. /\ Outcome(snapshot[d], S) /\ S \subseteq T /\ 1 \in S
      /\ \A i \in S \ {1} : edits[i].kind # "task.deleted"
      /\ \A i \in T \ S, j \in S : i # 1 => j < i
  BY <1>2, SnapshotOutcome
<1>4. S \union (Ids(s) \ {BootstrapId}) = T
  BY DEF Settled, Known
<1>5. BootstrapId \in Ids(s) /\ OneWriter(T) /\ ~Back(s)
  OBVIOUS
<1> HIDE DEF s, S, T
<1>6. InRow(s, S)
  BY <1>1, <1>3, <1>5, WriterInRow
<1>7. Replayed(s) = Folded({BootstrapId}, snapshot[d], s)
  BY <1>1, <1>2, <1>5, FoldOfBootstrap DEF Replayed
<1>8. snapshot[d] \in Shown
  BY <1>2 DEF Shown
<1>9. Outcome(Folded({BootstrapId}, snapshot[d], s), S \union (Ids(s) \ {BootstrapId}))
  BY <1>1, <1>3, <1>5, <1>6, <1>8, FoldOfWriter
<1> QED
  BY <1>1, <1>4, <1>7, <1>9 DEF T

----------------------------------------------------------------------------
(* What makes the edits of a patient writer follow each other in time. *)

\* What dispatch stamps: a mutation is later than the task as shown.
LEMMA StampedLater ==
  ASSUME TypeOK, NEW d \in Device, DispatchCreate(d) \/ DispatchMutation(d)
  PROVE  \E e \in Event :
           /\ e.id = Len(edits) + 1 /\ Enqueue(d, e)
           /\ IF e.kind = "task.created"
              THEN edits = <<>> /\ e.task.wrote = [m \in FieldKind |-> 1]
              ELSE shown[d] \in Task /\ By(d, e) /\ shown[d].key.at < e.key.at
<1>1. CASE DispatchCreate(d)
  <2>1. PICK now \in Clock : Enqueue(d, CreateEvent(1, KeyAt(d, now)))
    BY <1>1 DEF DispatchCreate
  <2> DEFINE e == CreateEvent(1, KeyAt(d, now))
  <2>2. e \in Event
    BY BoardAssumption, StampedTyped DEF Kind
  <2>3. e.id = Len(edits) + 1 /\ e.kind = "task.created" /\ edits = <<>>
    BY <1>1 DEF DispatchCreate, CreateEvent
  <2>4. e.task.wrote = [m \in FieldKind |-> 1]
    BY DEF CreateEvent, FieldKind
  <2> HIDE DEF e
  <2> QED
    BY <2>1, <2>2, <2>3, <2>4 DEF e
<1>2. CASE DispatchMutation(d)
  <2>1. PICK now \in Clock, m \in Mutation :
          Enqueue(d, [id |-> Len(edits) + 1, kind |-> m,
                      key |-> KeyAt(d, EnsureMonotonic(now, shown[d]))])
    BY <1>2 DEF DispatchMutation
  <2> DEFINE at == EnsureMonotonic(now, shown[d])
             e == [id |-> Len(edits) + 1, kind |-> m, key |-> KeyAt(d, at)]
  <2>2. shown[d] \in Task /\ shown[d].key.at \in Nat
    BY <1>2 DEF DispatchMutation, TypeOK, Task, Key
  <2>3. at \in Nat /\ shown[d].key.at < at
    BY <2>2, BoardAssumption DEF EnsureMonotonic
  <2>4. Len(edits) + 1 \in Nat /\ m \in Kind
    BY BoardAssumption DEF TypeOK
  <2> HIDE DEF at
  <2>5. e \in Event
    BY <2>3, <2>4, StampedTyped
  <2>6. m # "task.created"
    BY <2>4 DEF Kind
  <2>7. e.key.at = at /\ By(d, e) /\ e.id = Len(edits) + 1 /\ e.kind = m
    BY <2>6 DEF KeyAt, By
  <2>8. Enqueue(d, e)
    BY <2>1 DEF at
  <2> HIDE DEF e
  <2> QED
    BY <2>2, <2>3, <2>5, <2>6, <2>7, <2>8
<1> QED
  BY <1>1, <1>2

\* What a create starts with, and who makes an edit.
EditsInv ==
  /\ edits # <<>> => Created.wrote = [m \in FieldKind |-> 1]
  /\ \A i \in DOMAIN edits : i # 1 => \E d \in Device : By(d, edits[i])

\* As long as its author has yet to accept the create, nobody has anything.
FirstAt(d) == 1 \in Ids(queue[d]) => Len(edits) = 1 /\ Nothing

\* A session begins with nothing shown; and what it shows during the load, it
\* shows because its own create was all that the log had.
SessionAt(d) ==
  /\ invite[d] = "none" /\ d # Founder => phase[d] = "absent"
  /\ late[d] \/ unseeded[d] => phase[d] \in {"joining", "live"}
  /\ phase[d] \in {"absent", "unmounted"} => shown[d] = NoTask /\ emitting[d] = NoEvent
  /\ phase[d] \in {"loading", "loaded"} =>
       /\ emitting[d] # NoEvent /\ emitting[d].kind = "task.created" => log[d] = <<emitting[d]>>
       /\ shown[d] # NoTask => ToShow(d, shown[d])

SessionInv == EditsInv /\ \A d \in Device : FirstAt(d) /\ SessionAt(d)

LEMMA InitSession == Init => SessionInv
<1> SUFFICES ASSUME Init PROVE SessionInv
  OBVIOUS
<1>1. EditsInv
  BY DEF Init, EditsInv
<1>2. \A d \in Device : FirstAt(d)
  BY IdsOfNone DEF Init, FirstAt
<1>3. \A d \in Device : SessionAt(d)
  BY DEF Init, SessionAt
<1> QED
  BY <1>1, <1>2, <1>3 DEF SessionInv

\* What a step leaves the other devices.
Apart(c) ==
  /\ log'[c] = log[c] /\ queue'[c] = queue[c] /\ emitting'[c] = emitting[c]
  /\ shown'[c] = shown[c] /\ phase'[c] = phase[c] /\ invite'[c] = invite[c]
  /\ late'[c] = late[c] /\ unseeded'[c] = unseeded[c] /\ snapshot'[c] = snapshot[c]

LEMMA OthersApart ==
  ASSUME TypeOK, NEW d \in Device, Edits(d) \/ Receives(d) \/ Hook(d), NEW c \in Device, c # d
  PROVE  Apart(c)
<1>1. CASE DispatchCreate(d) \/ DispatchMutation(d)
  <2>1. PICK e \in Event : Enqueue(d, e)
    BY <1>1, EditStamped
  <2> QED
    BY <2>1 DEF Enqueue, Apart, TypeOK
<1>2. CASE AcceptLocal(d)
  BY <1>2 DEF AcceptLocal, Accept, Apart, TypeOK
<1>3. CASE Send(d)
  BY <1>3 DEF Send, Apart
<1>4. CASE Deliver(d)
  <2>1. UNCHANGED <<log, emitting>> \/ Accept(d, bus[read[d] + 1])
    BY <1>4 DEF Deliver
  <2>2. log'[c] = log[c] /\ emitting'[c] = emitting[c]
    BY <2>1 DEF Accept, TypeOK
  <2> QED
    BY <1>4, <2>2 DEF Deliver, Apart
<1>5. CASE Invite(d) \/ PublishSnapshot(d) \/ JoinTimeout(d)
  BY <1>5 DEF Invite, PublishSnapshot, JoinTimeout, Apart, TypeOK
<1>6. CASE ResolveBootstrap(d)
  <2>1. \/ UNCHANGED <<log, emitting, late>>
        \/ /\ Accept(d, [id |-> BootstrapId, kind |-> "task.created", task |-> snapshot[d]])
           /\ late' = [late EXCEPT ![d] = @ \/ log[d] # <<>>]
    BY <1>6 DEF ResolveBootstrap
  <2>2. log'[c] = log[c] /\ emitting'[c] = emitting[c] /\ late'[c] = late[c]
    BY <2>1 DEF Accept, TypeOK
  <2>3. shown'[c] = shown[c] /\ phase'[c] = phase[c] /\ queue'[c] = queue[c]
    BY <1>6 DEF ResolveBootstrap, TypeOK
  <2>4. invite'[c] = invite[c] /\ unseeded'[c] = unseeded[c] /\ snapshot'[c] = snapshot[c]
    BY <1>6 DEF ResolveBootstrap, TypeOK
  <2> QED
    BY ONLY <2>2, <2>3, <2>4 DEF Apart
<1>7. CASE Emit(d) \/ Mount(d) \/ LoadLog(d)
  BY <1>7 DEF Emit, Mount, LoadLog, Apart, TypeOK
<1>8. CASE Rebuild(d) \/ LoadFails(d)
  BY <1>8 DEF Rebuild, LoadFails, StartEngine, Apart, TypeOK
<1>9. CASE Reload(d)
  BY <1>9 DEF Reload, Apart, TypeOK
<1> QED
  BY <1>1, <1>2, <1>3, <1>4, <1>5, <1>6, <1>7, <1>8, <1>9 DEF Edits, Receives, Hook

LEMMA NextEdits ==
  ASSUME TypeOK, StartInv, EditsInv, [Next]_vars
  PROVE  EditsInv'
<1>1. ASSUME NEW d \in Device, DispatchCreate(d) \/ DispatchMutation(d) PROVE EditsInv'
  <2>1. PICK e \in Event :
          /\ e.id = Len(edits) + 1 /\ Enqueue(d, e)
          /\ IF e.kind = "task.created"
             THEN edits = <<>> /\ e.task.wrote = [m \in FieldKind |-> 1]
             ELSE shown[d] \in Task /\ By(d, e) /\ shown[d].key.at < e.key.at
    BY <1>1, StampedLater
  <2> DEFINE n == Len(edits)
  <2>2. edits' = Append(edits, e) /\ edits \in Seq(Event)
    BY <2>1 DEF Enqueue, TypeOK
  <2>3. /\ n \in Nat /\ edits'[n + 1] = e
        /\ \A i \in DOMAIN edits : edits'[i] = edits[i] /\ i \in Nat
        /\ \A i \in DOMAIN edits' : i \in DOMAIN edits \/ i = n + 1
    BY <2>2, AppendElements
  <2>4. CASE e.kind = "task.created"
    <3>1. n = 0 /\ DOMAIN edits = {}
      BY <2>1, <2>4
    <3>2. edits'[1] = e /\ \A i \in DOMAIN edits' : i = 1
      BY <2>3, <3>1
    <3> QED
      BY <2>1, <2>4, <3>2 DEF EditsInv, Created
  <2>5. CASE e.kind # "task.created"
    <3>1. \A i \in DOMAIN edits' : i # 1 => \E c \in Device : By(c, edits'[i])
      BY <2>1, <2>3, <2>5 DEF EditsInv
    <3>2. Created' = Created /\ edits # <<>>
      <4>1. edits # <<>>
        BY <2>1, <2>5, NoTaskIsNone DEF StartInv, Nothing
      <4>2. 1 \in DOMAIN edits
        BY <2>2, <4>1
      <4> QED
        BY <2>3, <4>1, <4>2 DEF Created
    <3> QED
      BY <3>1, <3>2 DEF EditsInv
  <2> QED
    BY <2>4, <2>5
<1>2. ASSUME UNCHANGED edits PROVE EditsInv'
  BY <1>2 DEF EditsInv, Created
<1>3. ASSUME NEW d \in Device, AcceptLocal(d) \/ Send(d) \/ Receives(d) \/ Hook(d)
      PROVE  UNCHANGED edits
  BY <1>3 DEF AcceptLocal, Send, Receives, Deliver, Invite, PublishSnapshot, ResolveBootstrap,
       JoinTimeout, Hook, Emit, Mount, LoadLog, Rebuild, LoadFails, Reload
<1>4. CASE UNCHANGED vars
  BY <1>2, <1>4 DEF vars
<1> QED
  BY <1>1, <1>2, <1>3, <1>4 DEF Next, Edits

LEMMA EnqueueFirst ==
  ASSUME TypeOK, IdInv, StartInv, \A c \in Device : FirstAt(c),
         NEW d \in Device, DispatchCreate(d) \/ DispatchMutation(d), NEW c \in Device
  PROVE  FirstAt(c)'
<1>1. PICK e \in Event :
        /\ e.id = Len(edits) + 1 /\ Enqueue(d, e)
        /\ IF e.kind = "task.created"
           THEN edits = <<>> /\ e.task.wrote = [m \in FieldKind |-> 1]
           ELSE shown[d] \in Task /\ By(d, e) /\ shown[d].key.at < e.key.at
  BY StampedLater
<1>2. edits' = Append(edits, e) /\ edits \in Seq(Event) /\ queue[c] \in Seq(Event)
  BY <1>1 DEF Enqueue, TypeOK
<1>3. CASE e.kind = "task.created"
  <2>1. edits = <<>> /\ Nothing
    BY <1>1, <1>3 DEF StartInv
  <2>2. Len(edits') = 1
    BY <1>2, <2>1
  <2>3. Nothing'
    BY <1>1, <2>1 DEF Enqueue, Nothing
  <2> QED
    BY <2>2, <2>3 DEF FirstAt
<1>4. CASE e.kind # "task.created"
  <2>1. ~Nothing
    BY <1>1, <1>4, NoTaskIsNone DEF Nothing
  <2>2. edits # <<>>
    BY <2>1 DEF StartInv
  <2>3. e.id # 1
    BY <1>1, <1>2, <2>2
  <2>4. 1 \notin Ids(queue[c])
    BY <2>1 DEF FirstAt
  <2>5. queue'[c] = queue[c] \/ queue'[c] = Append(queue[c], e)
    BY <1>1 DEF Enqueue, TypeOK
  <2>6. 1 \notin Ids(queue'[c])
    BY <1>2, <2>3, <2>4, <2>5, IdsOfAppend
  <2> QED
    BY <2>6 DEF FirstAt
<1> QED
  BY <1>3, <1>4

LEMMA AcceptLocalFirst ==
  ASSUME TypeOK, IdInv, \A c \in Device : FirstAt(c),
         NEW d \in Device, AcceptLocal(d), NEW c \in Device
  PROVE  FirstAt(c)'
<1>1. queue[d] \in Seq(Event) /\ queue[d] # <<>> /\ queue'[d] = Tail(queue[d])
  BY DEF AcceptLocal, TypeOK
<1>2. c # d => queue'[c] = queue[c]
  BY DEF AcceptLocal, TypeOK
<1>3. /\ Head(queue[d]).id \in Ids(queue[d])
      /\ Ids(queue'[d]) \subseteq Ids(queue[d]) /\ Head(queue[d]).id \notin Ids(queue'[d])
  BY <1>1, HeadAndTail DEF IdInv
<1>4. Ids(queue'[c]) \subseteq Ids(queue[c])
  BY <1>2, <1>3
<1>5. CASE 1 \in Ids(queue[c])
  <2>1. Len(edits) = 1
    BY <1>5 DEF FirstAt
  <2>2. Ids(queue[d]) \subseteq 1 .. 1
    BY <2>1 DEF IdInv
  <2>3. Head(queue[d]).id = 1 /\ 1 \in Ids(queue[d])
    BY <1>3, <2>2
  <2>4. c = d
    BY <1>5, <2>3 DEF IdInv
  <2> QED
    BY <1>3, <2>3, <2>4 DEF FirstAt
<1>6. CASE 1 \notin Ids(queue[c])
  BY <1>4, <1>6 DEF FirstAt
<1> QED
  BY <1>5, <1>6

LEMMA NextFirst ==
  ASSUME TypeOK, IdInv, StartInv, \A c \in Device : FirstAt(c), [Next]_vars
  PROVE  \A c \in Device : FirstAt(c)'
<1> SUFFICES ASSUME NEW c \in Device PROVE FirstAt(c)'
  OBVIOUS
<1>1. ASSUME NEW d \in Device, Send(d) \/ Receives(d) \/ Hook(d) PROVE FirstAt(c)'
  <2>1. queue'[c] = queue[c] \/ queue'[c] = <<>>
    BY <1>1 DEF TypeOK, Send, Receives, Deliver, Invite, PublishSnapshot, ResolveBootstrap,
         JoinTimeout, Hook, Emit, Mount, LoadLog, Rebuild, LoadFails, Reload
  <2>2. UNCHANGED edits
    BY <1>1 DEF Send, Receives, Deliver, Invite, PublishSnapshot, ResolveBootstrap,
         JoinTimeout, Hook, Emit, Mount, LoadLog, Rebuild, LoadFails, Reload
  <2>3. ASSUME 1 \in Ids(queue[c]) PROVE Nothing'
    <3>1. Len(edits) = 1 /\ Nothing
      BY <2>3 DEF FirstAt
    <3>2. Ids(bus) \subseteq 1 .. 1 /\ 1 \notin Ids(bus)
      BY <2>3, <3>1 DEF IdInv
    <3>3. bus = <<>>
      BY <3>2, NoIds DEF TypeOK
    <3>4. CASE Send(d)
      BY <3>1, <3>4 DEF Send, Nothing
    <3> QED
      BY <1>1, <3>1, <3>3, <3>4, NothingStays
  <2>4. ASSUME 1 \in Ids(queue'[c]) PROVE 1 \in Ids(queue[c])
    BY <2>1, <2>4, IdsOfNone
  <2>5. CASE 1 \in Ids(queue[c])
    BY <2>2, <2>3, <2>5 DEF FirstAt
  <2> QED
    BY <2>4, <2>5 DEF FirstAt
<1>2. CASE UNCHANGED vars
  BY <1>2 DEF vars, FirstAt, Nothing
<1> QED
  BY <1>1, <1>2, EnqueueFirst, AcceptLocalFirst DEF Next, Edits

\* An event behind the log of a session that has not seeded yet.
LEMMA AcceptLocalSession ==
  ASSUME TypeOK, IdInv, OriginInv, NEW d \in Device, FirstAt(d), SessionAt(d), AcceptLocal(d)
  PROVE  SessionAt(d)'
<1> DEFINE e == Head(queue[d])
<1>1. /\ e \in Event /\ Accept(d, e) /\ e.id \in Ids(queue[d])
      /\ UNCHANGED <<invite, late, unseeded, phase, shown>>
  BY HeadAndTail DEF AcceptLocal, TypeOK
<1>2. e.id # BootstrapId
  BY <1>1 DEF IdInv, BootstrapId
<1>3. e.kind = "task.created" => e.id = 1
  <2>1. IsOf(e, edits)
    BY OfTail DEF AcceptLocal, OriginInv, OriginAt, TypeOK
  <2> QED
    BY <2>1 DEF IsOf, OriginInv
<1>4. e # NoEvent
  BY <1>1, EventTyped
<1> HIDE DEF e
<1>5. log[d] \in Seq(Event) /\ log'[d] = Append(log[d], e) /\ emitting'[d] = e
      /\ emitting[d] = NoEvent
  BY <1>1 DEF Accept, TypeOK
<1>6. ASSUME phase[d] \in {"loading", "loaded"}, e.kind = "task.created"
      PROVE  log'[d] = <<e>> /\ shown[d] = NoTask
  <2>1. Nothing
    BY <1>1, <1>3, <1>6 DEF FirstAt
  <2>2. log[d] = <<>> /\ shown[d] = NoTask
    BY <2>1 DEF Nothing
  <2> QED
    BY <1>5, <2>2
<1>7. ASSUME phase[d] \in {"loading", "loaded"}, shown[d] # NoTask
      PROVE  ApplyEvent(shown[d], e) = Replayed(log'[d])
  <2>1. shown[d] = Replayed(log[d])
    BY <1>5, <1>7 DEF SessionAt, ToShow
  <2> QED
    BY <1>1, <1>2, <1>5, <2>1, ReplayedOfAppend
<1>8. /\ invite'[d] = invite[d] /\ late'[d] = late[d] /\ unseeded'[d] = unseeded[d]
      /\ phase'[d] = phase[d] /\ shown'[d] = shown[d]
  BY <1>1
<1>9. ~(phase[d] \in {"absent", "unmounted"})
  BY DEF AcceptLocal, Mounted
<1> QED
  BY <1>4, <1>5, <1>6, <1>7, <1>8, <1>9 DEF SessionAt, ToShow

LEMMA EmitSession ==
  ASSUME TypeOK, NEW d \in Device, SessionAt(d), Emit(d)
  PROVE  SessionAt(d)'
<1> DEFINE e == emitting[d]
<1>1. e \in Event /\ e # NoEvent /\ shown'[d] = ApplyEvent(shown[d], e) /\ emitting'[d] = NoEvent
  BY DEF Emit, TypeOK
<1>2. /\ invite' = invite /\ late' = late /\ unseeded' = unseeded /\ phase' = phase
      /\ log' = log
  BY DEF Emit
<1> HIDE DEF e
<1>3. ~(phase[d] \in {"absent", "unmounted"})
  BY <1>1 DEF SessionAt, e
<1>4. ASSUME phase[d] \in {"loading", "loaded"}, shown'[d] # NoTask
      PROVE  shown'[d] = Replayed(log[d])
  <2>1. CASE shown[d] # NoTask
    BY <1>1, <1>4, <2>1 DEF SessionAt, ToShow, e
  <2>2. CASE shown[d] = NoTask
    <3>1. e.kind = "task.created"
      BY <1>1, <1>4, <2>2 DEF ApplyEvent
    <3>2. log[d] = Append(<<>>, e)
      BY <1>1, <1>4, <3>1 DEF SessionAt, e
    <3>3. Replayed(log[d]) = ApplyEvent(NoTask, e)
      BY <1>1, <3>2, ReplayedOfAppend, ReplayedOfNone, EmptyTyped
    <3> QED
      BY <1>1, <2>2, <3>3
  <2> QED
    BY <2>1, <2>2
<1> QED
  BY <1>1, <1>2, <1>3, <1>4 DEF SessionAt, ToShow

LEMMA ReceivesSession ==
  ASSUME TypeOK, NEW d \in Device, SessionAt(d), Receives(d)
  PROVE  SessionAt(d)'
<1>1. CASE Deliver(d)
  BY <1>1 DEF Deliver, SessionAt
<1>2. CASE Invite(d)
  <2>1. phase[d] = "absent" /\ shown[d] = NoTask /\ emitting[d] = NoEvent
        /\ ~late[d] /\ ~unseeded[d]
    BY <1>2 DEF Invite, SessionAt
  <2>2. phase'[d] = "unmounted" /\ invite'[d] = "invited" /\ UNCHANGED <<late, unseeded, shown, emitting>>
    BY <1>2 DEF Invite, TypeOK
  <2> QED
    BY <2>1, <2>2 DEF SessionAt
<1>3. CASE PublishSnapshot(d)
  <2>1. invite'[d] = "synced" /\ UNCHANGED <<late, unseeded, shown, emitting, phase, log>>
    BY <1>3 DEF PublishSnapshot, TypeOK
  <2> QED
    BY <2>1 DEF SessionAt, ToShow
<1>4. CASE ResolveBootstrap(d) \/ JoinTimeout(d)
  <2>1. phase[d] \in {"joining", "live"} /\ phase'[d] = "live" /\ invite' = invite
    BY <1>4 DEF ResolveBootstrap, JoinTimeout, TypeOK
  <2> QED
    BY <2>1 DEF SessionAt
<1> QED
  BY <1>1, <1>2, <1>3, <1>4 DEF Receives

LEMMA HookSession ==
  ASSUME TypeOK, NEW d \in Device, SessionAt(d), Hook(d)
  PROVE  SessionAt(d)'
<1>1. CASE Mount(d)
  <2>1. phase[d] = "unmounted" /\ phase'[d] = "loading"
        /\ UNCHANGED <<invite, late, unseeded, shown, emitting, log>>
    BY <1>1 DEF Mount, TypeOK
  <2> QED
    BY <2>1 DEF SessionAt
<1>2. CASE LoadLog(d)
  <2>1. phase[d] = "loading" /\ phase'[d] = "loaded"
        /\ UNCHANGED <<invite, late, unseeded, shown, emitting, log>>
    BY <1>2 DEF LoadLog, TypeOK
  <2> QED
    BY <2>1 DEF SessionAt, ToShow
<1>3. CASE Rebuild(d) \/ LoadFails(d)
  <2>1. phase[d] \in {"loading", "loaded"} /\ phase'[d] \in {"joining", "live"} /\ invite' = invite
    BY <1>3 DEF Rebuild, LoadFails, StartEngine, TypeOK
  <2> QED
    BY <2>1 DEF SessionAt
<1>4. CASE Reload(d)
  <2>1. /\ Mounted(d) /\ phase'[d] = "unmounted" /\ shown'[d] = NoTask /\ emitting'[d] = NoEvent
        /\ late'[d] = FALSE /\ unseeded'[d] = FALSE /\ invite' = invite
    BY <1>4 DEF Reload, TypeOK
  <2> QED
    BY <2>1 DEF SessionAt, Mounted
<1> QED
  BY <1>1, <1>2, <1>3, <1>4, EmitSession DEF Hook

LEMMA NextSession ==
  ASSUME BoardInv, OriginInv, StartInv, SessionInv, [Next]_vars
  PROVE  SessionInv'
<1>1. TypeOK /\ IdInv /\ EditsInv /\ \A c \in Device : FirstAt(c) /\ SessionAt(c)
  BY DEF BoardInv, SessionInv
<1>2. EditsInv'
  BY <1>1, NextEdits
<1>3. \A c \in Device : FirstAt(c)'
  BY <1>1, NextFirst
<1>4. ASSUME NEW c \in Device PROVE SessionAt(c)'
  <2>1. ASSUME NEW d \in Device, Edits(d) \/ Receives(d) \/ Hook(d), c # d PROVE SessionAt(c)'
    <3>1. Apart(c)
      BY <1>1, <2>1, OthersApart
    <3> QED
      BY <1>1, <3>1 DEF SessionAt, ToShow, Apart
  <2>2. ASSUME Edits(c) PROVE SessionAt(c)'
    <3>1. CASE DispatchCreate(c) \/ DispatchMutation(c)
      <4>1. PICK e \in Event : Enqueue(c, e)
        BY <1>1, <3>1, EditStamped
      <4> QED
        BY <1>1, <4>1 DEF Enqueue, SessionAt, ToShow
    <3>2. CASE Send(c)
      BY <1>1, <3>2 DEF Send, SessionAt, ToShow
    <3> QED
      BY <1>1, <2>2, <3>1, <3>2, AcceptLocalSession DEF Edits
  <2>3. CASE UNCHANGED vars
    BY <1>1, <2>3 DEF vars, SessionAt, ToShow
  <2>4. ASSUME Receives(c) \/ Hook(c) PROVE SessionAt(c)'
    BY <1>1, <2>4, ReceivesSession, HookSession
  <2> QED
    BY <2>1, <2>2, <2>3, <2>4 DEF Next
<1> QED
  BY <1>2, <1>3, <1>4 DEF SessionInv

----------------------------------------------------------------------------
(* The edits of a patient writer are in its log in the order of their times. *)

CreatedAt == Created.key.at

\* Every edit, and every snapshot, is of a task that has been created.
BornInv ==
  /\ \A i \in DOMAIN edits : i # 1 => CreatedAt < edits[i].key.at
  /\ \A d \in Device : snapshot[d] # NoTask => CreatedAt <= snapshot[d].key.at

\* At most one edit waits, and it waits for the create it edits to be accepted first.
WaitAt(d) ==
  /\ Len(queue[d]) <= 1 /\ Grounded(d, log[d])
  /\ queue[d] # <<>> /\ By(d, Head(queue[d])) => Has(log[d], "task.created")

\* What is shown once the pending event is folded.
Pending(d) == IF emitting[d] = NoEvent THEN shown[d] ELSE ApplyEvent(shown[d], emitting[d])

\* Also a session that folded its bootstrap late shows no task older than its edits.
TopAt(d) == late[d] /\ ~unseeded[d] => Top(d, CreatedAt, FALSE, Pending(d), log[d])

\* Of device d's edits in s and in t, those with greater ids have later times.
InTime(d, s, t) ==
  \A p \in DOMAIN s, q \in DOMAIN t :
    By(d, s[p]) /\ By(d, t[q]) /\ s[p].id < t[q].id => s[p].key.at < t[q].key.at

RiseAt(d) == Back(log[d]) \/ (InTime(d, log[d], log[d]) /\ InTime(d, log[d], queue[d]))

PatientAt(d) == WaitAt(d) /\ TopAt(d) /\ RiseAt(d)

PatientInv == ~hasty => BornInv /\ \A d \in Device : PatientAt(d)

LoneInv == ConvergeInv /\ SessionInv /\ PatientInv

LEMMA GroundedAppend ==
  ASSUME NEW d, NEW s \in Seq(Event), NEW e \in Event, Grounded(d, s),
         By(d, e) => Has(s, "task.created")
  PROVE  Grounded(d, Append(s, e))
<1> DEFINE t == Append(s, e)
           n == Len(s) + 1
<1>1. /\ t[n] = e
      /\ \A p \in DOMAIN s : p \in DOMAIN t /\ t[p] = s[p] /\ p < n
      /\ \A p \in DOMAIN t : p \in DOMAIN s \/ p = n
  BY AppendElements
<1> HIDE DEF t, n
<1>2. Grounded(d, t)
  BY <1>1 DEF Grounded, Has
<1> QED
  BY <1>2 DEF t

\* An event of another device, or a create, changes nothing about the times.
LEMMA InTimeOfOther ==
  ASSUME NEW d, NEW s \in Seq(Event), NEW e \in Event, ~By(d, e), InTime(d, s, s), NEW t
  PROVE  /\ InTime(d, Append(s, e), Append(s, e))
         /\ InTime(d, s, t) => InTime(d, Append(s, e), t)
<1> DEFINE r == Append(s, e)
<1>1. \A p \in DOMAIN r : By(d, r[p]) => p \in DOMAIN s /\ r[p] = s[p]
  BY AppendElements
<1> HIDE DEF r
<1>2. InTime(d, r, r) /\ (InTime(d, s, t) => InTime(d, r, t))
  BY <1>1 DEF InTime
<1> QED
  BY <1>2 DEF r

\* One more edit of the device, behind those before it.
LEMMA InTimeOfOwn ==
  ASSUME NEW d, NEW s \in Seq(Event), NEW e \in Event, InTime(d, s, s),
         \A p \in DOMAIN s : By(d, s[p]) /\ By(d, e) =>
           s[p].id < e.id /\ s[p].key.at < e.key.at
  PROVE  InTime(d, Append(s, e), Append(s, e))
<1> DEFINE r == Append(s, e)
<1>1. \A p \in DOMAIN r : r[p] = e \/ (p \in DOMAIN s /\ r[p] = s[p] /\ s[p].id \in Nat)
  BY AppendElements, EventTyped
<1>2. e.id \in Nat
  BY EventTyped
<1> HIDE DEF r
<1>3. InTime(d, r, r)
  BY <1>1, <1>2 DEF InTime
<1> QED
  BY <1>3 DEF r

\* An edit is no older than the create.
LEMMA EditSince ==
  ASSUME TypeOK, OriginInv, BornInv, NEW e, IsOf(e, edits)
  PROVE  e \in Event /\ CreatedAt \in Nat /\ CreatedAt <= TimeOf(e)
<1>1. edits \in Seq(Event) /\ e.id \in DOMAIN edits /\ edits[e.id] = e
  BY DEF TypeOK, IsOf
<1>2. 1 \in DOMAIN edits /\ edits[1] \in Event /\ edits[1].kind = "task.created"
  <2>1. 1 \in DOMAIN edits /\ edits[1] \in Event
    BY <1>1
  <2> QED
    BY <2>1 DEF OriginInv
<1>3. CreatedAt \in Nat
  BY <1>2, TimesTyped DEF CreatedAt, Created
<1>4. CASE e.id = 1
  <2>1. e = edits[1]
    BY <1>1, <1>4
  <2> QED
    BY <1>2, <1>3, <2>1 DEF TimeOf, CreatedAt, Created
<1>5. CASE e.id # 1
  <2>1. e.kind # "task.created" /\ CreatedAt < e.key.at /\ e \in Event
    BY <1>1, <1>5 DEF OriginInv, BornInv
  <2>2. e.key.at \in Nat
    BY <2>1, TimesTyped
  <2> QED
    BY <1>3, <2>1, <2>2 DEF TimeOf
<1> QED
  BY <1>4, <1>5

\* And so is a snapshot.
LEMMA BootstrapSince ==
  ASSUME TypeOK, OriginInv, StartInv, BornInv, NEW d \in Device, snapshot[d] # NoTask
  PROVE  CreatedAt \in Nat /\ CreatedAt <= TimeOf(Bootstrap(d))
<1>1. edits # <<>>
  BY DEF StartInv, Nothing
<1>2. 1 \in DOMAIN edits /\ edits[1] \in Event /\ edits[1].kind = "task.created"
  <2>1. 1 \in DOMAIN edits /\ edits[1] \in Event
    BY <1>1 DEF TypeOK
  <2> QED
    BY <2>1 DEF OriginInv
<1>3. CreatedAt \in Nat
  BY <1>2, TimesTyped DEF CreatedAt, Created
<1> QED
  BY <1>3 DEF BornInv, TimeOf, Bootstrap

\* What a rebuild from a log would show.
LEMMA LogTop ==
  ASSUME TypeOK, OriginInv, StartInv, BornInv, NEW d \in Device, Grounded(d, log[d])
  PROVE  Top(d, CreatedAt, FALSE, Replayed(log[d]), log[d])
<1> DEFINE s == log[d]
<1>1. s \in Seq(Event)
  BY DEF TypeOK
<1>2. CASE s = <<>>
  <2>1. Replayed(s) = NoTask /\ ~Has(s, "task.created")
    BY <1>2, ReplayedOfNone DEF Has
  <2> QED
    BY <2>1 DEF Top
<1>3. CASE s # <<>>
  <2>1. \A p \in DOMAIN s :
          IsOf(s[p], edits) \/ (snapshot[d] # NoTask /\ s[p] = Bootstrap(d))
    BY DEF OriginInv, OriginAt
  <2>2. \A p \in DOMAIN s : CreatedAt \in Nat /\ CreatedAt <= TimeOf(s[p])
    BY <2>1, EditSince, BootstrapSince
  <2>3. 1 \in DOMAIN s
    BY <1>1, <1>3
  <2>4. CreatedAt \in Nat /\ Since(CreatedAt, s)
    BY <2>2, <2>3 DEF Since
  <2>5. \A p \in DOMAIN s : s[p].id = BootstrapId =>
          s[p].kind = "task.created" /\ s[p].task = snapshot[d]
    <3>1. 0 \notin DOMAIN edits
      BY DEF TypeOK
    <3> QED
      BY <2>1, <3>1 DEF IsOf, Bootstrap, BootstrapId
  <2>6. Grounded(d, s)
    OBVIOUS
  <2> HIDE DEF s
  <2> QED
    BY <1>1, <2>4, <2>5, <2>6, TopOfReplay DEF s
<1> QED
  BY <1>2, <1>3

\* What a device shows once the pending event is folded.
LEMMA PendingTop ==
  ASSUME ConvergeInv, SessionInv, BornInv, NEW d \in Device, PatientAt(d), ~unseeded[d],
         \/ phase[d] \in {"joining", "live"}
         \/ phase[d] \in {"loading", "loaded"} /\ shown[d] # NoTask
  PROVE  Top(d, CreatedAt, FALSE, Pending(d), log[d])
<1>1. CASE late[d]
  BY <1>1 DEF PatientAt, TopAt
<1>2. CASE ~late[d]
  <2>1. ToShow(d, shown[d])
    <3>1. CASE phase[d] \in {"joining", "live"}
      BY <1>2, <3>1 DEF ConvergeInv, BoardInv, ShowInv, ShowAt
    <3>2. CASE phase[d] \in {"loading", "loaded"} /\ shown[d] # NoTask
      BY <3>2 DEF SessionInv, SessionAt
    <3> QED
      BY <3>1, <3>2
  <2>2. Pending(d) = Replayed(log[d])
    BY <2>1 DEF ToShow, Pending
  <2>3. Top(d, CreatedAt, FALSE, Replayed(log[d]), log[d])
    BY LogTop DEF ConvergeInv, BoardInv, PatientAt, WaitAt
  <2> QED
    BY <2>2, <2>3
<1> QED
  BY <1>1, <1>2

LEMMA PendingTyped ==
  ASSUME TypeOK, NEW d \in Device
  PROVE  shown[d] \in Shown /\ Pending(d) \in Shown
<1>1. shown[d] \in Shown /\ emitting[d] \in Event \union {NoEvent}
  BY DEF TypeOK, Shown
<1> QED
  BY <1>1, ApplyTyped DEF Pending

LEMMA InitLone == Init => LoneInv
<1> SUFFICES ASSUME Init PROVE LoneInv
  OBVIOUS
<1>1. ConvergeInv
  BY InitBoard, InitFlow, InitOrder DEF ConvergeInv
<1>2. SessionInv
  BY InitSession
<1>3. BornInv
  BY DEF Init, BornInv
<1>4. \A d \in Device : PatientAt(d)
  BY DEF Init, PatientAt, WaitAt, TopAt, RiseAt, InTime, Grounded
<1> QED
  BY <1>1, <1>2, <1>3, <1>4 DEF LoneInv, PatientInv

\* A step that leaves the log and what will be shown as they are.
LEMMA KeptPatient ==
  ASSUME NEW d \in Device, PatientAt(d), log'[d] = log[d], CreatedAt' = CreatedAt,
         queue'[d] = queue[d] \/ queue'[d] = <<>>,
         late'[d] /\ ~unseeded'[d] => late[d] /\ ~unseeded[d] /\ Pending(d)' = Pending(d)
  PROVE  PatientAt(d)'
<1>1. WaitAt(d)'
  <2>1. CASE queue'[d] = queue[d]
    BY <2>1 DEF PatientAt, WaitAt
  <2>2. CASE queue'[d] = <<>>
    BY <2>2 DEF PatientAt, WaitAt
  <2> QED
    BY <2>1, <2>2
<1>2. TopAt(d)'
  BY DEF PatientAt, TopAt
<1>3. RiseAt(d)'
  <2>1. CASE queue'[d] = queue[d]
    BY <2>1 DEF PatientAt, RiseAt
  <2>2. CASE queue'[d] = <<>>
    BY <2>2 DEF PatientAt, RiseAt, InTime
  <2> QED
    BY <2>1, <2>2
<1> QED
  BY <1>1, <1>2, <1>3 DEF PatientAt

\* dispatch: the edit is later than what is shown, so than all the device's others.
LEMMA EnqueuePatient ==
  ASSUME LoneInv, NEW d \in Device, DispatchCreate(d) \/ DispatchMutation(d), ~hasty'
  PROVE  BornInv' /\ \A c \in Device : PatientAt(c)'
<1>1. TypeOK /\ IdInv /\ OriginInv /\ StartInv
  BY DEF LoneInv, ConvergeInv, BoardInv
<1>2. PICK e \in Event :
        /\ e.id = Len(edits) + 1 /\ Enqueue(d, e)
        /\ IF e.kind = "task.created"
           THEN edits = <<>> /\ e.task.wrote = [m \in FieldKind |-> 1]
           ELSE shown[d] \in Task /\ By(d, e) /\ shown[d].key.at < e.key.at
  BY <1>1, StampedLater
<1>3. ~hasty /\ queue[d] = <<>> /\ emitting[d] = NoEvent /\ ~unseeded[d]
  BY <1>2 DEF Enqueue
<1>4. BornInv /\ \A c \in Device : PatientAt(c)
  BY <1>3 DEF LoneInv, PatientInv
<1>5. /\ edits' = Append(edits, e) /\ edits \in Seq(Event)
      /\ \A c \in Device : queue'[c] = IF c = d THEN <<e>> ELSE queue[c]
      /\ UNCHANGED <<log, snapshot, shown, emitting, late, unseeded>>
  BY <1>1, <1>2, <1>3 DEF Enqueue, TypeOK
<1>6. CASE e.kind = "task.created"
  <2>1. edits = <<>> /\ Nothing
    BY <1>1, <1>2, <1>6 DEF StartInv
  <2>2. BornInv'
    <3>1. \A i \in DOMAIN edits' : i = 1
      BY <1>5, <2>1
    <3> QED
      BY <1>5, <2>1, <3>1 DEF BornInv, Nothing
  <2>3. ASSUME NEW c \in Device PROVE PatientAt(c)'
    <3>1. log'[c] = <<>> /\ shown'[c] = NoTask /\ emitting'[c] = NoEvent
      BY <1>5, <2>1 DEF Nothing
    <3>2. TopAt(c)'
      BY <3>1 DEF TopAt, Top, Pending, Has
    <3>3. RiseAt(c)'
      BY <3>1 DEF RiseAt, InTime
    <3>4. WaitAt(c)'
      <4>1. Grounded(c, log'[c])
        BY <3>1 DEF Grounded
      <4>2. CASE c = d
        <5>1. queue'[c] = <<e>> /\ ~By(c, e)
          BY <1>5, <1>6, <4>2 DEF By
        <5> QED
          BY <4>1, <5>1 DEF WaitAt
      <4>3. CASE c # d
        <5>1. queue'[c] = queue[c]
          BY <1>5, <4>3
        <5>2. WaitAt(c) /\ log'[c] = log[c]
          BY <1>4, <1>5 DEF PatientAt
        <5> QED
          BY <4>1, <5>1, <5>2 DEF WaitAt
      <4> QED
        BY <4>2, <4>3
    <3> QED
      BY <3>2, <3>3, <3>4 DEF PatientAt
  <2> QED
    BY <2>2, <2>3
<1>7. CASE e.kind # "task.created"
  <2>1. shown[d] \in Task /\ shown[d] # NoTask /\ By(d, e) /\ shown[d].key.at < e.key.at
    BY <1>2, <1>7, NoTaskIsNone
  <2>2. edits # <<>>
    BY <1>1, <2>1 DEF StartInv, Nothing
  <2>3. /\ 1 \in DOMAIN edits
        /\ \A i \in DOMAIN edits : edits'[i] = edits[i]
        /\ \A i \in DOMAIN edits' : i \in DOMAIN edits \/ edits'[i] = e
    BY <1>5, <2>2, AppendElements
  <2>4. CreatedAt' = CreatedAt
    BY <2>3 DEF CreatedAt, Created
  <2>5. Top(d, CreatedAt, FALSE, shown[d], log[d])
    <3>1. phase[d] \in {"loading", "loaded", "joining", "live"}
      BY DEF DispatchCreate, DispatchMutation, Mounted
    <3>2. Pending(d) = shown[d]
      BY <1>3 DEF Pending
    <3> QED
      BY <1>3, <1>4, <2>1, <3>1, <3>2, PendingTop DEF LoneInv
  <2>6. /\ CreatedAt <= shown[d].key.at /\ Has(log[d], "task.created")
        /\ Back(log[d]) \/ \A p \in DOMAIN log[d] : By(d, log[d][p]) =>
                             log[d][p].key.at <= shown[d].key.at
    BY <2>1, <2>5 DEF Top
  <2>7. e.key.at \in Nat /\ shown[d].key.at \in Nat
    BY <1>7, <2>1, TimesTyped
  <2>8. BornInv'
    <3>1. CreatedAt \in Nat
      <4>1. IsOf(edits[1], edits)
        BY <1>1, <2>3 DEF IsOf, OriginInv
      <4> QED
        BY <1>1, <1>4, <4>1, EditSince
    <3>2. CreatedAt < e.key.at
      BY <2>1, <2>6, <2>7, <3>1
    <3>3. \A i \in DOMAIN edits' : i # 1 => CreatedAt < edits'[i].key.at
      BY <1>4, <2>3, <3>2 DEF BornInv
    <3> QED
      BY <1>4, <1>5, <2>4, <3>3 DEF BornInv
  <2>9. ASSUME NEW c \in Device, c # d PROVE PatientAt(c)'
    BY <1>4, <1>5, <2>4, <2>9, KeptPatient DEF Pending
  <2>10. PatientAt(d)'
    <3>1. queue'[d] = <<e>> /\ log'[d] = log[d]
      BY <1>5
    <3>2. WaitAt(d)'
      <4>1. Len(<<e>>) <= 1 /\ Head(<<e>>) = e /\ Grounded(d, log[d])
        BY <1>4 DEF PatientAt, WaitAt
      <4> QED
        BY <2>6, <3>1, <4>1 DEF WaitAt
    <3>3. TopAt(d)'
      <4>1. Pending(d)' = Pending(d)
        BY <1>5 DEF Pending
      <4> QED
        BY <1>4, <1>5, <2>4, <4>1 DEF PatientAt, TopAt
    <3>4. RiseAt(d)'
      <4> SUFFICES ASSUME ~Back(log[d])
                   PROVE  InTime(d, log[d], log[d]) /\ InTime(d, log[d], <<e>>)
        BY <3>1 DEF RiseAt
      <4>1. InTime(d, log[d], log[d])
        BY <1>4 DEF PatientAt, RiseAt
      <4>2. ASSUME NEW p \in DOMAIN log[d], By(d, log[d][p]) PROVE log[d][p].key.at < e.key.at
        <5>1. log[d][p] \in Event
          BY <1>1 DEF TypeOK
        <5>2. log[d][p].key.at \in Nat /\ log[d][p].key.at <= shown[d].key.at
          BY <2>6, <4>2, <5>1, TimesTyped DEF By
        <5> QED
          BY <2>1, <2>7, <5>2
      <4>3. \A q \in DOMAIN <<e>> : <<e>>[q] = e
        OBVIOUS
      <4>4. InTime(d, log[d], <<e>>)
        BY <4>2, <4>3 DEF InTime
      <4> QED
        BY <4>1, <4>4
    <3> QED
      BY <3>2, <3>3, <3>4 DEF PatientAt
  <2> QED
    BY <2>8, <2>9, <2>10
<1> QED
  BY <1>6, <1>7

\* What is accepted, by whichever way it comes.
LEMMA AcceptPatient ==
  ASSUME ConvergeInv, SessionInv, BornInv, NEW d \in Device, PatientAt(d),
         NEW e \in Event, Accept(d, e), UNCHANGED edits, UNCHANGED shown, UNCHANGED unseeded,
         CreatedAt \in Nat, CreatedAt <= TimeOf(e),
         late'[d] => late[d] \/ phase[d] \in {"joining", "live"},
         \/ queue'[d] = queue[d] /\ ~By(d, e)
         \/ queue[d] # <<>> /\ e = Head(queue[d]) /\ queue'[d] = Tail(queue[d])
  PROVE  PatientAt(d)'
<1> DEFINE s == log[d]
<1>1. /\ s \in Seq(Event) /\ log'[d] = Append(s, e) /\ emitting[d] = NoEvent
      /\ emitting'[d] = e /\ e # NoEvent /\ CreatedAt' = CreatedAt /\ queue[d] \in Seq(Event)
  BY EventTyped DEF Accept, ConvergeInv, BoardInv, TypeOK, CreatedAt, Created
<1>2. Grounded(d, s) /\ Len(queue[d]) <= 1
  BY DEF PatientAt, WaitAt
<1>3. By(d, e) => Has(s, "task.created")
  BY DEF PatientAt, WaitAt
<1>4. Grounded(d, Append(s, e)) /\ (\A k : Has(s, k) => Has(Append(s, e), k))
      /\ (Back(s) => Back(Append(s, e)))
  BY <1>1, <1>2, <1>3, GroundedAppend, HasAppend
<1>5. queue'[d] = queue[d] \/ queue'[d] = <<>>
  <2>1. ASSUME queue[d] # <<>> PROVE Tail(queue[d]) = <<>>
    BY <1>1, <1>2, <2>1
  <2> QED
    BY <2>1
<1>6. WaitAt(d)'
  <2>1. CASE queue'[d] = queue[d]
    <3>1. queue[d] # <<>> /\ By(d, Head(queue[d])) => Has(s, "task.created")
      BY DEF PatientAt, WaitAt
    <3> QED
      BY <1>1, <1>2, <1>4, <2>1, <3>1 DEF WaitAt
  <2>2. CASE queue'[d] = <<>>
    BY <1>1, <1>4, <2>2 DEF WaitAt
  <2> QED
    BY <1>5, <2>1, <2>2
<1>7. TopAt(d)'
  <2> SUFFICES ASSUME late'[d], ~unseeded[d]
               PROVE  Top(d, CreatedAt, FALSE, Pending(d)', log'[d])
    BY <1>1 DEF TopAt
  <2>1. Pending(d) = shown[d] /\ Pending(d)' = ApplyEvent(shown[d], e)
    BY <1>1 DEF Pending
  <2>2. Top(d, CreatedAt, FALSE, shown[d], s)
    <3>1. CASE late[d]
      BY <2>1, <3>1 DEF PatientAt, TopAt
    <3>2. CASE ~late[d]
      BY <2>1, <3>2, PendingTop
    <3> QED
      BY <3>1, <3>2
  <2>3. shown[d] \in Shown
    BY PendingTyped DEF ConvergeInv, BoardInv
  <2> HIDE DEF s
  <2>4. Top(d, CreatedAt, FALSE, ApplyEvent(shown[d], e), Append(s, e))
    BY <1>1, <1>2, <2>2, <2>3, TopOfAppend
  <2> QED
    BY <1>1, <2>1, <2>4
<1>8. RiseAt(d)'
  <2>1. ASSUME ~Back(s)
        PROVE  InTime(d, Append(s, e), Append(s, e)) /\ InTime(d, Append(s, e), queue'[d])
    <3>1. InTime(d, s, s) /\ InTime(d, s, queue[d])
      BY <2>1 DEF PatientAt, RiseAt
    <3>2. CASE queue'[d] = queue[d] /\ ~By(d, e)
      BY <1>1, <3>1, <3>2, InTimeOfOther
    <3>3. CASE queue[d] # <<>> /\ e = Head(queue[d]) /\ queue'[d] = Tail(queue[d])
      <4>1. 1 \in DOMAIN queue[d] /\ queue[d][1] = e
        BY <1>1, <3>3
      <4>2. Before(s, queue[d])
        BY DEF ConvergeInv, OrderInv, OrderAt
      <4>3. \A p \in DOMAIN s : Ahead(s[p], e)
        BY <4>1, <4>2 DEF Before
      <4>4. \A p \in DOMAIN s : By(d, s[p]) /\ By(d, e) =>
              s[p].id < e.id /\ s[p].key.at < e.key.at
        <5> TAKE p \in DOMAIN s
        <5>1. By(d, s[p]) /\ By(d, e) => s[p].id < e.id
          BY <4>3 DEF Ahead, By
        <5> QED
          BY <3>1, <4>1, <5>1 DEF InTime
      <4>5. queue'[d] = <<>>
        BY <1>1, <1>2, <3>3
      <4>6. InTime(d, Append(s, e), Append(s, e))
        BY <1>1, <3>1, <4>4, InTimeOfOwn
      <4>7. InTime(d, Append(s, e), <<>>)
        BY DEF InTime
      <4> QED
        BY <4>5, <4>6, <4>7
    <3> QED
      BY <3>2, <3>3
  <2> HIDE DEF s
  <2> QED
    BY <1>1, <1>4, <2>1 DEF RiseAt
<1> QED
  BY <1>6, <1>7, <1>8 DEF PatientAt

LEMMA EditsPatient ==
  ASSUME LoneInv, BornInv, \A c \in Device : PatientAt(c),
         NEW d \in Device, AcceptLocal(d) \/ Send(d)
  PROVE  PatientAt(d)'
<1>1. CASE AcceptLocal(d)
  <2> DEFINE e == Head(queue[d])
  <2>1. IsOf(e, edits)
    BY <1>1, OfTail DEF AcceptLocal, LoneInv, ConvergeInv, BoardInv, TypeOK, OriginInv, OriginAt
  <2>2. e \in Event /\ CreatedAt \in Nat /\ CreatedAt <= TimeOf(e)
    BY <2>1, EditSince DEF LoneInv, ConvergeInv, BoardInv
  <2>3. /\ queue[d] # <<>> /\ Accept(d, e) /\ queue'[d] = Tail(queue[d])
        /\ UNCHANGED edits /\ UNCHANGED shown /\ UNCHANGED unseeded /\ UNCHANGED late
    BY <1>1 DEF AcceptLocal, LoneInv, ConvergeInv, BoardInv, TypeOK
  <2>4. e = Head(queue[d])
    OBVIOUS
  <2> HIDE DEF e
  <2> QED
    BY <2>2, <2>3, <2>4, AcceptPatient DEF LoneInv
<1>2. CASE Send(d)
  BY <1>2, KeptPatient DEF Send, Pending, CreatedAt, Created
<1> QED
  BY <1>1, <1>2

LEMMA ReceivesPatient ==
  ASSUME LoneInv, BornInv, \A c \in Device : PatientAt(c), NEW d \in Device, Receives(d)
  PROVE  PatientAt(d)'
<1>1. TypeOK /\ OriginInv /\ StartInv /\ OrderInv /\ ConvergeInv /\ SessionInv
  BY DEF LoneInv, ConvergeInv, BoardInv
<1>2. CASE Deliver(d)
  <2> DEFINE k == read[d] + 1
             e == bus[k]
  <2>1. k \in DOMAIN bus /\ UNCHANGED <<edits, queue, shown, unseeded, late>>
    BY <1>1, <1>2 DEF Deliver, TypeOK
  <2>2. e \in Event /\ CreatedAt \in Nat /\ CreatedAt <= TimeOf(e)
    <3>1. IsOf(e, edits)
      BY <1>1, <2>1 DEF OriginInv, AreOf
    <3> HIDE DEF e
    <3> QED
      BY <1>1, <3>1, EditSince
  <2>3. CASE UNCHANGED <<log, emitting>>
    BY <2>1, <2>3, KeptPatient DEF Pending, CreatedAt, Created
  <2>4. CASE Accept(d, e) /\ e.id \notin Ids(log[d])
    <3>1. ~By(d, e)
      BY <1>1, <2>1, <2>4 DEF OrderInv, HeardAt
    <3> HIDE DEF e
    <3> QED
      BY <1>1, <2>1, <2>2, <2>4, <3>1, AcceptPatient
  <2> QED
    BY <1>2, <2>3, <2>4 DEF Deliver
<1>3. CASE Invite(d) \/ PublishSnapshot(d) \/ JoinTimeout(d)
  <2>1. UNCHANGED <<log, edits, queue, late, unseeded, shown, emitting>>
    BY <1>3 DEF Invite, PublishSnapshot, JoinTimeout
  <2> QED
    BY <2>1, KeptPatient DEF Pending, CreatedAt, Created
<1>4. CASE ResolveBootstrap(d)
  <2>1. UNCHANGED <<edits, queue, shown, unseeded>> /\ phase[d] \in {"joining", "live"}
    BY <1>4 DEF ResolveBootstrap
  <2>2. CASE UNCHANGED <<log, emitting, late>>
    BY <2>1, <2>2, KeptPatient DEF Pending, CreatedAt, Created
  <2>3. CASE Accept(d, Bootstrap(d)) /\ snapshot[d] # NoTask
    <3> DEFINE e == Bootstrap(d)
    <3>1. CreatedAt \in Nat /\ CreatedAt <= TimeOf(e)
      BY <1>1, <2>3, BootstrapSince
    <3>2. e \in Event /\ ~By(d, e)
      BY <1>1, <2>3 DEF Bootstrap, BootstrapId, TypeOK, Event, By
    <3>3. Accept(d, e)
      BY <2>3
    <3> HIDE DEF e
    <3> QED
      BY <1>1, <2>1, <3>1, <3>2, <3>3, AcceptPatient
  <2> QED
    BY <1>4, <2>2, <2>3 DEF ResolveBootstrap, Bootstrap
<1> QED
  BY <1>2, <1>3, <1>4 DEF Receives

LEMMA HookPatient ==
  ASSUME LoneInv, NEW d \in Device, PatientAt(d), Hook(d)
  PROVE  PatientAt(d)'
<1>1. TypeOK /\ SessionAt(d)
  BY DEF LoneInv, ConvergeInv, BoardInv, SessionInv
<1>2. log'[d] = log[d] /\ CreatedAt' = CreatedAt
  BY DEF Hook, Emit, Mount, LoadLog, Rebuild, LoadFails, Reload, CreatedAt, Created
<1>3. CASE Emit(d)
  <2>1. /\ UNCHANGED <<late, unseeded, queue>> /\ emitting[d] # NoEvent
        /\ emitting'[d] = NoEvent /\ shown'[d] = ApplyEvent(shown[d], emitting[d])
    BY <1>1, <1>3 DEF Emit, TypeOK
  <2>2. Pending(d)' = Pending(d)
    BY <2>1 DEF Pending
  <2> QED
    BY <1>2, <2>1, <2>2, KeptPatient
<1>4. CASE Mount(d) \/ LoadLog(d)
  <2>1. UNCHANGED <<late, unseeded, queue, shown, emitting>>
    BY <1>4 DEF Mount, LoadLog
  <2> QED
    BY <1>2, <2>1, KeptPatient DEF Pending
<1>5. CASE Rebuild(d)
  <2>1. UNCHANGED <<late, queue>> /\ ~late[d]
    BY <1>1, <1>5 DEF Rebuild, SessionAt
  <2> QED
    BY <1>2, <2>1, KeptPatient
<1>6. CASE LoadFails(d)
  <2>1. unseeded'[d] = TRUE /\ UNCHANGED queue
    BY <1>1, <1>6 DEF LoadFails, TypeOK
  <2> QED
    BY <1>2, <2>1, KeptPatient
<1>7. CASE Reload(d)
  <2>1. late'[d] = FALSE /\ queue'[d] = <<>>
    BY <1>1, <1>7 DEF Reload, TypeOK
  <2> QED
    BY <1>2, <2>1, KeptPatient
<1> QED
  BY <1>3, <1>4, <1>5, <1>6, <1>7 DEF Hook

\* A snapshot is of what the founder's log shows, which is no older than the create.
LEMMA NextBorn ==
  ASSUME LoneInv, BornInv, PatientAt(Founder), UNCHANGED edits, [Next]_vars
  PROVE  BornInv'
<1>1. CreatedAt' = CreatedAt /\ TypeOK
  BY DEF CreatedAt, Created, LoneInv, ConvergeInv, BoardInv
<1>2. CASE UNCHANGED snapshot
  BY <1>1, <1>2 DEF BornInv
<1>3. ASSUME NEW d \in Device, PublishSnapshot(d) PROVE BornInv'
  <2>1. \A c \in Device :
          snapshot'[c] = IF c = d THEN Replayed(log[Founder]) ELSE snapshot[c]
    BY <1>1, <1>3 DEF PublishSnapshot, TypeOK
  <2>2. Top(Founder, CreatedAt, FALSE, Replayed(log[Founder]), log[Founder])
    BY LogTop, BoardAssumption DEF LoneInv, ConvergeInv, BoardInv, PatientAt, WaitAt
  <2>3. \A c \in Device : snapshot'[c] # NoTask => CreatedAt <= snapshot'[c].key.at
    BY <2>1, <2>2 DEF Top, BornInv
  <2> QED
    BY <1>1, <2>3 DEF BornInv
<1>4. UNCHANGED snapshot \/ \E d \in Device : PublishSnapshot(d)
  BY DEF Next, vars, Edits, DispatchCreate, DispatchMutation, Enqueue, AcceptLocal, Send,
     Receives, Deliver, Invite, ResolveBootstrap, JoinTimeout, Hook, Emit, Mount, LoadLog,
     Rebuild, LoadFails, Reload
<1> QED
  BY <1>2, <1>3, <1>4

LEMMA NextPatient ==
  ASSUME LoneInv, [Next]_vars
  PROVE  PatientInv'
<1> SUFFICES ASSUME ~hasty' PROVE BornInv' /\ \A c \in Device : PatientAt(c)'
  BY DEF PatientInv
<1>1. ASSUME NEW d \in Device, DispatchCreate(d) \/ DispatchMutation(d)
      PROVE  BornInv' /\ \A c \in Device : PatientAt(c)'
  BY <1>1, EnqueuePatient
<1>2. ASSUME NEW d \in Device, AcceptLocal(d) \/ Send(d) \/ Receives(d) \/ Hook(d)
      PROVE  BornInv' /\ \A c \in Device : PatientAt(c)'
  <2>1. UNCHANGED edits /\ UNCHANGED hasty
    BY <1>2 DEF AcceptLocal, Send, Receives, Deliver, Invite, PublishSnapshot, ResolveBootstrap,
         JoinTimeout, Hook, Emit, Mount, LoadLog, Rebuild, LoadFails, Reload
  <2>2. BornInv /\ \A c \in Device : PatientAt(c)
    BY <2>1 DEF LoneInv, PatientInv
  <2>3. BornInv'
    BY <2>1, <2>2, NextBorn, BoardAssumption
  <2>4. ASSUME NEW c \in Device, c # d PROVE PatientAt(c)'
    <3>1. Apart(c)
      BY <1>2, <2>4, OthersApart DEF Edits, LoneInv, ConvergeInv, BoardInv
    <3> QED
      BY <2>1, <2>2, <3>1, KeptPatient DEF Apart, Pending, CreatedAt, Created
  <2>5. PatientAt(d)'
    BY <1>2, <2>2, EditsPatient, ReceivesPatient, HookPatient
  <2> QED
    BY <2>3, <2>4, <2>5
<1>3. CASE UNCHANGED vars
  <2>1. BornInv /\ \A c \in Device : PatientAt(c)
    BY <1>3 DEF LoneInv, PatientInv, vars
  <2>2. BornInv'
    BY <1>3, <2>1 DEF BornInv, vars, CreatedAt, Created
  <2>3. \A c \in Device : PatientAt(c)'
    BY <1>3, <2>1, KeptPatient DEF vars, Pending, CreatedAt, Created
  <2> QED
    BY <2>2, <2>3
<1> QED
  BY <1>1, <1>2, <1>3 DEF Next, Edits

LEMMA LoneInvariant == Spec => []LoneInv
<1>1. LoneInv /\ [Next]_vars => LoneInv'
  <2> SUFFICES ASSUME LoneInv, [Next]_vars PROVE LoneInv'
    OBVIOUS
  <2>1. ConvergeInv'
    BY NextBoard, NextOrigin, NextStart, NextSnap, NextOrder DEF LoneInv, ConvergeInv, BoardInv
  <2>2. SessionInv'
    BY NextSession DEF LoneInv, ConvergeInv
  <2>3. PatientInv'
    BY NextPatient
  <2> QED
    BY <2>1, <2>2, <2>3 DEF LoneInv
<1> QED
  BY <1>1, InitLone, PTL DEF Spec

\* The published edits of one patient device follow each other.
LEMMA LoneWriter ==
  ASSUME LoneInv, Settled, ~hasty, \A d \in Device : ~Back(log[d]),
         \A i, j \in Mutations : edits[i].key.dev = edits[j].key.dev
  PROVE  OneWriter(Ids(bus)) /\ Mutations = Ids(bus) \ {1}
<1> DEFINE T == Ids(bus)
<1>1. /\ ConvergeInv /\ TypeOK /\ IdInv /\ OriginInv /\ EditsInv /\ BornInv
      /\ \A d \in Device : HeardAt(d) /\ PatientAt(d)
  BY DEF LoneInv, ConvergeInv, BoardInv, OrderInv, SessionInv, PatientInv
<1>2. edits \in Seq(Event) /\ T \subseteq DOMAIN edits /\ T \subseteq Nat \ {0}
  BY <1>1 DEF TypeOK, IdInv
<1>3. 1 \in T
  <2>1. BootstrapId \notin Ids(log[Founder]) /\ Founder \in Device
    BY <1>1, BoardAssumption DEF ConvergeInv, SnapInv
  <2> QED
    BY <1>1, <2>1, SettledLog
<1>4. Created \in Task /\ Created.wrote = [m \in FieldKind |-> 1]
  <2>1. 1 \in DOMAIN edits /\ edits[1] \in Event /\ edits[1].kind = "task.created"
    BY <1>1, <1>2, <1>3 DEF OriginInv
  <2>2. Created \in Task
    BY <2>1, TimesTyped DEF Created
  <2> QED
    BY <1>1, <2>1, <2>2 DEF EditsInv
<1>5. Mutations = T \ {1}
  BY <1>1, <1>2 DEF Mutations, OriginInv
<1>6. \A i \in T \ {1} : edits[i] \in MutationEvent /\ edits[i].id = i
  <2> TAKE i \in T \ {1}
  <2>1. edits[i] \in Event /\ edits[i].kind # "task.created" /\ edits[i].id = i
    BY <1>1, <1>2 DEF OriginInv
  <2> QED
    BY <2>1, TimesTyped
<1>7. ASSUME NEW i \in T, NEW j \in T, i < j PROVE KeyOf(i).at < KeyOf(j).at
  <2>1. j # 1 /\ i \in DOMAIN edits /\ j \in DOMAIN edits
    BY <1>2, <1>7
  <2>2. CASE i = 1
    BY <1>1, <2>1, <2>2 DEF BornInv, KeyOf, CreatedAt
  <2>3. CASE i # 1
    <3>1. PICK w \in Device : By(w, edits[i])
      BY <1>1, <2>1, <2>3 DEF EditsInv
    <3>2. By(w, edits[j])
      <4>1. edits[j].kind # "task.created" /\ edits[i].key.dev = edits[j].key.dev
        BY <1>5, <1>6, <2>1, <2>3, MutationIsNoCreate
      <4> QED
        BY <3>1, <4>1 DEF By
    <3>3. ASSUME NEW k \in T \ {1}, By(w, edits[k])
          PROVE  \E p \in DOMAIN log[w] : log[w][p] = edits[k]
      <4>1. PICK q \in DOMAIN bus : bus[q].id = k
        BY DEF Ids
      <4>2. bus[q] = edits[k]
        BY <1>1, <4>1 DEF OriginInv, AreOf, IsOf
      <4>3. k \in Ids(log[w])
        BY <1>1, <3>3, <4>1, <4>2 DEF HeardAt
      <4>4. PICK p \in DOMAIN log[w] : log[w][p].id = k
        BY <4>3 DEF Ids
      <4>5. k # BootstrapId
        BY <1>2 DEF BootstrapId
      <4>6. IsOf(log[w][p], edits) \/ log[w][p] = Bootstrap(w)
        BY <1>1 DEF OriginInv, OriginAt
      <4>7. Bootstrap(w).id = BootstrapId
        BY DEF Bootstrap
      <4> QED
        BY <4>4, <4>5, <4>6, <4>7 DEF IsOf
    <3>4. PICK p \in DOMAIN log[w] : log[w][p] = edits[i]
      BY <2>3, <3>1, <3>3
    <3>5. PICK q \in DOMAIN log[w] : log[w][q] = edits[j]
      BY <2>1, <3>2, <3>3
    <3>6. InTime(w, log[w], log[w])
      BY <1>1 DEF PatientAt, RiseAt
    <3>7. edits[i].id = i /\ edits[j].id = j
      BY <1>6, <2>1, <2>3
    <3>8. edits[i].key.at < edits[j].key.at
      BY <1>7, <3>1, <3>2, <3>4, <3>5, <3>6, <3>7 DEF InTime
    <3> QED
      BY <2>1, <2>3, <3>8 DEF KeyOf
  <2> QED
    BY <2>2, <2>3
<1>8. \A i, j \in T \ {1} : edits[i].key.dev = edits[j].key.dev
  BY <1>5
<1> HIDE DEF T
<1>9. OneWriter(T)
  BY <1>2, <1>3, <1>4, <1>6, <1>7, <1>8 DEF OneWriter
<1> QED
  BY <1>5, <1>9 DEF T

\* Which edit wrote a field last.
LEMMA LastOne ==
  ASSUME NEW T, OneWriter(T), Mutations = T \ {1}, NEW m \in FieldKind, NEW i,
         WroteLast(i, m, T)
  PROVE  i = LastOf(m)
<1> DEFINE W == {j \in Mutations : edits[j].kind = m}
<1>1. T \subseteq Nat \ {0} /\ i \in T
  BY DEF OneWriter, WroteLast
<1>2. \A j \in W : j \in T /\ j # 1 /\ j <= i
  BY DEF WroteLast
<1>3. i = 1 \/ i \in W
  BY DEF WroteLast
<1>4. LastOf(m) = IF W = {} THEN 1 ELSE CHOOSE j \in W : \A k \in W : k <= j
  BY DEF LastOf
<1> HIDE DEF W
<1>5. CASE W = {}
  BY <1>3, <1>4, <1>5
<1>6. CASE W # {}
  <2>1. i \in W
    <3>1. PICK j \in W : j \in Nat \ {0, 1} /\ j <= i
      BY <1>1, <1>2, <1>6
    <3>2. i # 1
      BY <3>1
    <3> QED
      BY <1>3, <3>2
  <2>2. \A j \in W : (\A k \in W : k <= j) => j = i
    BY <1>1, <1>2, <2>1
  <2>3. (CHOOSE j \in W : \A k \in W : k <= j) = i
    BY <1>2, <2>1, <2>2
  <2> QED
    BY <1>4, <1>6, <2>3
<1> QED
  BY <1>5, <1>6

\* task-store-utils.ts:3-26: for any number of edits by one device, with clocks that
\* may stand still or go back, and whatever snapshots the others start from, settled
\* devices show every edit applied, as long as each was dispatched after those before
\* it were folded.
THEOREM LoneWriterLosesNothing == Spec => []LoneWriterIsHeard
<1>1. ASSUME LoneInv, Settled, ~hasty, \A d \in Device : ~Resurrected(d),
             \A i, j \in Mutations : edits[i].key.dev = edits[j].key.dev,
             NEW d \in Device
      PROVE  IF \E i \in Mutations : edits[i].kind = "task.deleted" THEN shown[d] = NoTask
             ELSE shown[d] # NoTask
                  /\ \A m \in Kind \ {"task.deleted"} : shown[d].wrote[m] = LastOf(m)
  <2> DEFINE T == Ids(bus)
  <2>1. \A c \in Device : ~Back(log[c])
    BY <1>1 DEF Back, Resurrected
  <2>2. OneWriter(T) /\ Mutations = T \ {1}
    BY <1>1, <2>1, LoneWriter
  <2>3. ConvergeInv /\ ~Back(log[d]) /\ ~Back(log[Founder])
    BY <1>1, <2>1, BoardAssumption DEF LoneInv
  <2>4. Outcome(shown[d], T)
    BY <1>1, <2>2, <2>3, HeardFromCreate, HeardFromSnapshot
  <2> HIDE DEF T
  <2>5. CASE \E i \in T \ {1} : edits[i].kind = "task.deleted"
    BY <2>2, <2>4, <2>5 DEF Outcome
  <2>6. CASE ~\E i \in T \ {1} : edits[i].kind = "task.deleted"
    <3>1. shown[d] # NoTask /\ \A m \in FieldKind : WroteLast(shown[d].wrote[m], m, T)
      BY <2>4, <2>6, NoTaskIsNone DEF Outcome
    <3>2. \A m \in FieldKind : shown[d].wrote[m] = LastOf(m)
      BY <2>2, <3>1, LastOne
    <3> QED
      BY <2>2, <2>6, <3>1, <3>2 DEF FieldKind
  <2> QED
    BY <2>5, <2>6
<1>2. LoneInv => LoneWriterIsHeard
  BY <1>1 DEF LoneWriterIsHeard
<1> QED
  BY <1>2, LoneInvariant, PTL

=============================================================================
