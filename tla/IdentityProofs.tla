---------------------------- MODULE IdentityProofs ----------------------------
(* What TLAPS proves of Identity, for every value of its constants: how many *)
(* users, sign-ins and groups there are, whatever a sign-in is too hasty to  *)
(* wait for.                                                                 *)
EXTENDS Identity, TLAPS

LoginRecord  == [st : {"new", "asking", "connecting", "ready", "done"},
                 kind : {"nip07", "nip46", "boot", None}, pk : Pubkey \union {None}]
PageRecord   == [signer : Login \union {"extension", None}, pubkey : Pubkey \union {None},
                 method : {"nip07", "nip46", None}]
SavedRecord  == [nip46 : Pubkey \union {None}, nip07 : BOOLEAN]
RunRecord    == [pc : {"none", "connecting", "migrating", "slot", "minting", "loading",
                       "probing", "over"},
                 inst : Login \union {None}, pk : Pubkey \union {None},
                 slot : Login \union {Old, None}]
ForgetRecord == [pc : {"idle", "leaving", "destroying", "kind5", "clearing", "identity"},
                 by : Pubkey \union {None}, inst : Login \union {None}, todo : SUBSET Group,
                 group : Group \union {None}, method : {"nip07", "nip46", None}, dialog : BOOLEAN]

----------------------------------------------------------------------------
(* The inductive invariant. *)

\* A pending sign-in is of a user; unhurried, it is the only one, and before it
\* nobody is signed in.
OneSignIn ==
  /\ \A l \in Login : Pending(l) => login[l].pk \in Pubkey
  /\ ~hurried => \A l \in Login : Pending(l) =>
                   page.pubkey = None /\ \A k \in Login : Pending(k) => k = l

\* The provider is mounted while somebody is signed in, under the name of a
\* sign-in that is over: no later one takes it.
ProviderFollows ==
  /\ page.pubkey = None <=> inst = None
  /\ page.pubkey = None => active = None /\ client = None /\ page.method = None
  /\ inst # None => login[inst].st = "done"

\* Each init() knows its user and its provider; the client is of the mounted one.
RunsAreNamed ==
  /\ \A l \in Login : run[l].pc # "none" =>
       run[l].pk \in Pubkey /\ run[l].inst \in Login /\ login[run[l].inst].st = "done"
  /\ client # None => run[client].pc # "none" /\ run[client].inst = inst

\* Unhurried, the stores and what the mounted provider has started are of the user
\* on the page.
BoundAsShown ==
  ~hurried => /\ active = page.pubkey
              /\ \A l \in Login : run[l].pc # "none" /\ run[l].inst = inst
                                    => run[l].pk = page.pubkey

\* A sign-in whose session is the one that is stored.
Restores(l) == login[l].st = "ready" \/ (login[l].st = "connecting" /\ login[l].kind = "boot")

\* Unhurried, a stored session has an owner: the page, the sign-in under way, or a
\* user that the forget of another session has signed out.
SessionHasOwner ==
  ~hurried =>
    \/ saved.nip46 \in crossed \union {None}
    \/ page.method = "nip46" /\ saved.nip46 = page.pubkey
    \/ \E l \in Login : Restores(l) /\ saved.nip46 = login[l].pk

\* A forget is of a user and of the provider it was started from, whose
\* authentication method it holds.
ForgetIsNamed ==
  forget.pc # "idle" =>
    /\ forget.by \in Pubkey /\ forget.inst \in Login /\ login[forget.inst].st = "done"
    /\ ~hurried /\ forget.inst = inst => forget.method = page.method

\* The forget has announced its departure from what it destroys, and in the end
\* from every group the user was in when it began.
Announces ==
  forget.pc # "idle" =>
    /\ forget.pc = "destroying" => forget.group \in departed[forget.by]
    /\ forget.pc \notin {"leaving", "destroying"} => forget.todo = {}
    /\ forget.by \notin crossed =>
         member[forget.by] \subseteq forget.todo \union departed[forget.by] \union late[forget.by]

\* TypeOK, with its records named.
Typed ==
  /\ login \in [Login -> LoginRecord] /\ checked \in BOOLEAN
  /\ page \in PageRecord /\ saved \in SavedRecord
  /\ active \in Pubkey \union {None} /\ inst \in Login \union {None}
  /\ run \in [Login -> RunRecord] /\ client \in Login \union {None}
  /\ forget \in ForgetRecord
  /\ slot \in [Pubkey -> Login \union {Old, None}]
  /\ keys \in [Pubkey -> SUBSET Group] /\ member \in [Pubkey -> SUBSET Group]
  /\ departed \in [Pubkey -> SUBSET Group] /\ late \in [Pubkey -> SUBSET Group]
  /\ crossed \subseteq Pubkey /\ hurried \in BOOLEAN
  /\ reloads \in 0 .. MaxReloads

IInv ==
  /\ Typed /\ OneSignIn /\ ProviderFollows /\ RunsAreNamed /\ BoundAsShown
  /\ SessionHasOwner /\ ForgetIsNamed /\ Announces /\ NoGhostLeaf

LEMMA TypedIsTypeOK == Typed <=> TypeOK
  BY DEF Typed, TypeOK, LoginRecord, PageRecord, SavedRecord, RunRecord, ForgetRecord

----------------------------------------------------------------------------
(* The provider follows the page. *)

LEMMA StartedType ==
  ASSUME Typed, NEW l \in Login, NEW i \in Login \union {None}, NEW pk \in Pubkey \union {None}
  PROVE /\ Started(l, i, pk) \in [Login -> RunRecord]
        /\ Started(l, i, pk)[l].pc = "connecting"
        /\ Started(l, i, pk)[l].inst = i /\ Started(l, i, pk)[l].pk = pk
        /\ \A k \in Login \ {l} : Started(l, i, pk)[k] = run[k]
<1>1. [NoRun EXCEPT !.pc = "connecting", !.inst = i, !.pk = pk] \in RunRecord
  BY DEF NoRun, RunRecord
<1> QED
  BY <1>1 DEF Typed, Started, NoRun

LEMMA CommitTypes ==
  ASSUME Typed, NEW l \in Login, NEW p \in PageRecord, Commit(l, p)
  PROVE /\ page' \in PageRecord /\ page' = p
        /\ active' \in Pubkey \union {None} /\ inst' \in Login \union {None}
        /\ run' \in [Login -> RunRecord] /\ client' \in Login \union {None}
<1>1. page' = p /\ p.pubkey \in Pubkey \union {None}
  BY DEF Commit, PageRecord
<1>2. CASE Mounts(l, p)
  BY <1>1, <1>2, StartedType DEF Mounts, Typed
<1>3. CASE Switches(l, p)
  BY <1>1, <1>3, StartedType DEF Switches, Typed
<1>4. CASE Renames(p) \/ Unmounts(p) \/ UNCHANGED mount
  BY <1>1, <1>4 DEF Renames, Unmounts, mount, Typed
<1> QED
  BY <1>1, <1>2, <1>3, <1>4 DEF Commit

\* A sign-in that gives the page a user is pending before and over after, and,
\* unhurried, no user replaces another.
LEMMA CommitKeepsProvider ==
  ASSUME Typed, ProviderFollows, RunsAreNamed, BoundAsShown,
         NEW l \in Login, NEW p \in PageRecord, Commit(l, p),
         p.pubkey = None => p.method = None,
         \A k \in Login : login[k].st = "done" => login'[k].st = "done",
         page.pubkey = None /\ p.pubkey # None => Pending(l) /\ login'[l].st = "done",
         ~hurried' => ~hurried /\ (page.pubkey = None \/ p.pubkey = None)
  PROVE (ProviderFollows /\ RunsAreNamed /\ BoundAsShown)'
<1>1. page' = p /\ None \notin Login /\ None \notin Pubkey
  BY IdentityAssumption DEF Commit
<1>2. CASE Mounts(l, p)
  <2>1. /\ run' = Started(l, l, p.pubkey) /\ p.pubkey \in Pubkey /\ active' = p.pubkey
        /\ inst' = l /\ client' = None
    BY <1>1, <1>2 DEF Mounts, ProviderFollows, PageRecord
  <2>2. login[l].st # "done" /\ login'[l].st = "done"
    BY <1>2 DEF Mounts, Pending
  <2>3. /\ run'[l].pc = "connecting" /\ run'[l].inst = l /\ run'[l].pk = p.pubkey
        /\ \A k \in Login \ {l} : run'[k] = run[k]
    BY <2>1, StartedType
  <2>4. \A k \in Login \ {l} : run'[k].pc # "none" => run'[k].inst # l
    BY <2>2, <2>3 DEF RunsAreNamed
  <2> QED
    BY <1>1, <2>1, <2>2, <2>3, <2>4 DEF ProviderFollows, RunsAreNamed, BoundAsShown
<1>3. CASE Switches(l, p)
  <2>1. /\ run' = Started(l, inst, p.pubkey) /\ p.pubkey \in Pubkey /\ active' = None
        /\ inst' = inst /\ client' = client /\ page.pubkey # None /\ inst \in Login
    BY <1>1, <1>3 DEF Switches, ProviderFollows, PageRecord, Typed
  <2>2. /\ run'[l].pc = "connecting" /\ run'[l].inst = inst /\ run'[l].pk = p.pubkey
        /\ \A k \in Login \ {l} : run'[k] = run[k]
    BY <2>1, StartedType
  <2>3. hurried'
    BY <1>1, <2>1
  <2>4. client # None => client \in Login
    BY DEF Typed
  <2> QED
    BY <1>1, <2>1, <2>2, <2>3, <2>4 DEF ProviderFollows, RunsAreNamed, BoundAsShown
<1>4. CASE Renames(p)
  <2>1. hurried' /\ UNCHANGED <<inst, run, client>> /\ page.pubkey # None /\ p.pubkey # None
    BY <1>4 DEF Renames
  <2> QED
    BY <1>1, <2>1 DEF ProviderFollows, RunsAreNamed, BoundAsShown, Typed
<1>5. CASE Unmounts(p)
  BY <1>1, <1>5 DEF Unmounts, ProviderFollows, RunsAreNamed, BoundAsShown
<1>6. CASE page.pubkey = None /\ p.pubkey = None /\ UNCHANGED mount
  BY <1>1, <1>6 DEF mount, ProviderFollows, RunsAreNamed, BoundAsShown, Typed
<1> QED
  BY <1>2, <1>3, <1>4, <1>5, <1>6 DEF Commit

\* Signing out leaves nothing bound or mounted.
LEMMA SignedOutKeepsProvider ==
  ASSUME Typed, ProviderFollows, RunsAreNamed, BoundAsShown, Commit(None, SignedOut),
         UNCHANGED login
  PROVE /\ (ProviderFollows /\ RunsAreNamed /\ BoundAsShown)'
        /\ page' = SignedOut /\ page' \in PageRecord /\ UNCHANGED run
        /\ active' = None /\ inst' = None /\ client' = None
<1>1. page' = SignedOut /\ SignedOut \in PageRecord /\ SignedOut.pubkey = None
      /\ SignedOut.method = None /\ None \notin Login /\ None \notin Pubkey
  BY IdentityAssumption DEF Commit, SignedOut, PageRecord
<1>2. active' = None /\ inst' = None /\ client' = None /\ UNCHANGED run
  <2>1. CASE Unmounts(SignedOut)
    BY <2>1 DEF Unmounts
  <2>2. CASE page.pubkey = None /\ UNCHANGED mount
    BY <2>2 DEF mount, ProviderFollows
  <2> QED
    BY <1>1, <2>1, <2>2 DEF Commit, Mounts, Switches, Renames
<1> QED
  BY <1>1, <1>2 DEF ProviderFollows, RunsAreNamed, BoundAsShown

\* What a forget has announced does not depend on sign-ins and init().
LEMMA GhostFrame ==
  ASSUME Announces, NoGhostLeaf, UNCHANGED <<forget, keys, member, departed, late>>,
         crossed \subseteq crossed'
  PROVE (Announces /\ NoGhostLeaf)'
  BY DEF Announces, NoGhostLeaf

----------------------------------------------------------------------------
(* Initial states. *)

LEMMA BootLoginType ==
  ASSUME saved \in SavedRecord, NEW pk \in Pubkey
  PROVE /\ BootLogin(pk) \in LoginRecord
        /\ BootLogin(pk).st \in {"connecting", "asking", "new"}
        /\ BootLogin(pk).st \in {"connecting", "asking"} => BootLogin(pk).pk \in Pubkey
        /\ saved.nip46 # None => /\ BootLogin(pk).st = "connecting"
                                 /\ BootLogin(pk).kind = "boot" /\ BootLogin(pk).pk = saved.nip46
  BY DEF BootLogin, NewLogin, LoginRecord, SavedRecord

LEMMA InitHolds == Init => IInv
<1> SUFFICES ASSUME Init PROVE IInv
  OBVIOUS
<1>1. PICK l \in Login, pk \in Pubkey :
        /\ login = [k \in Login |-> IF k = l THEN BootLogin(pk) ELSE NewLogin]
        /\ checked = (BootLogin(pk) = NewLogin)
  BY DEF Init
<1>2. saved \in SavedRecord /\ NewLogin \in LoginRecord /\ NewLogin.st = "new"
  BY DEF Init, SavedRecord, NewLogin, LoginRecord
<1>3. /\ login \in [Login -> LoginRecord] /\ login[l] = BootLogin(pk)
      /\ \A k \in Login \ {l} : login[k].st = "new"
  BY <1>1, <1>2, BootLoginType
<1>4. SignedOut \in PageRecord /\ NoRun \in RunRecord /\ IdleForget \in ForgetRecord
  BY DEF SignedOut, PageRecord, NoRun, RunRecord, IdleForget, ForgetRecord
<1>5. Typed
  <2>1. /\ slot \in [Pubkey -> Login \union {Old, None}]
        /\ member \in [Pubkey -> SUBSET Group] /\ keys \in [Pubkey -> SUBSET Group]
    BY DEF Init
  <2>2. departed \in [Pubkey -> SUBSET Group] /\ late \in [Pubkey -> SUBSET Group]
    BY DEF Init
  <2>3. run \in [Login -> RunRecord]
    BY <1>4 DEF Init
  <2>4. /\ checked \in BOOLEAN /\ page \in PageRecord /\ forget \in ForgetRecord
        /\ active = None /\ inst = None /\ client = None
        /\ crossed \subseteq Pubkey /\ hurried \in BOOLEAN
    BY <1>1, <1>4 DEF Init
  <2>5. reloads \in 0 .. MaxReloads
    BY IdentityAssumption DEF Init
  <2> QED
    BY <1>2, <1>3, <2>1, <2>2, <2>3, <2>4, <2>5 DEF Typed
<1>6. OneSignIn
  BY <1>2, <1>3, BootLoginType DEF Init, OneSignIn, Pending, SignedOut
<1>7. ProviderFollows /\ RunsAreNamed /\ BoundAsShown
  BY DEF Init, ProviderFollows, RunsAreNamed, BoundAsShown, SignedOut, NoRun
<1>8. SessionHasOwner
  BY <1>2, <1>3, BootLoginType DEF SessionHasOwner, Restores
<1>9. ForgetIsNamed /\ Announces /\ NoGhostLeaf
  BY DEF Init, ForgetIsNamed, Announces, NoGhostLeaf, IdleForget
<1> QED
  BY <1>5, <1>6, <1>7, <1>8, <1>9 DEF IInv

----------------------------------------------------------------------------
(* Signing in and out. *)

\* A new attempt, by a user who was told to wait or not.
LEMMA AttemptStarts ==
  ASSUME Typed, OneSignIn, NEW l \in Login, CanStart(l), NEW st \in {"asking", "connecting"},
         NEW kind \in {"nip07", "nip46"}, NEW pk \in Pubkey, Attempt(l, st, kind, pk),
         page'.pubkey = page.pubkey
  PROVE /\ login' \in [Login -> LoginRecord] /\ OneSignIn' /\ hurried' \in BOOLEAN
        /\ page.pubkey = None /\ login[l].st = "new"
        /\ \A k \in Login \ {l} : login'[k] = login[k]
        /\ login'[l].st = st /\ login'[l].kind = kind
        /\ ~hurried' => ~hurried /\ \A k \in Login : ~Pending(k)
<1>1. [st |-> st, kind |-> kind, pk |-> pk] \in LoginRecord
  BY DEF LoginRecord
<1>2. /\ login' \in [Login -> LoginRecord] /\ \A k \in Login \ {l} : login'[k] = login[k]
      /\ login'[l] = [st |-> st, kind |-> kind, pk |-> pk]
  BY <1>1 DEF Typed, Attempt
<1>3. page.pubkey = None /\ login[l].st = "new" /\ hurried' = (hurried \/ \E k \in Login : Pending(k))
  BY DEF CanStart
<1>4. ~hurried' => ~hurried /\ \A k \in Login : ~Pending(k)
  BY <1>3
<1>5. OneSignIn'
  BY <1>2, <1>3, <1>4 DEF OneSignIn, Pending
<1>6. hurried' \in BOOLEAN
  BY <1>3 DEF Typed
<1> QED
  BY <1>2, <1>3, <1>4, <1>5, <1>6

LEMMA StartNip07Keeps == ASSUME IInv, NEW l \in Login, StartNip07(l) PROVE IInv'
<1>1. PICK pk \in Pubkey : Attempt(l, "asking", "nip07", pk)
  BY DEF StartNip07
<1> DEFINE p == [page EXCEPT !.signer = "extension"]
<1>2. /\ p \in PageRecord /\ p.pubkey = page.pubkey /\ p.method = page.method /\ Commit(l, p)
      /\ UNCHANGED <<checked, saved, forget, parts, reloads>> /\ CanStart(l)
  BY DEF StartNip07, IInv, Typed, PageRecord
<1>3. page' = p
  BY <1>2 DEF Commit
<1> HIDE DEF p
<1>4. /\ login' \in [Login -> LoginRecord] /\ OneSignIn' /\ hurried' \in BOOLEAN
      /\ page.pubkey = None /\ login[l].st = "new"
      /\ \A k \in Login \ {l} : login'[k] = login[k]
      /\ login'[l].st = "asking" /\ login'[l].kind = "nip07"
      /\ ~hurried' => ~hurried /\ \A k \in Login : ~Pending(k)
  BY <1>1, <1>2, <1>3, AttemptStarts DEF IInv
<1>5. Typed'
  BY <1>2, <1>4, CommitTypes DEF IInv, Typed, parts
<1>6. (ProviderFollows /\ RunsAreNamed /\ BoundAsShown)'
  BY <1>2, <1>4, CommitKeepsProvider DEF IInv, ProviderFollows
<1>7. inst' = inst
  BY <1>2, <1>3, <1>4, <1>6 DEF IInv, ProviderFollows
<1>8. SessionHasOwner' /\ ForgetIsNamed'
  BY <1>2, <1>3, <1>4, <1>7 DEF IInv, SessionHasOwner, ForgetIsNamed, Restores, Pending, parts
<1>9. (Announces /\ NoGhostLeaf)'
  BY <1>2, GhostFrame DEF IInv, parts
<1> QED
  BY <1>4, <1>5, <1>6, <1>8, <1>9 DEF IInv

\* A pending sign-in is over; unhurried, none is pending any more.
LEMMA AttemptEnds ==
  ASSUME Typed, OneSignIn, NEW l \in Login, Pending(l), Becomes(l, "done"), UNCHANGED hurried
  PROVE /\ login' \in [Login -> LoginRecord] /\ OneSignIn' /\ login'[l].st = "done"
        /\ login[l].pk \in Pubkey
        /\ \A k \in Login \ {l} : login'[k] = login[k]
        /\ ~hurried => page.pubkey = None /\ \A k \in Login : Pending(k) => k = l
<1>1. [login[l] EXCEPT !.st = "done"] \in LoginRecord /\ [login[l] EXCEPT !.st = "done"].st = "done"
  BY DEF Typed, LoginRecord
<1>2. /\ login' \in [Login -> LoginRecord] /\ \A k \in Login \ {l} : login'[k] = login[k]
      /\ login'[l].st = "done"
  BY <1>1 DEF Typed, Becomes
<1>3. ~hurried => page.pubkey = None /\ \A k \in Login : Pending(k) => k = l
  BY DEF OneSignIn
<1>4. \A k \in Login : Pending(k)' => k # l /\ Pending(k) /\ login'[k] = login[k]
  BY <1>2 DEF Pending
<1>5. OneSignIn'
  BY <1>3, <1>4 DEF OneSignIn
<1> QED
  BY <1>2, <1>3, <1>5 DEF OneSignIn

LEMMA Nip07AnswersKeeps == ASSUME IInv, NEW l \in Login, Nip07Answers(l) PROVE IInv'
<1> DEFINE p == [page EXCEPT !.pubkey = login[l].pk, !.method = "nip07",
                             !.signer = IF login[l].kind = "boot" THEN "extension" ELSE @]
<1>1. /\ Pending(l) /\ login[l].st = "asking" /\ Becomes(l, "done") /\ checked' = TRUE
      /\ Commit(l, p) /\ UNCHANGED <<forget, parts, hurried, reloads>>
      /\ saved' = IF login[l].kind = "boot" THEN saved ELSE [saved EXCEPT !.nip07 = TRUE]
  BY DEF Nip07Answers, Pending
<1>2. /\ login' \in [Login -> LoginRecord] /\ OneSignIn' /\ login'[l].st = "done"
      /\ login[l].pk \in Pubkey /\ \A k \in Login \ {l} : login'[k] = login[k]
      /\ ~hurried => page.pubkey = None /\ \A k \in Login : Pending(k) => k = l
  BY <1>1, AttemptEnds DEF IInv
<1>3. p \in PageRecord /\ p.pubkey = login[l].pk /\ p.method = "nip07" /\ p.pubkey # None
  BY <1>2, IdentityAssumption DEF IInv, Typed, PageRecord
<1>4. page' = p
  BY <1>1 DEF Commit
<1> HIDE DEF p
<1>5. saved' \in SavedRecord /\ saved'.nip46 = saved.nip46
  BY <1>1 DEF IInv, Typed, SavedRecord
<1>6. Typed'
  BY <1>1, <1>2, <1>3, <1>5, CommitTypes DEF IInv, Typed, parts
<1>7. (ProviderFollows /\ RunsAreNamed /\ BoundAsShown)'
  BY <1>1, <1>2, <1>3, CommitKeepsProvider DEF IInv
<1>8. SessionHasOwner'
  <2>1. hurried' = hurried /\ crossed' = crossed
    BY <1>1 DEF parts
  <2>2. ASSUME ~hurried PROVE saved.nip46 \in crossed \union {None}
    <3>1. page.method = None
      BY <1>2, <2>2 DEF IInv, ProviderFollows
    <3>2. \A k \in Login : ~Restores(k)
      BY <1>1, <1>2, <2>2 DEF Restores, Pending
    <3> QED
      BY <2>2, <3>1, <3>2, IdentityAssumption DEF IInv, SessionHasOwner
  <2> QED
    BY <1>5, <2>1, <2>2, Zenon DEF SessionHasOwner
<1>9. ForgetIsNamed'
  <2>1. ~hurried => inst' = l
    BY <1>1, <1>2, <1>3 DEF Commit, Mounts, Switches, Renames, Unmounts
  <2>2. forget.pc # "idle" => forget.inst # l /\ login'[forget.inst].st = "done"
    BY <1>1, <1>2 DEF IInv, ForgetIsNamed
  <2> QED
    BY <1>1, <2>1, <2>2 DEF IInv, ForgetIsNamed
<1>10. (Announces /\ NoGhostLeaf)'
  BY <1>1, GhostFrame DEF IInv, parts
<1> QED
  BY <1>2, <1>6, <1>7, <1>8, <1>9, <1>10 DEF IInv

LEMMA Nip46AnswersKeeps == ASSUME IInv, NEW l \in Login, Nip46Answers(l) PROVE IInv'
<1> DEFINE p == [signer |-> l, pubkey |-> login[l].pk, method |-> "nip46"]
<1>1. /\ Pending(l) /\ login[l].st = "ready" /\ Becomes(l, "done") /\ checked' = TRUE
      /\ Commit(l, p) /\ UNCHANGED <<saved, forget, parts, hurried, reloads>>
  BY DEF Nip46Answers, Pending
<1>2. /\ login' \in [Login -> LoginRecord] /\ OneSignIn' /\ login'[l].st = "done"
      /\ login[l].pk \in Pubkey /\ \A k \in Login \ {l} : login'[k] = login[k]
      /\ ~hurried => page.pubkey = None /\ \A k \in Login : Pending(k) => k = l
  BY <1>1, AttemptEnds DEF IInv
<1>3. p \in PageRecord /\ p.pubkey = login[l].pk /\ p.method = "nip46" /\ p.pubkey # None
  BY <1>2, IdentityAssumption DEF PageRecord
<1>4. page' = p
  BY <1>1 DEF Commit
<1> HIDE DEF p
<1>5. Typed'
  BY <1>1, <1>2, <1>3, CommitTypes DEF IInv, Typed, parts
<1>6. (ProviderFollows /\ RunsAreNamed /\ BoundAsShown)'
  BY <1>1, <1>2, <1>3, CommitKeepsProvider DEF IInv
<1>7. SessionHasOwner'
  <2>1. hurried' = hurried /\ crossed' = crossed /\ saved' = saved
    BY <1>1 DEF parts
  <2>2. ASSUME ~hurried
        PROVE saved.nip46 \in crossed \union {None} \/ saved.nip46 = login[l].pk
    <3>1. page.method = None
      BY <1>2, <2>2 DEF IInv, ProviderFollows
    <3>2. \A k \in Login : Restores(k) => k = l
      BY <1>2, <2>2 DEF Restores, Pending
    <3> QED
      BY <2>2, <3>1, <3>2, IdentityAssumption DEF IInv, SessionHasOwner
  <2>3. page'.method = "nip46" /\ page'.pubkey = login[l].pk
    BY <1>3, <1>4
  <2> QED
    BY <2>1, <2>2, <2>3, Zenon DEF SessionHasOwner
<1>8. ForgetIsNamed'
  <2>1. ~hurried => inst' = l
    BY <1>1, <1>2, <1>3 DEF Commit, Mounts, Switches, Renames, Unmounts
  <2>2. forget.pc # "idle" => forget.inst # l /\ login'[forget.inst].st = "done"
    BY <1>1, <1>2 DEF IInv, ForgetIsNamed
  <2> QED
    BY <1>1, <2>1, <2>2 DEF IInv, ForgetIsNamed
<1>9. (Announces /\ NoGhostLeaf)'
  BY <1>1, GhostFrame DEF IInv, parts
<1> QED
  BY <1>2, <1>5, <1>6, <1>7, <1>8, <1>9 DEF IInv

\* A sign-in that is given up may leave the page another signer.
LEMMA SignerKeeps ==
  ASSUME IInv, NEW l \in Login, NEW p \in PageRecord, Commit(l, p), Pending(l),
         p.pubkey = page.pubkey, p.method = page.method, Becomes(l, "done"), checked' = TRUE,
         saved' \in SavedRecord, saved'.nip46 \in {saved.nip46, None},
         login[l].st # "ready", login[l].st = "connecting" => saved'.nip46 = None,
         UNCHANGED <<forget, parts, hurried, reloads>>
  PROVE IInv'
<1>1. /\ login' \in [Login -> LoginRecord] /\ OneSignIn' /\ login'[l].st = "done"
      /\ login[l].pk \in Pubkey /\ \A k \in Login \ {l} : login'[k] = login[k]
      /\ ~hurried => page.pubkey = None /\ \A k \in Login : Pending(k) => k = l
  BY AttemptEnds DEF IInv
<1>2. page' = p
  BY DEF Commit
<1>3. Typed'
  BY <1>1, CommitTypes DEF IInv, Typed, parts
<1>4. (ProviderFollows /\ RunsAreNamed /\ BoundAsShown)'
  BY <1>1, CommitKeepsProvider DEF IInv, ProviderFollows
<1>5. SessionHasOwner'
  <2>1. hurried' = hurried /\ crossed' = crossed
    BY DEF parts
  <2>2. ASSUME ~hurried, saved'.nip46 # None PROVE saved'.nip46 \in crossed
    <3>1. page.method = None
      BY <1>1, <2>2 DEF IInv, ProviderFollows
    <3>2. \A k \in Login : ~Restores(k)
      BY <1>1, <2>2 DEF Restores, Pending
    <3> QED
      BY <2>2, <3>1, <3>2, IdentityAssumption DEF IInv, SessionHasOwner
  <2>3. ~hurried' => saved'.nip46 \in crossed' \union {None}
    BY <2>1, <2>2
  <2> QED
    BY <2>3, Zenon DEF SessionHasOwner
<1>6. ForgetIsNamed'
  <2>1. ~hurried => inst' = inst
    BY <1>1, <1>2, <1>4 DEF IInv, ProviderFollows
  <2> QED
    BY <1>1, <1>2, <2>1 DEF IInv, ForgetIsNamed
<1>7. (Announces /\ NoGhostLeaf)'
  BY GhostFrame DEF IInv, parts
<1> QED
  BY <1>1, <1>3, <1>4, <1>5, <1>6, <1>7 DEF IInv

\* A sign-in goes on while the page stays as it is.
LEMMA StillKeeps ==
  ASSUME IInv, NEW l \in Login, UNCHANGED <<page, mount, forget, parts, reloads>>,
         login' \in [Login -> LoginRecord], login[l].st # "done",
         \A k \in Login \ {l} : login'[k] = login[k],
         checked' \in BOOLEAN, saved' \in SavedRecord, hurried' \in BOOLEAN,
         ~hurried' => ~hurried, OneSignIn', SessionHasOwner'
  PROVE IInv'
<1>1. Typed'
  BY DEF IInv, Typed, mount, parts
<1>2. ProviderFollows' /\ RunsAreNamed'
  BY DEF IInv, Typed, ProviderFollows, RunsAreNamed, mount
<1>3. BoundAsShown'
  BY DEF IInv, BoundAsShown, mount
<1>4. ForgetIsNamed'
  BY DEF IInv, ForgetIsNamed, mount
<1>5. (Announces /\ NoGhostLeaf)'
  BY GhostFrame DEF IInv, parts
<1> QED
  BY <1>1, <1>2, <1>3, <1>4, <1>5 DEF IInv

LEMMA Nip07RefusesKeeps == ASSUME IInv, NEW l \in Login, Nip07Refuses(l) PROVE IInv'
<1>1. /\ Pending(l) /\ login[l].st = "asking" /\ Becomes(l, "done") /\ checked' = TRUE
      /\ UNCHANGED <<forget, parts, hurried, reloads>>
  BY DEF Nip07Refuses, Pending
<1>2. CASE login[l].kind = "boot"
  <2> DEFINE p == [page EXCEPT !.signer = "extension"]
  <2>1. p \in PageRecord /\ p.pubkey = page.pubkey /\ p.method = page.method /\ Commit(l, p)
    BY <1>2 DEF Nip07Refuses, IInv, Typed, PageRecord
  <2> HIDE DEF p
  <2>2. saved' \in SavedRecord /\ saved'.nip46 = saved.nip46
    BY <1>2 DEF Nip07Refuses, IInv, Typed, SavedRecord
  <2> QED
    BY <1>1, <2>1, <2>2, SignerKeeps
<1>3. CASE login[l].kind # "boot"
  <2>1. UNCHANGED <<saved, page, mount>>
    BY <1>3 DEF Nip07Refuses
  <2>2. /\ login' \in [Login -> LoginRecord] /\ OneSignIn' /\ login'[l].st = "done"
        /\ \A k \in Login \ {l} : login'[k] = login[k]
    BY <1>1, AttemptEnds DEF IInv
  <2>3. \A k \in Login : Restores(k) => k # l /\ Restores(k)' /\ login'[k] = login[k]
    BY <1>1, <2>2 DEF Restores
  <2>4. SessionHasOwner'
    BY <1>1, <2>1, <2>3 DEF IInv, SessionHasOwner, parts
  <2>5. saved' \in SavedRecord /\ hurried' \in BOOLEAN
    BY <1>1, <2>1 DEF IInv, Typed
  <2> QED
    BY <1>1, <2>1, <2>2, <2>4, <2>5, StillKeeps
<1> QED
  BY <1>2, <1>3

LEMMA StartNip46Keeps == ASSUME IInv, NEW l \in Login, StartNip46(l) PROVE IInv'
<1>1. PICK pk \in Pubkey : Attempt(l, "connecting", "nip46", pk)
  BY DEF StartNip46
<1>2. CanStart(l) /\ UNCHANGED <<checked, page, saved, mount, forget, parts, reloads>>
  BY DEF StartNip46
<1>3. /\ login' \in [Login -> LoginRecord] /\ OneSignIn' /\ hurried' \in BOOLEAN
      /\ login[l].st = "new" /\ \A k \in Login \ {l} : login'[k] = login[k]
      /\ ~hurried' => ~hurried /\ \A k \in Login : ~Pending(k)
  BY <1>1, <1>2, AttemptStarts DEF IInv
<1>4. SessionHasOwner'
  BY <1>2, <1>3 DEF IInv, SessionHasOwner, Restores, Pending, parts
<1>5. saved' \in SavedRecord /\ checked' \in BOOLEAN
  BY <1>2 DEF IInv, Typed
<1> QED
  BY <1>2, <1>3, <1>4, <1>5, StillKeeps

LEMMA SaveSessionKeeps == ASSUME IInv, NEW l \in Login, SaveSession(l) PROVE IInv'
<1>1. /\ login[l].st = "connecting" /\ Becomes(l, "ready") /\ Pending(l)
      /\ saved' = [nip46 |-> login[l].pk, nip07 |-> FALSE]
      /\ UNCHANGED <<checked, page, mount, forget, parts, hurried, reloads>>
  BY DEF SaveSession, Pending
<1>2. [login[l] EXCEPT !.st = "ready"] \in LoginRecord
  BY DEF IInv, Typed, LoginRecord
<1>3. /\ login' \in [Login -> LoginRecord] /\ \A k \in Login \ {l} : login'[k] = login[k]
      /\ login'[l].st = "ready" /\ login'[l].pk = login[l].pk
  BY <1>1, <1>2 DEF IInv, Typed, Becomes, LoginRecord
<1>4. \A k \in Login : Pending(k)' <=> Pending(k)
  BY <1>1, <1>3 DEF Pending
<1>5. \A k \in Login : login'[k].pk = login[k].pk
  BY <1>3
<1>6. OneSignIn'
  BY <1>1, <1>4, <1>5 DEF IInv, OneSignIn
<1>7. SessionHasOwner'
  BY <1>1, <1>3 DEF SessionHasOwner, Restores
<1>8. saved' \in SavedRecord /\ checked' \in BOOLEAN /\ hurried' \in BOOLEAN
  BY <1>1 DEF IInv, Typed, OneSignIn, SavedRecord
<1> QED
  BY <1>1, <1>3, <1>6, <1>7, <1>8, StillKeeps

LEMMA Nip46FailsKeeps == ASSUME IInv, NEW l \in Login, Nip46Fails(l) PROVE IInv'
<1>1. /\ Pending(l) /\ login[l].st = "connecting" /\ login[l].kind = "nip46" /\ Becomes(l, "done")
      /\ UNCHANGED <<checked, saved, page, mount, forget, parts, hurried, reloads>>
  BY DEF Nip46Fails, Pending
<1>2. /\ login' \in [Login -> LoginRecord] /\ OneSignIn'
      /\ \A k \in Login \ {l} : login'[k] = login[k]
  BY <1>1, AttemptEnds DEF IInv
<1>3. \A k \in Login : Restores(k) => k # l /\ Restores(k)' /\ login'[k] = login[k]
  BY <1>1, <1>2 DEF Restores
<1>4. SessionHasOwner'
  BY <1>1, <1>3 DEF IInv, SessionHasOwner, parts
<1>5. saved' \in SavedRecord /\ checked' \in BOOLEAN /\ hurried' \in BOOLEAN
  BY <1>1 DEF IInv, Typed
<1> QED
  BY <1>1, <1>2, <1>4, <1>5, StillKeeps

LEMMA RestoreFailsKeeps == ASSUME IInv, NEW l \in Login, RestoreFails(l) PROVE IInv'
<1>1. /\ Pending(l) /\ login[l].st = "connecting" /\ saved' = [saved EXCEPT !.nip46 = None]
      /\ UNCHANGED <<forget, parts, hurried, reloads>>
  BY DEF RestoreFails, Pending
<1>2. saved' \in SavedRecord /\ saved'.nip46 = None /\ hurried' \in BOOLEAN
  BY <1>1 DEF IInv, Typed, SavedRecord
<1>3. CASE saved.nip07
  <2>1. UNCHANGED <<checked, page, mount>> /\ \E pk \in Pubkey : Attempt(l, "asking", "boot", pk)
    BY <1>3 DEF RestoreFails
  <2>2. PICK pk \in Pubkey : Attempt(l, "asking", "boot", pk)
    BY <2>1
  <2>3. [st |-> "asking", kind |-> "boot", pk |-> pk] \in LoginRecord
    BY DEF LoginRecord
  <2>4. /\ login' \in [Login -> LoginRecord] /\ \A k \in Login \ {l} : login'[k] = login[k]
        /\ login'[l].st = "asking" /\ login'[l].pk \in Pubkey
    BY <2>2, <2>3 DEF IInv, Typed, Attempt
  <2>5. \A k \in Login : Pending(k)' <=> Pending(k)
    BY <1>1, <2>4 DEF Pending
  <2>6. OneSignIn'
    BY <1>1, <2>1, <2>4, <2>5 DEF IInv, OneSignIn
  <2>7. SessionHasOwner'
    BY <1>2 DEF SessionHasOwner
  <2>8. checked' \in BOOLEAN
    BY <2>1 DEF IInv, Typed
  <2> QED
    BY <1>1, <1>2, <2>1, <2>4, <2>6, <2>7, <2>8, StillKeeps
<1>4. CASE ~saved.nip07
  <2>1. Becomes(l, "done") /\ checked' = TRUE
    BY <1>4 DEF RestoreFails
  <2>2. PICK s \in {"extension", page.signer} : Commit(l, [page EXCEPT !.signer = s])
    BY <1>4 DEF RestoreFails
  <2> DEFINE p == [page EXCEPT !.signer = s]
  <2>3. p \in PageRecord /\ p.pubkey = page.pubkey /\ p.method = page.method /\ Commit(l, p)
    BY <2>2 DEF IInv, Typed, PageRecord
  <2> HIDE DEF p
  <2> QED
    BY <1>1, <1>2, <2>1, <2>3, SignerKeeps
<1> QED
  BY <1>3, <1>4

LEMMA SkipKeeps == ASSUME IInv, Skip PROVE IInv'
<1>1. /\ checked' = TRUE /\ saved' = [nip46 |-> None, nip07 |-> FALSE]
      /\ UNCHANGED <<login, page, mount, forget, parts, hurried, reloads>>
  BY DEF Skip
<1>2. saved' \in SavedRecord /\ saved'.nip46 = None
  BY <1>1 DEF SavedRecord
<1>3. Typed'
  BY <1>1, <1>2 DEF IInv, Typed, mount, parts
<1>4. OneSignIn' /\ ProviderFollows' /\ RunsAreNamed' /\ BoundAsShown'
  BY <1>1 DEF IInv, OneSignIn, Pending, ProviderFollows, RunsAreNamed, BoundAsShown, mount
<1>5. SessionHasOwner' /\ ForgetIsNamed'
  BY <1>1, <1>2 DEF IInv, SessionHasOwner, ForgetIsNamed, mount
<1>6. (Announces /\ NoGhostLeaf)'
  BY <1>1, GhostFrame DEF IInv, parts
<1> QED
  BY <1>3, <1>4, <1>5, <1>6 DEF IInv

\* Somebody is signed out. The session that stays behind is of a method other than
\* the one that is signed out, or of a user whom another session has signed out.
LEMMA DisconnectKeeps ==
  ASSUME IInv, NEW method \in {"nip07", "nip46", None}, NEW cleared \in BOOLEAN,
         Disconnect(method, cleared), UNCHANGED <<login, checked, hurried, reloads>>,
         crossed \subseteq crossed', crossed' \subseteq Pubkey,
         ~hurried => cleared \/ method = page.method \/ {page.pubkey} \ {None} \subseteq crossed'
  PROVE /\ (OneSignIn /\ ProviderFollows /\ RunsAreNamed /\ BoundAsShown /\ SessionHasOwner)'
        /\ page' \in PageRecord /\ saved' \in SavedRecord /\ UNCHANGED run
        /\ active' = None /\ inst' = None /\ client' = None
<1>1. /\ (ProviderFollows /\ RunsAreNamed /\ BoundAsShown)'
      /\ page' = SignedOut /\ page' \in PageRecord /\ UNCHANGED run
      /\ active' = None /\ inst' = None /\ client' = None
  BY SignedOutKeepsProvider DEF Disconnect, IInv
<1>2. saved' = [nip46 |-> IF cleared \/ method = "nip46" THEN None ELSE saved.nip46,
                nip07 |-> saved.nip07 /\ method # "nip07"]
  BY DEF Disconnect
<1>3. /\ saved.nip46 \in Pubkey \union {None}
      /\ saved'.nip46 = IF cleared \/ method = "nip46" THEN None ELSE saved.nip46
      /\ saved' \in SavedRecord
  <2>1. (saved.nip07 /\ method # "nip07") \in BOOLEAN
    OBVIOUS
  <2> QED
    BY <1>2, <2>1 DEF IInv, Typed, SavedRecord
<1>4. OneSignIn'
  BY <1>1 DEF IInv, OneSignIn, Pending, SignedOut
<1>5. SessionHasOwner'
  <2>1. CASE saved'.nip46 = None \/ hurried
    BY <2>1 DEF SessionHasOwner
  <2>2. CASE saved'.nip46 # None /\ ~hurried
    <3>1. saved'.nip46 = saved.nip46 /\ saved.nip46 \in Pubkey /\ ~cleared /\ method # "nip46"
      BY <1>3, <2>2
    <3>2. CASE \E k \in Login : Restores(k) /\ saved.nip46 = login[k].pk
      BY <3>1, <3>2 DEF SessionHasOwner, Restores
    <3>3. CASE saved.nip46 \in crossed \union {None}
      BY <3>1, <3>3, <2>2 DEF SessionHasOwner
    <3>4. CASE page.method = "nip46" /\ saved.nip46 = page.pubkey
      <4>1. saved.nip46 \in crossed'
        BY <3>1, <3>4, <2>2
      <4> QED
        BY <3>1, <4>1 DEF SessionHasOwner
    <3> QED
      BY <3>2, <3>3, <3>4, <2>2 DEF IInv, SessionHasOwner
  <2> QED
    BY <2>1, <2>2
<1> QED
  BY <1>1, <1>3, <1>4, <1>5

LEMMA SignOutKeeps == ASSUME IInv, SignOut PROVE IInv'
<1>1. /\ Disconnect(page.method, FALSE) /\ page.method \in {"nip07", "nip46", None}
      /\ UNCHANGED <<login, checked, forget, parts, hurried, reloads>>
  BY DEF SignOut, IInv, Typed, PageRecord
<1>2. crossed' = crossed /\ crossed \subseteq Pubkey
  BY <1>1 DEF IInv, Typed, parts
<1>3. /\ (OneSignIn /\ ProviderFollows /\ RunsAreNamed /\ BoundAsShown /\ SessionHasOwner)'
      /\ page' \in PageRecord /\ saved' \in SavedRecord /\ UNCHANGED run
      /\ active' = None /\ inst' = None /\ client' = None
  BY <1>1, <1>2, DisconnectKeeps
<1>4. Typed'
  BY <1>1, <1>3 DEF IInv, Typed, parts
<1>5. ForgetIsNamed'
  BY <1>1, <1>3, IdentityAssumption DEF IInv, ForgetIsNamed
<1>6. (Announces /\ NoGhostLeaf)'
  BY <1>1, GhostFrame DEF IInv, parts
<1> QED
  BY <1>3, <1>4, <1>5, <1>6 DEF IInv

LEMMA ReloadKeeps == ASSUME IInv, Reload PROVE IInv'
<1>1. PICK l \in Login, pk \in Pubkey :
        /\ login[l].st = "new"
        /\ login' = [k \in Login |-> IF k = l THEN BootLogin(pk)
                                     ELSE IF Pending(k) THEN [login[k] EXCEPT !.st = "done"]
                                     ELSE login[k]]
        /\ checked' = (BootLogin(pk) = NewLogin)
  BY DEF Reload
<1>2. /\ page' = SignedOut /\ active' = None /\ inst' = None /\ client' = None
      /\ run' = [k \in Login |-> NoRun] /\ forget' = IdleForget
      /\ UNCHANGED <<saved, hurried, parts>>
      /\ reloads < MaxReloads /\ reloads' = reloads + 1
  BY DEF Reload
<1>3. saved \in SavedRecord /\ BootLogin(pk) \in LoginRecord
  BY BootLoginType DEF IInv, Typed
<1>4. \A k \in Login : [login[k] EXCEPT !.st = "done"] \in LoginRecord
  BY DEF IInv, Typed, LoginRecord
<1>5. login' \in [Login -> LoginRecord]
  BY <1>1, <1>3, <1>4 DEF IInv, Typed
<1>6. /\ login'[l] = BootLogin(pk)
      /\ \A k \in Login \ {l} : login'[k].st \notin {"asking", "connecting", "ready"}
  BY <1>1 DEF IInv, Typed, LoginRecord, Pending
<1>7. SignedOut \in PageRecord /\ NoRun \in RunRecord /\ IdleForget \in ForgetRecord
  BY DEF SignedOut, PageRecord, NoRun, RunRecord, IdleForget, ForgetRecord
<1>8. Typed'
  <2>1. reloads' \in 0 .. MaxReloads
    BY <1>2, IdentityAssumption DEF IInv, Typed
  <2>2. run' \in [Login -> RunRecord]
    BY <1>2, <1>7
  <2>3. checked' \in BOOLEAN
    BY <1>1
  <2> QED
    BY <1>2, <1>5, <1>7, <2>1, <2>2, <2>3 DEF IInv, Typed, parts
<1>9. OneSignIn'
  <2>1. ASSUME NEW k \in Login, Pending(k)'
        PROVE k = l /\ login'[k].pk \in Pubkey
    BY <1>3, <1>6, <2>1, BootLoginType DEF Pending
  <2> QED
    BY <1>2, <2>1 DEF OneSignIn, SignedOut
<1>10. ProviderFollows' /\ RunsAreNamed' /\ BoundAsShown'
  BY <1>2 DEF ProviderFollows, RunsAreNamed, BoundAsShown, SignedOut, NoRun
<1>11. SessionHasOwner'
  BY <1>2, <1>3, <1>6, BootLoginType DEF SessionHasOwner, Restores
<1>12. (ForgetIsNamed /\ Announces /\ NoGhostLeaf)'
  BY <1>2 DEF IInv, ForgetIsNamed, Announces, NoGhostLeaf, IdleForget, parts
<1> QED
  BY <1>8, <1>9, <1>10, <1>11, <1>12 DEF IInv

----------------------------------------------------------------------------
(* init() and what a Welcome adds. *)

\* One init() goes on: what it binds and hands to the page, it does while mounted.
LEMMA InitMoves ==
  ASSUME IInv, NEW l \in Login, run[l].pc # "none",
         NEW c \in RunRecord, run' = [run EXCEPT ![l] = c],
         c.pc # "none", c.inst = run[l].inst, c.pk = run[l].pk,
         active' = active \/ (Mounted(l) /\ active' = run[l].pk),
         client' \in {client, None} \/ (Mounted(l) /\ client' = l),
         slot' \in [Pubkey -> Login \union {Old, None}],
         crossed \subseteq crossed', crossed' \subseteq Pubkey,
         UNCHANGED <<session, inst, forget, keys, member, departed, late, reloads>>
  PROVE IInv'
<1>1. /\ run' \in [Login -> RunRecord] /\ run'[l] = c
      /\ \A k \in Login \ {l} : run'[k] = run[k]
  BY DEF IInv, Typed
<1>2. run[l].pk \in Pubkey /\ run[l].inst \in Login
  BY DEF IInv, RunsAreNamed
<1>3. UNCHANGED <<login, checked, page, saved, hurried>>
  BY DEF session
<1>4. active' \in Pubkey \union {None} /\ client' \in Login \union {None}
  BY <1>2 DEF IInv, Typed
<1>5. Typed'
  BY <1>1, <1>3, <1>4 DEF IInv, Typed
<1>6. OneSignIn'
  BY <1>3 DEF IInv, OneSignIn, Pending
<1>7. Mounted(l) => page.pubkey # None
  BY <1>2, IdentityAssumption DEF Mounted, IInv, ProviderFollows
<1>8. ProviderFollows'
  BY <1>3, <1>7 DEF IInv, ProviderFollows
<1>9. RunsAreNamed'
  <2>1. \A k \in Login : run'[k].inst = run[k].inst /\ run'[k].pk = run[k].pk
                          /\ (run'[k].pc = "none" <=> run[k].pc = "none")
    BY <1>1
  <2>2. client' # None => run[client'].pc # "none" /\ run[client'].inst = inst /\ client' \in Login
    BY <1>4, <1>7 DEF IInv, RunsAreNamed, Mounted
  <2> QED
    BY <1>3, <2>1, <2>2 DEF IInv, RunsAreNamed
<1>10. BoundAsShown'
  <2>1. \A k \in Login : run'[k].inst = run[k].inst /\ run'[k].pk = run[k].pk
                          /\ (run'[k].pc = "none" <=> run[k].pc = "none")
    BY <1>1
  <2>2. ~hurried /\ Mounted(l) => run[l].pk = page.pubkey
    BY DEF IInv, BoundAsShown, Mounted
  <2> QED
    BY <1>3, <2>1, <2>2 DEF IInv, BoundAsShown
<1>11. SessionHasOwner'
  BY <1>3 DEF IInv, SessionHasOwner, Restores
<1>12. ForgetIsNamed'
  BY <1>3 DEF IInv, ForgetIsNamed
<1>13. (Announces /\ NoGhostLeaf)'
  BY GhostFrame DEF IInv
<1> QED
  BY <1>5, <1>6, <1>8, <1>9, <1>10, <1>11, <1>12, <1>13 DEF IInv

\* The client stays or is dropped when init() moves without a client of its own.
LEMMA InitGoesOn ==
  ASSUME IInv, NEW l \in Login, run[l].pc # "none",
         NEW pc \in {"migrating", "slot", "minting", "loading", "probing", "over"}, RunTo(l, pc),
         active' = active \/ (Mounted(l) /\ active' = run[l].pk),
         client' \in {client, None} \/ (Mounted(l) /\ client' = l),
         slot' \in [Pubkey -> Login \union {Old, None}],
         crossed \subseteq crossed', crossed' \subseteq Pubkey,
         UNCHANGED <<session, inst, forget, keys, member, departed, late, reloads>>
  PROVE IInv'
<1>1. run' = [run EXCEPT ![l] = [run[l] EXCEPT !.pc = pc]]
  BY DEF RunTo
<1> DEFINE c == [run[l] EXCEPT !.pc = pc]
<1>2. /\ run' = [run EXCEPT ![l] = c] /\ c \in RunRecord /\ c.pc # "none"
      /\ c.inst = run[l].inst /\ c.pk = run[l].pk
  BY <1>1 DEF IInv, Typed, RunRecord
<1> HIDE DEF c
<1> QED
  BY <1>2, InitMoves

LEMMA ReachesTypes ==
  ASSUME crossed \subseteq Pubkey, NEW pk, NEW other \in Pubkey \union {None}, Reaches(pk, other)
  PROVE crossed \subseteq crossed' /\ crossed' \subseteq Pubkey
  BY DEF Reaches

LEMMA ConnectedKeeps == ASSUME IInv, NEW l \in Login, Connected(l) PROVE IInv'
<1>1. /\ run[l].pc = "connecting" /\ UNCHANGED <<session, inst, forget, parts, reloads>>
      /\ \/ Mounted(l) /\ active' = run[l].pk /\ RunTo(l, "migrating") /\ UNCHANGED client
         \/ RunTo(l, "over") /\ UNCHANGED <<client, active>>
  BY DEF Connected, Over
<1>2. /\ slot' \in [Pubkey -> Login \union {Old, None}]
      /\ crossed \subseteq crossed' /\ crossed' \subseteq Pubkey
      /\ UNCHANGED <<keys, member, departed, late>>
  BY <1>1 DEF IInv, Typed, parts
<1> QED
  BY <1>1, <1>2, InitGoesOn

LEMMA MigratedKeeps == ASSUME IInv, NEW l \in Login, Migrated(l) PROVE IInv'
<1>1. /\ run[l].pc = "migrating"
      /\ UNCHANGED <<session, active, inst, forget, slot, keys, member, departed, late, reloads>>
  BY DEF Migrated
<1>2. active \in Pubkey \union {None} /\ crossed \subseteq Pubkey
      /\ slot \in [Pubkey -> Login \union {Old, None}] /\ slot' = slot
  BY <1>1 DEF IInv, Typed
<1>3. crossed \subseteq crossed' /\ crossed' \subseteq Pubkey
  <2>1. CASE Mounted(l)
    BY <1>2, <2>1, ReachesTypes DEF Migrated
  <2>2. CASE ~Mounted(l)
    BY <1>2, <2>2 DEF Migrated
  <2> QED
    BY <2>1, <2>2
<1>4. CASE ~Mounted(l)
  BY <1>1, <1>2, <1>3, <1>4, InitGoesOn DEF Migrated, Over
<1>5. CASE Mounted(l) /\ active = None
  <2>1. RunTo(l, "over") /\ client' \in {client, None}
    BY <1>5 DEF Migrated, Throws
  <2> QED
    BY <1>1, <1>2, <1>3, <2>1, InitGoesOn
<1>6. CASE Mounted(l) /\ active # None
  <2> DEFINE c == [run[l] EXCEPT !.pc = "slot", !.slot = slot[active]]
  <2>1. run' = [run EXCEPT ![l] = c] /\ UNCHANGED client
    BY <1>6 DEF Migrated
  <2>2. slot[active] \in Login \union {Old, None}
    BY <1>2, <1>6
  <2>3. c \in RunRecord /\ c.pc # "none" /\ c.inst = run[l].inst /\ c.pk = run[l].pk
    BY <2>2 DEF IInv, Typed, RunRecord
  <2> HIDE DEF c
  <2> QED
    BY <1>1, <1>2, <1>3, <2>1, <2>3, InitMoves
<1> QED
  BY <1>4, <1>5, <1>6

LEMMA SlotReadKeeps == ASSUME IInv, NEW l \in Login, SlotRead(l) PROVE IInv'
<1>1. /\ run[l].pc = "slot"
      /\ UNCHANGED <<session, active, inst, forget, keys, member, departed, late, reloads>>
  BY DEF SlotRead
<1>2. active \in Pubkey \union {None} /\ crossed \subseteq Pubkey /\ run[l] \in RunRecord
      /\ slot \in [Pubkey -> Login \union {Old, None}]
  BY DEF IInv, Typed
<1>3. CASE run[l].slot # None
  <2> DEFINE c == [run[l] EXCEPT !.pc = IF Mounted(l) THEN "loading" ELSE "over",
                                 !.slot = run[l].slot]
  <2>1. run' = [run EXCEPT ![l] = c] /\ UNCHANGED <<client, slot, crossed>>
    BY <1>3 DEF SlotRead, Loads
  <2>2. c \in RunRecord /\ c.pc # "none" /\ c.inst = run[l].inst /\ c.pk = run[l].pk
    BY <1>2 DEF RunRecord
  <2> HIDE DEF c
  <2> QED
    BY <1>1, <1>2, <2>1, <2>2, InitMoves
<1>4. CASE run[l].slot = None /\ active = None
  <2>1. RunTo(l, "over") /\ client' \in {client, None} /\ UNCHANGED <<slot, crossed>>
    BY <1>4 DEF SlotRead, Throws
  <2> QED
    BY <1>1, <1>2, <2>1, InitGoesOn
<1>5. CASE run[l].slot = None /\ active # None
  <2>1. /\ slot' = [slot EXCEPT ![active] = l] /\ Reaches(run[l].pk, active)
        /\ RunTo(l, "minting") /\ UNCHANGED client
    BY <1>5 DEF SlotRead
  <2>2. slot' \in [Pubkey -> Login \union {Old, None}]
    BY <1>2, <2>1
  <2>3. crossed \subseteq crossed' /\ crossed' \subseteq Pubkey
    BY <1>2, <2>1, ReachesTypes
  <2> QED
    BY <1>1, <2>1, <2>2, <2>3, InitGoesOn
<1> QED
  BY <1>3, <1>4, <1>5

LEMMA SlotMintedKeeps == ASSUME IInv, NEW l \in Login, SlotMinted(l) PROVE IInv'
<1> DEFINE c == [run[l] EXCEPT !.pc = IF Mounted(l) THEN "loading" ELSE "over", !.slot = l]
<1>1. /\ run[l].pc = "minting" /\ run' = [run EXCEPT ![l] = c] /\ UNCHANGED client
      /\ UNCHANGED <<session, active, inst, forget, parts, reloads>>
  BY DEF SlotMinted, Loads
<1>2. c \in RunRecord /\ c.pc # "none" /\ c.inst = run[l].inst /\ c.pk = run[l].pk
  BY DEF IInv, Typed, RunRecord
<1> HIDE DEF c
<1>3. /\ slot' \in [Pubkey -> Login \union {Old, None}]
      /\ crossed \subseteq crossed' /\ crossed' \subseteq Pubkey
      /\ UNCHANGED <<keys, member, departed, late>>
  BY <1>1 DEF IInv, Typed, parts
<1> QED
  BY <1>1, <1>2, <1>3, InitMoves

LEMMA GroupsLoadedKeeps == ASSUME IInv, NEW l \in Login, GroupsLoaded(l) PROVE IInv'
<1>1. /\ run[l].pc = "loading"
      /\ UNCHANGED <<session, active, inst, forget, slot, keys, member, departed, late, reloads>>
  BY DEF GroupsLoaded
<1>2. active \in Pubkey \union {None} /\ crossed \subseteq Pubkey
      /\ slot' \in [Pubkey -> Login \union {Old, None}]
  BY <1>1 DEF IInv, Typed
<1>3. CASE Mounted(l)
  <2>1. /\ client' = l /\ Reaches(run[l].pk, active)
        /\ \E fresh \in BOOLEAN : RunTo(l, IF fresh \/ active = None THEN "over" ELSE "probing")
    BY <1>3 DEF GroupsLoaded
  <2>2. crossed \subseteq crossed' /\ crossed' \subseteq Pubkey
    BY <1>2, <2>1, ReachesTypes
  <2>3. PICK pc \in {"over", "probing"} : RunTo(l, pc)
    BY <2>1
  <2> QED
    BY <1>1, <1>2, <1>3, <2>1, <2>2, <2>3, InitGoesOn
<1>4. CASE ~Mounted(l)
  <2>1. RunTo(l, "over") /\ UNCHANGED <<client, crossed>>
    BY <1>4 DEF GroupsLoaded, Over
  <2> QED
    BY <1>1, <1>2, <2>1, InitGoesOn
<1> QED
  BY <1>3, <1>4

LEMMA ProbedKeeps == ASSUME IInv, NEW l \in Login, Probed(l) PROVE IInv'
<1>1. /\ run[l].pc = "probing" /\ RunTo(l, "over") /\ UNCHANGED client /\ Reaches(run[l].pk, active)
      /\ UNCHANGED <<session, active, inst, forget, slot, keys, member, departed, late, reloads>>
  BY DEF Probed, Over
<1>2. active \in Pubkey \union {None} /\ crossed \subseteq Pubkey
      /\ slot' \in [Pubkey -> Login \union {Old, None}]
  BY <1>1 DEF IInv, Typed
<1>3. crossed \subseteq crossed' /\ crossed' \subseteq Pubkey
  BY <1>1, <1>2, ReachesTypes
<1> QED
  BY <1>1, <1>2, <1>3, InitGoesOn

LEMMA InitFailsKeeps == ASSUME IInv, NEW l \in Login, InitFails(l) PROVE IInv'
<1>1. /\ run[l].pc # "none" /\ RunTo(l, "over") /\ client' \in {client, None}
      /\ UNCHANGED <<session, active, inst, forget, parts, reloads>>
  BY DEF InitFails, Throws
<1>2. /\ slot' \in [Pubkey -> Login \union {Old, None}]
      /\ crossed \subseteq crossed' /\ crossed' \subseteq Pubkey
      /\ UNCHANGED <<keys, member, departed, late>>
  BY <1>1 DEF IInv, Typed, parts
<1> QED
  BY <1>1, <1>2, InitGoesOn

\* A step that leaves the session and the provider alone.
LEMMA StoresMove ==
  ASSUME IInv, UNCHANGED <<session, mount, reloads>>, forget' \in ForgetRecord,
         slot' \in [Pubkey -> Login \union {Old, None}],
         keys' \in [Pubkey -> SUBSET Group], member' \in [Pubkey -> SUBSET Group],
         departed' \in [Pubkey -> SUBSET Group], late' \in [Pubkey -> SUBSET Group],
         crossed \subseteq crossed', crossed' \subseteq Pubkey,
         (ForgetIsNamed /\ Announces /\ NoGhostLeaf)'
  PROVE IInv'
<1>1. UNCHANGED <<login, checked, page, saved, hurried, active, inst, run, client>>
  BY DEF session, mount
<1>2. Typed'
  BY <1>1 DEF IInv, Typed
<1>3. OneSignIn' /\ ProviderFollows' /\ RunsAreNamed' /\ BoundAsShown'
  BY <1>1 DEF IInv, OneSignIn, Pending, ProviderFollows, RunsAreNamed, BoundAsShown
<1>4. SessionHasOwner'
  BY <1>1 DEF IInv, SessionHasOwner, Restores
<1> QED
  BY <1>2, <1>3, <1>4 DEF IInv

LEMMA JoinKeeps == ASSUME IInv, NEW g \in Group, Join(g) PROVE IInv'
<1> DEFINE p == run[client].pk
<1>1. /\ client # None /\ member' = [member EXCEPT ![p] = @ \union {g}]
      /\ keys' = [keys EXCEPT ![p] = @ \union {g}]
      /\ late' = IF forget.by = p THEN [late EXCEPT ![p] = @ \union {g}] ELSE late
      /\ UNCHANGED <<session, mount, forget, slot, departed, crossed, reloads>>
  BY DEF Join
<1>2. p \in Pubkey
  BY <1>1 DEF IInv, Typed, RunsAreNamed
<1> HIDE DEF p
<1>3. /\ member' \in [Pubkey -> SUBSET Group] /\ keys' \in [Pubkey -> SUBSET Group]
      /\ late' \in [Pubkey -> SUBSET Group]
  BY <1>1, <1>2 DEF IInv, Typed
<1>4. /\ forget' \in ForgetRecord /\ slot' \in [Pubkey -> Login \union {Old, None}]
      /\ departed' \in [Pubkey -> SUBSET Group] /\ crossed' = crossed /\ crossed' \subseteq Pubkey
  BY <1>1 DEF IInv, Typed
<1>5. ForgetIsNamed'
  BY <1>1 DEF IInv, ForgetIsNamed, session, mount
<1>6. /\ \A q \in Pubkey : member'[q] \subseteq member[q] \union (keys'[q] \intersect {g})
      /\ \A q \in Pubkey : keys[q] \subseteq keys'[q] /\ late[q] \subseteq late'[q]
      /\ \A q \in Pubkey : forget.by = q => member'[q] \subseteq member[q] \union late'[q]
  BY <1>1, <1>2 DEF IInv, Typed
<1>7. NoGhostLeaf'
  BY <1>1, <1>6 DEF IInv, NoGhostLeaf
<1>8. Announces'
  <2> SUFFICES ASSUME forget.pc # "idle" PROVE Announces'
    BY <1>1 DEF Announces
  <2>1. forget.by \in Pubkey
    BY DEF IInv, ForgetIsNamed
  <2> QED
    BY <1>1, <1>6, <2>1 DEF IInv, Announces
<1> QED
  BY <1>1, <1>3, <1>4, <1>5, <1>7, <1>8, StoresMove

----------------------------------------------------------------------------
(* forgetSelfDevice. *)

LEMMA StartForgetKeeps == ASSUME IInv, StartForget PROVE IInv'
<1> DEFINE p == run[client].pk
<1>1. PICK dialog \in BOOLEAN :
        forget' = [pc |-> "leaving", by |-> p, inst |-> inst, todo |-> keys[p] \intersect member[p],
                   group |-> None, method |-> page.method, dialog |-> dialog]
  BY DEF StartForget
<1>2. client # None /\ UNCHANGED <<session, mount, parts, reloads>>
  BY DEF StartForget
<1>3. p \in Pubkey /\ inst \in Login /\ login[inst].st = "done"
  BY <1>2 DEF IInv, Typed, RunsAreNamed
<1> HIDE DEF p
<1>4. keys[p] \subseteq Group /\ member[p] \subseteq Group /\ page.method \in {"nip07", "nip46", None}
  BY <1>3 DEF IInv, Typed, PageRecord
<1>5. forget' \in ForgetRecord
  BY <1>1, <1>3, <1>4 DEF ForgetRecord
<1>6. UNCHANGED <<slot, keys, member, departed, late, crossed>>
  BY <1>2 DEF parts
<1>7. ForgetIsNamed'
  BY <1>1, <1>2, <1>3 DEF ForgetIsNamed, session, mount
<1>8. p \notin crossed => member[p] \subseteq keys[p] \union departed[p] \union late[p]
  BY <1>3 DEF IInv, NoGhostLeaf
<1>9. Announces' /\ NoGhostLeaf'
  BY <1>1, <1>6, <1>8 DEF IInv, Announces, NoGhostLeaf
<1> QED
  BY <1>2, <1>5, <1>6, <1>7, <1>9, StoresMove DEF IInv, Typed

LEMMA ProposeKeeps == ASSUME IInv, NEW g \in Group, Propose(g) PROVE IInv'
<1>1. /\ forget.pc = "leaving" /\ g \in forget.todo
      /\ departed' = [departed EXCEPT ![forget.by] = @ \union {g}]
      /\ forget' = [forget EXCEPT !.pc = "destroying", !.todo = @ \ {g}, !.group = g]
      /\ UNCHANGED <<session, mount, slot, keys, member, late, crossed, reloads>>
  BY DEF Propose
<1>2. forget.by \in Pubkey
  BY <1>1 DEF IInv, ForgetIsNamed
<1>3. departed' \in [Pubkey -> SUBSET Group] /\ forget' \in ForgetRecord
  BY <1>1, <1>2 DEF IInv, Typed, ForgetRecord
<1>4. /\ forget'.pc = "destroying" /\ forget'.todo = forget.todo \ {g} /\ forget'.group = g
      /\ forget'.by = forget.by /\ forget'.inst = forget.inst /\ forget'.method = forget.method
  BY <1>1 DEF IInv, Typed, ForgetRecord
<1>5. /\ \A q \in Pubkey : departed[q] \subseteq departed'[q]
      /\ departed'[forget.by] = departed[forget.by] \union {g}
  BY <1>1, <1>2 DEF IInv, Typed
<1>6. ForgetIsNamed'
  BY <1>1, <1>4 DEF IInv, ForgetIsNamed, session, mount
<1>7. Announces'
  BY <1>1, <1>4, <1>5 DEF IInv, Announces
<1>8. NoGhostLeaf'
  BY <1>1, <1>5 DEF IInv, NoGhostLeaf
<1> QED
  BY <1>1, <1>3, <1>6, <1>7, <1>8, StoresMove DEF IInv, Typed

LEMMA DestroyKeeps == ASSUME IInv, Destroy PROVE IInv'
<1>1. /\ forget.pc = "destroying"
      /\ keys' = [keys EXCEPT ![forget.by] = @ \ {forget.group}]
      /\ forget' = [forget EXCEPT !.pc = "leaving", !.group = None]
      /\ UNCHANGED <<session, mount, slot, member, departed, late, crossed, reloads>>
  BY DEF Destroy
<1>2. forget.by \in Pubkey /\ forget.group \in departed[forget.by]
  BY <1>1 DEF IInv, ForgetIsNamed, Announces
<1>3. keys' \in [Pubkey -> SUBSET Group] /\ forget' \in ForgetRecord
  BY <1>1, <1>2 DEF IInv, Typed, ForgetRecord
<1>4. /\ forget'.pc = "leaving" /\ forget'.todo = forget.todo
      /\ forget'.by = forget.by /\ forget'.inst = forget.inst /\ forget'.method = forget.method
  BY <1>1 DEF IInv, Typed, ForgetRecord
<1>5. \A q \in Pubkey : keys[q] \subseteq keys'[q] \union departed[q]
  BY <1>1, <1>2 DEF IInv, Typed
<1>6. ForgetIsNamed'
  BY <1>1, <1>4 DEF IInv, ForgetIsNamed, session, mount
<1>7. Announces'
  BY <1>1, <1>4 DEF IInv, Announces
<1>8. NoGhostLeaf'
  BY <1>1, <1>5 DEF IInv, NoGhostLeaf
<1> QED
  BY <1>1, <1>3, <1>6, <1>7, <1>8, StoresMove DEF IInv, Typed

LEMMA DeleteKeyPackagesKeeps == ASSUME IInv, DeleteKeyPackages PROVE IInv'
<1>1. /\ forget.pc = "leaving" /\ forget.todo = {} /\ forget' = [forget EXCEPT !.pc = "kind5"]
      /\ UNCHANGED <<session, mount, parts, reloads>>
  BY DEF DeleteKeyPackages, ForgetTo
<1>2. UNCHANGED <<slot, keys, member, departed, late, crossed>>
  BY <1>1 DEF parts
<1>3. forget' \in ForgetRecord
  BY <1>1 DEF IInv, Typed, ForgetRecord
<1>4. /\ forget'.pc = "kind5" /\ forget'.todo = {} /\ forget.pc # "idle" /\ forget'.by = forget.by
      /\ forget'.inst = forget.inst /\ forget'.method = forget.method
  BY <1>1 DEF IInv, Typed, ForgetRecord
<1>5. ForgetIsNamed'
  BY <1>1, <1>4 DEF IInv, ForgetIsNamed, session, mount
<1>6. Announces' /\ NoGhostLeaf'
  BY <1>1, <1>2, <1>4 DEF IInv, Announces, NoGhostLeaf
<1> QED
  BY <1>1, <1>2, <1>3, <1>5, <1>6, StoresMove DEF IInv, Typed

LEMMA ClearKeeps == ASSUME IInv, Clear PROVE IInv'
<1>1. /\ active # None /\ Reaches(forget.by, active) /\ forget.pc \in {"kind5", "clearing"}
      /\ UNCHANGED <<session, mount, keys, member, departed, late, reloads>>
  BY DEF Clear
<1>2. PICK pc \in {"clearing", "identity"} : forget' = [forget EXCEPT !.pc = pc]
  BY DEF Clear, ForgetTo
<1>3. slot' \in [Pubkey -> Login \union {Old, None}]
  BY DEF Clear, IInv, Typed
<1>4. forget' \in ForgetRecord
  BY <1>2 DEF IInv, Typed, ForgetRecord
<1>5. /\ forget'.pc = pc /\ forget'.todo = forget.todo /\ forget'.by = forget.by
      /\ forget'.inst = forget.inst /\ forget'.method = forget.method
  BY <1>2 DEF IInv, Typed, ForgetRecord
<1>6. crossed \subseteq crossed' /\ crossed' \subseteq Pubkey
  BY <1>1, ReachesTypes DEF IInv, Typed
<1>7. ForgetIsNamed'
  BY <1>1, <1>5 DEF IInv, ForgetIsNamed, session, mount
<1>8. Announces' /\ NoGhostLeaf'
  BY <1>1, <1>5, <1>6 DEF IInv, Announces, NoGhostLeaf
<1> QED
  BY <1>1, <1>3, <1>4, <1>6, <1>7, <1>8, StoresMove DEF IInv, Typed

LEMMA FinishKeeps == ASSUME IInv, Finish PROVE IInv'
<1>1. /\ forget.pc = "identity" /\ Reaches(forget.by, active) /\ Disconnect(forget.method, TRUE)
      /\ keys' = IF active = None THEN keys ELSE [keys EXCEPT ![active] = {}]
      /\ forget' = IdleForget
      /\ UNCHANGED <<login, checked, hurried, slot, member, departed, late, reloads>>
  BY DEF Finish
<1>2. /\ active \in Pubkey \union {None} /\ forget.method \in {"nip07", "nip46", None}
      /\ crossed \subseteq crossed' /\ crossed' \subseteq Pubkey
  BY <1>1, ReachesTypes DEF IInv, Typed, ForgetRecord
<1>3. /\ (OneSignIn /\ ProviderFollows /\ RunsAreNamed /\ BoundAsShown /\ SessionHasOwner)'
      /\ page' \in PageRecord /\ saved' \in SavedRecord /\ UNCHANGED run
      /\ active' = None /\ inst' = None /\ client' = None
  BY <1>1, <1>2, DisconnectKeeps
<1>4. IdleForget \in ForgetRecord /\ IdleForget.pc = "idle"
  BY DEF IdleForget, ForgetRecord
<1>5. keys' \in [Pubkey -> SUBSET Group]
  BY <1>1, <1>2 DEF IInv, Typed
<1>6. Typed'
  BY <1>1, <1>2, <1>3, <1>4, <1>5 DEF IInv, Typed
<1>7. ForgetIsNamed' /\ Announces'
  BY <1>1, <1>4 DEF ForgetIsNamed, Announces
<1>8. NoGhostLeaf'
  <2> SUFFICES ASSUME NEW q \in Pubkey, q \notin crossed'
               PROVE member[q] \subseteq keys'[q] \union departed[q] \union late[q]
    BY <1>1 DEF NoGhostLeaf
  <2>1. q \notin crossed
    BY <1>2
  <2>2. CASE q # active
    <3>1. keys'[q] = keys[q]
      BY <1>1, <1>2, <2>2 DEF IInv, Typed
    <3> QED
      BY <2>1, <3>1 DEF IInv, NoGhostLeaf
  <2>3. CASE q = active
    <3>1. q = forget.by
      BY <1>1, <2>3, IdentityAssumption DEF Reaches
    <3>2. forget.todo = {} /\ member[q] \subseteq departed[q] \union late[q]
      BY <1>1, <2>1, <3>1 DEF IInv, Announces
    <3> QED
      BY <3>2
  <2> QED
    BY <2>2, <2>3
<1> QED
  BY <1>3, <1>6, <1>7, <1>8 DEF IInv

LEMMA ForgetFailsKeeps == ASSUME IInv, ForgetFails PROVE IInv'
<1>1. /\ forget.pc # "idle" /\ forget' = IdleForget
      /\ UNCHANGED <<login, checked, hurried, slot, keys, member, departed, late, reloads>>
  BY DEF ForgetFails
<1>2. IdleForget \in ForgetRecord /\ IdleForget.pc = "idle"
  BY DEF IdleForget, ForgetRecord
<1>3. ForgetIsNamed' /\ Announces'
  BY <1>1, <1>2 DEF ForgetIsNamed, Announces
<1>4. CASE forget.dialog
  <2>1. /\ Disconnect(forget.method, FALSE)
        /\ IF forget.inst = inst THEN UNCHANGED crossed ELSE Reaches(None, page.pubkey)
    BY <1>4 DEF ForgetFails
  <2>2. /\ page.pubkey \in Pubkey \union {None} /\ forget.method \in {"nip07", "nip46", None}
        /\ crossed \subseteq Pubkey
    BY DEF IInv, Typed, PageRecord, ForgetRecord
  <2>3. crossed \subseteq crossed' /\ crossed' \subseteq Pubkey
    BY <2>1, <2>2, ReachesTypes
  <2>4. ~hurried => forget.method = page.method \/ {page.pubkey} \ {None} \subseteq crossed'
    BY <1>1, <2>1 DEF Reaches, IInv, ForgetIsNamed
  <2>5. /\ (OneSignIn /\ ProviderFollows /\ RunsAreNamed /\ BoundAsShown /\ SessionHasOwner)'
        /\ page' \in PageRecord /\ saved' \in SavedRecord /\ UNCHANGED run
        /\ active' = None /\ inst' = None /\ client' = None
    BY <1>1, <2>1, <2>2, <2>3, <2>4, DisconnectKeeps
  <2>6. Typed'
    BY <1>1, <1>2, <2>3, <2>5 DEF IInv, Typed
  <2>7. NoGhostLeaf'
    BY <1>1, <2>3 DEF IInv, NoGhostLeaf
  <2> QED
    BY <1>3, <2>5, <2>6, <2>7 DEF IInv
<1>5. CASE ~forget.dialog
  <2>1. UNCHANGED <<saved, page, mount, crossed>>
    BY <1>5 DEF ForgetFails
  <2>2. NoGhostLeaf'
    BY <1>1, <2>1 DEF IInv, NoGhostLeaf
  <2> QED
    BY <1>1, <1>2, <1>3, <2>1, <2>2, StoresMove DEF IInv, Typed, session
<1> QED
  BY <1>4, <1>5

----------------------------------------------------------------------------
(* The theorems. *)

LEMMA StepKeeps == ASSUME IInv, [Next]_vars PROVE IInv'
<1>1. CASE UNCHANGED vars
  BY <1>1 DEF vars, session, mount, parts, IInv, Typed, OneSignIn, Pending, ProviderFollows,
              RunsAreNamed, BoundAsShown, SessionHasOwner, Restores, ForgetIsNamed, Announces,
              NoGhostLeaf
<1>2. CASE \E l \in Login : StartNip07(l) \/ Nip07Answers(l) \/ Nip07Refuses(l) \/ StartNip46(l)
                            \/ SaveSession(l) \/ Nip46Answers(l) \/ Nip46Fails(l) \/ RestoreFails(l)
  BY <1>2, StartNip07Keeps, Nip07AnswersKeeps, Nip07RefusesKeeps, StartNip46Keeps, SaveSessionKeeps,
     Nip46AnswersKeeps, Nip46FailsKeeps, RestoreFailsKeeps
<1>3. CASE \E l \in Login : Connected(l) \/ Migrated(l) \/ SlotRead(l) \/ SlotMinted(l)
                            \/ GroupsLoaded(l) \/ Probed(l) \/ InitFails(l)
  BY <1>3, ConnectedKeeps, MigratedKeeps, SlotReadKeeps, SlotMintedKeeps, GroupsLoadedKeeps,
     ProbedKeeps, InitFailsKeeps
<1>4. CASE Skip \/ SignOut \/ Reload
  BY <1>4, SkipKeeps, SignOutKeeps, ReloadKeeps
<1>5. CASE \E g \in Group : Join(g) \/ Propose(g)
  BY <1>5, JoinKeeps, ProposeKeeps
<1>6. CASE StartForget \/ Destroy \/ DeleteKeyPackages \/ Clear \/ Finish \/ ForgetFails
  BY <1>6, StartForgetKeeps, DestroyKeeps, DeleteKeyPackagesKeeps, ClearKeeps, FinishKeeps,
     ForgetFailsKeeps
<1> QED
  BY <1>1, <1>2, <1>3, <1>4, <1>5, <1>6 DEF Next

LEMMA Invariance == Spec => []IInv
<1>1. Init => IInv
  BY InitHolds
<1>2. IInv /\ [Next]_vars => IInv'
  BY StepKeeps
<1> QED
  BY <1>1, <1>2, PTL DEF Spec

\* Every reachable state has its types.
THEOREM TypeCorrect == Spec => []TypeOK
<1>1. IInv => TypeOK
  BY TypedIsTypeOK DEF IInv
<1> QED
  BY <1>1, Invariance, PTL

\* The stores are bound to the user whom the page shows or to nobody, whatever
\* init() of an earlier session is still under way, unless a sign-in was started
\* while another was pending.
THEOREM StoresFollowThePage == Spec => []BoundToPage
<1>1. IInv => BoundToPage
  BY DEF IInv, BoundAsShown, BoundToPage
<1> QED
  BY <1>1, Invariance, PTL

\* The client in the provider's state is of the user on the page, with the same
\* exemption.
THEOREM ClientFollowsThePage == Spec => []ClientIsOfPage
<1>1. IInv => ClientIsOfPage
  BY DEF IInv, Typed, RunsAreNamed, BoundAsShown, ClientIsOfPage
<1> QED
  BY <1>1, Invariance, PTL

\* What a reload restores is the user on the page, or one whom the forget of
\* another session has signed out.
THEOREM ReloadIsHonest == Spec => []ReloadRestoresNoOther
<1>1. IInv => ReloadRestoresNoOther
  <2> SUFFICES ASSUME IInv, page.pubkey # None, ~hurried
               PROVE saved.nip46 \in {page.pubkey, None} \union crossed
    BY DEF ReloadRestoresNoOther
  <2>1. \A l \in Login : ~Restores(l)
    BY DEF IInv, OneSignIn, Pending, Restores
  <2> QED
    BY <2>1 DEF IInv, SessionHasOwner
<1> QED
  BY <1>1, Invariance, PTL

\* No group's state is destroyed before the departure is announced, but for groups
\* joined while a forget runs, and partitions that another user's task has reached.
THEOREM LeavesAreAnnounced == Spec => []NoGhostLeaf
<1>1. IInv => NoGhostLeaf
  BY DEF IInv
<1> QED
  BY <1>1, Invariance, PTL

----------------------------------------------------------------------------
(* The slot of the client. *)

Mints(l) == run[l].pc \in {"slot", "minting"}

\* What the init() l has read or stored, the identity store still holds.
HasItsSlot(l) ==
  /\ run[l].pc = "slot" => run[l].slot \in {None, slot[run[l].pk]}
  /\ run[l].pc = "minting" => slot[run[l].pk] = l
  /\ run[l].pc = "loading" \/ client = l => run[l].slot = slot[run[l].pk]

\* As long as a sign-in waits for a clientId being stored and none was hurried, each
\* mount has one init(), one that is at its clientId is of the mount on the page or
\* of the last one, and what the mounted one holds is stored, until a forget has
\* cleared the identity store.
SlotInv ==
  "store" \notin Hasty /\ ~hurried =>
    /\ \A l \in Login : run[l].pc # "none" => run[l].inst = l
    /\ \A l \in Login : Mints(l) => inst \in {l, None} /\ \A k \in Login : ~Pending(k)
    /\ client # None => run[client].pc \in {"probing", "over"}
    /\ forget.pc # "identity" =>
         \A l \in Login : inst = l /\ run[l].pc # "none" /\ run[l].pk \notin crossed => HasItsSlot(l)

LEMMA SlotInit == Init => SlotInv
<1> SUFFICES ASSUME Init PROVE SlotInv
  OBVIOUS
<1>1. client = None /\ \A l \in Login : run[l].pc = "none"
  BY DEF Init, NoRun
<1> QED
  BY <1>1 DEF SlotInv, Mints

\* Steps beside init(): none goes on, and the provider stays as it is or is gone.
LEMMA SlotQuiet ==
  ASSUME IInv, SlotInv, UNCHANGED run, UNCHANGED slot, client' \in {client, None},
         inst' = inst \/ inst' = None, crossed \subseteq crossed', hurried => hurried',
         \/ \A k \in Login : Pending(k)' => Pending(k)
         \/ "store" \notin Hasty => \A k \in Login : ~Mints(k),
         forget.pc = "identity" => forget'.pc = "identity" \/ inst' = None
  PROVE  SlotInv'
<1> SUFFICES ASSUME "store" \notin Hasty, ~hurried' PROVE SlotInv'
  BY DEF SlotInv
<1>1. /\ \A l \in Login : run[l].pc # "none" => run[l].inst = l
      /\ \A l \in Login : Mints(l) => inst \in {l, None} /\ \A k \in Login : ~Pending(k)
      /\ client # None => run[client].pc \in {"probing", "over"}
      /\ forget.pc # "identity" =>
           \A l \in Login : inst = l /\ run[l].pc # "none" /\ run[l].pk \notin crossed => HasItsSlot(l)
  BY DEF SlotInv
<1>2. \A l \in Login : Mints(l)' => inst' \in {l, None} /\ \A k \in Login : ~Pending(k)'
  BY <1>1 DEF Mints
<1>3. client' # None => run'[client'].pc \in {"probing", "over"}
  BY <1>1
<1>4. ASSUME forget'.pc # "identity", NEW l \in Login, inst' = l, run'[l].pc # "none",
             run'[l].pk \notin crossed'
      PROVE  HasItsSlot(l)'
  <2>1. inst = l /\ forget.pc # "identity"
    BY <1>4, IdentityAssumption
  <2>2. HasItsSlot(l)
    BY <1>1, <1>4, <2>1
  <2>3. client' = l => client = l
    BY IdentityAssumption
  <2> QED
    BY <2>2, <2>3 DEF HasItsSlot
<1> QED
  BY <1>1, <1>2, <1>3, <1>4 DEF SlotInv

\* The provider is mounted by a sign-in that was pending, so no init() is at its clientId.
LEMMA SlotMounts ==
  ASSUME IInv, SlotInv, NEW l \in Login, NEW p \in PageRecord, Commit(l, p), Pending(l),
         page.pubkey = None \/ hurried, UNCHANGED hurried, UNCHANGED slot, UNCHANGED crossed,
         p.pubkey \in Pubkey, UNCHANGED forget
  PROVE  SlotInv'
<1> SUFFICES ASSUME "store" \notin Hasty, ~hurried PROVE SlotInv'
  BY DEF SlotInv
<1>1. p.pubkey # None
  BY IdentityAssumption
<1>2. /\ run' = Started(l, l, p.pubkey) /\ inst' = l /\ client' = client /\ client = None
  BY <1>1 DEF Commit, Mounts, Switches, Renames, Unmounts, IInv, ProviderFollows
<1>3. /\ run'[l].pc = "connecting" /\ run'[l].inst = l
      /\ \A k \in Login \ {l} : run'[k] = run[k]
  BY <1>2, StartedType DEF IInv
<1>4. \A k \in Login : ~Mints(k)
  BY DEF SlotInv
<1>5. \A k \in Login : ~Mints(k)'
  BY <1>3, <1>4 DEF Mints
<1>6. \A k \in Login : run'[k].pc # "none" => run'[k].inst = k
  BY <1>3 DEF SlotInv
<1>7. HasItsSlot(l)'
  BY <1>2, <1>3, IdentityAssumption DEF HasItsSlot
<1> QED
  BY <1>2, <1>5, <1>6, <1>7 DEF SlotInv

\* One init() moves. What it does while unmounted touches no store.
LEMMA SlotMoves ==
  ASSUME IInv, SlotInv, NEW l \in Login, run[l].pc # "none",
         NEW c, run' = [run EXCEPT ![l] = c],
         c.pc # "none", c.inst = run[l].inst, c.pk = run[l].pk,
         UNCHANGED <<session, inst, forget>>, crossed \subseteq crossed',
         client' \in {client, None} \/ client' = l,
         c.pc \in {"slot", "minting"} => Mounted(l) \/ Mints(l),
         client' = l => c.pc \in {"probing", "over"},
         ~hurried /\ ~Mounted(l) => UNCHANGED slot,
         "store" \notin Hasty /\ ~hurried /\ Mounted(l) /\ forget.pc # "identity"
         /\ run[l].pk \notin crossed' =>
           /\ c.pc = "slot" => c.slot \in {None, slot'[c.pk]}
           /\ c.pc = "minting" => slot'[c.pk] = l
           /\ c.pc = "loading" \/ client' = l => c.slot = slot'[c.pk]
  PROVE  SlotInv'
<1>1. UNCHANGED hurried /\ \A k \in Login : Pending(k)' <=> Pending(k)
  BY DEF session, Pending
<1> SUFFICES ASSUME "store" \notin Hasty, ~hurried PROVE SlotInv'
  BY <1>1 DEF SlotInv
<1>2. run'[l] = c /\ \A k \in Login \ {l} : run'[k] = run[k]
  BY DEF IInv, Typed
<1>3. /\ \A k \in Login : run[k].pc # "none" => run[k].inst = k
      /\ \A k \in Login : Mints(k) => inst \in {k, None} /\ \A j \in Login : ~Pending(j)
      /\ client # None => run[client].pc \in {"probing", "over"}
  BY DEF SlotInv
<1>4. run[l].inst = l /\ (Mounted(l) <=> inst = l)
  BY <1>3 DEF Mounted
<1>5. \A k \in Login : run'[k].pc # "none" => run'[k].inst = k
  BY <1>2, <1>3
<1>6. Mounted(l) => \A k \in Login : ~Pending(k)
  BY <1>4, IdentityAssumption DEF IInv, ProviderFollows, OneSignIn
<1>7. \A k \in Login : Mints(k)' => inst' \in {k, None} /\ \A j \in Login : ~Pending(j)'
  BY <1>1, <1>2, <1>3, <1>4, <1>6 DEF Mints
<1>8. client' # None => run'[client'].pc \in {"probing", "over"}
  <2>1. CASE client' = l
    BY <1>2, <2>1
  <2>2. CASE client' # l /\ client' # None
    BY <1>2, <1>3, <2>2 DEF IInv, Typed
  <2> QED
    BY <2>1, <2>2
<1>9. ASSUME forget'.pc # "identity", NEW k \in Login, inst' = k, run'[k].pc # "none",
             run'[k].pk \notin crossed'
      PROVE  HasItsSlot(k)'
  <2>1. inst = k /\ forget.pc # "identity"
    BY <1>9
  <2>2. CASE k = l
    BY <1>1, <1>2, <1>4, <1>9, <2>1, <2>2 DEF HasItsSlot
  <2>3. CASE k # l
    <3>1. UNCHANGED slot /\ run'[k] = run[k] /\ run[k].pk \notin crossed
      BY <1>2, <1>4, <1>9, <2>1, <2>3
    <3>2. HasItsSlot(k)
      BY <1>9, <2>1, <3>1 DEF SlotInv
    <3>3. client' = k => client = k
      BY <2>3, IdentityAssumption
    <3> QED
      BY <3>1, <3>2, <3>3 DEF HasItsSlot
  <2> QED
    BY <2>2, <2>3
<1> QED
  BY <1>5, <1>7, <1>8, <1>9 DEF SlotInv


LEMMA SlotSignIns ==
  ASSUME IInv, SlotInv, NEW l \in Login,
         \/ StartNip07(l) \/ Nip07Answers(l) \/ Nip07Refuses(l) \/ StartNip46(l)
         \/ SaveSession(l) \/ Nip46Answers(l) \/ Nip46Fails(l) \/ RestoreFails(l)
  PROVE  SlotInv'
<1>1. login \in [Login -> LoginRecord] /\ page \in PageRecord
  BY DEF IInv, Typed
<1>2. ASSUME NEW p \in PageRecord, Commit(l, p), p.pubkey = page.pubkey, page.pubkey = None
      PROVE  UNCHANGED mount
  BY <1>2 DEF Commit, Mounts, Switches, Renames, Unmounts
<1>3. CASE StartNip07(l) \/ StartNip46(l)
  <2>1. /\ "store" \notin Hasty => \A k \in Login : ~Mints(k)
        /\ hurried => hurried'
    BY <1>3 DEF StartNip07, StartNip46, CanStart, Waited, Mints
  <2>2. UNCHANGED <<forget, slot, crossed>>
    BY <1>3 DEF StartNip07, StartNip46, parts
  <2>3. UNCHANGED mount
    <3>1. CASE StartNip46(l)
      BY <3>1 DEF StartNip46
    <3>2. CASE StartNip07(l)
      <4>1. /\ [page EXCEPT !.signer = "extension"] \in PageRecord
            /\ [page EXCEPT !.signer = "extension"].pubkey = page.pubkey
        BY <1>1 DEF PageRecord
      <4> QED
        BY <1>2, <3>2, <4>1 DEF StartNip07, CanStart
    <3> QED
      BY <1>3, <3>1, <3>2
  <2> QED
    BY <2>1, <2>2, <2>3, SlotQuiet DEF mount
<1>4. CASE Nip07Answers(l) \/ Nip46Answers(l)
  <2>1. Pending(l) /\ UNCHANGED <<hurried, slot, crossed, forget>>
    BY <1>4 DEF Nip07Answers, Nip46Answers, Pending, parts
  <2>2. login[l].pk \in Pubkey /\ (page.pubkey = None \/ hurried)
    BY <2>1 DEF IInv, OneSignIn
  <2>3. PICK p \in PageRecord : Commit(l, p) /\ p.pubkey = login[l].pk
    <3>1. CASE Nip07Answers(l)
      <4> DEFINE q == [page EXCEPT !.pubkey = login[l].pk, !.method = "nip07",
                                   !.signer = IF login[l].kind = "boot" THEN "extension" ELSE @]
      <4>1. q \in PageRecord /\ q.pubkey = login[l].pk
        BY <1>1, <2>2 DEF PageRecord
      <4> QED
        BY <3>1, <4>1 DEF Nip07Answers
    <3>2. CASE Nip46Answers(l)
      <4> DEFINE q == [signer |-> l, pubkey |-> login[l].pk, method |-> "nip46"]
      <4>1. q \in PageRecord /\ q.pubkey = login[l].pk
        BY <2>2 DEF PageRecord
      <4> QED
        BY <3>2, <4>1 DEF Nip46Answers
    <3> QED
      BY <1>4, <3>1, <3>2
  <2> QED
    BY <2>1, <2>2, <2>3, SlotMounts
<1>5. CASE Nip07Refuses(l) \/ SaveSession(l) \/ Nip46Fails(l) \/ RestoreFails(l)
  <2>1. Pending(l) /\ UNCHANGED <<hurried, slot, crossed, forget>>
    BY <1>5 DEF Nip07Refuses, SaveSession, Nip46Fails, RestoreFails, Pending, parts
  <2>2. \A k \in Login : Pending(k)' => Pending(k)
    <3>1. \A k \in Login \ {l} : login'[k] = login[k]
      BY <1>1, <1>5 DEF Nip07Refuses, SaveSession, Nip46Fails, RestoreFails, Becomes, Attempt
    <3> QED
      BY <2>1, <3>1 DEF Pending
  <2>3. hurried \/ UNCHANGED mount
    <3> SUFFICES ASSUME ~hurried PROVE UNCHANGED mount
      OBVIOUS
    <3>1. page.pubkey = None
      BY <2>1 DEF IInv, OneSignIn
    <3>2. \A s \in Login \union {"extension", None} :
            LET p == [page EXCEPT !.signer = s] IN p \in PageRecord /\ p.pubkey = page.pubkey
      BY <1>1 DEF PageRecord
    <3>3. page.signer \in Login \union {"extension", None}
      BY <1>1 DEF PageRecord
    <3>4. CASE Nip07Refuses(l)
      BY <1>2, <3>1, <3>2, <3>4 DEF Nip07Refuses, mount
    <3>5. CASE RestoreFails(l)
      BY <1>2, <3>1, <3>2, <3>3, <3>5 DEF RestoreFails
    <3>6. CASE SaveSession(l) \/ Nip46Fails(l)
      BY <3>6 DEF SaveSession, Nip46Fails
    <3> QED
      BY <1>5, <3>4, <3>5, <3>6
  <2>4. CASE hurried
    BY <2>1, <2>4 DEF SlotInv
  <2>5. CASE UNCHANGED mount
    BY <2>1, <2>2, <2>5, SlotQuiet DEF mount
  <2> QED
    BY <2>3, <2>4, <2>5
<1> QED
  BY <1>3, <1>4, <1>5

LEMMA SlotInits ==
  ASSUME IInv, SlotInv, NEW l \in Login,
         \/ Connected(l) \/ Migrated(l) \/ SlotRead(l) \/ SlotMinted(l) \/ GroupsLoaded(l)
         \/ Probed(l) \/ InitFails(l)
  PROVE  SlotInv'
<1>1. run \in [Login -> RunRecord] /\ run[l] \in RunRecord /\ active \in Pubkey \union {None}
      /\ slot \in [Pubkey -> Login \union {Old, None}] /\ crossed \subseteq Pubkey
  BY DEF IInv, Typed
<1>2. UNCHANGED <<session, inst, forget>> /\ run[l].pc # "none"
  BY DEF Connected, Migrated, SlotRead, SlotMinted, GroupsLoaded, Probed, InitFails
<1>3. run[l].pk \in Pubkey /\ run[l].inst \in Login
  BY <1>2 DEF IInv, RunsAreNamed
<1>4. \A pc \in {"migrating", "slot", "minting", "loading", "probing", "over"} :
        LET c == [run[l] EXCEPT !.pc = pc] IN
        c.pc = pc /\ c.inst = run[l].inst /\ c.pk = run[l].pk /\ c.slot = run[l].slot
  BY <1>1 DEF RunRecord
<1>5. \A pc \in {"slot", "loading", "over"}, s \in Login \union {Old, None} :
        LET c == [run[l] EXCEPT !.pc = pc, !.slot = s] IN
        c.pc = pc /\ c.inst = run[l].inst /\ c.pk = run[l].pk /\ c.slot = s
  BY <1>1 DEF RunRecord
<1>6. ~hurried /\ Mounted(l) => active = run[l].pk
  BY <1>2 DEF IInv, BoundAsShown, Mounted
<1>7. "store" \notin Hasty /\ ~hurried /\ run[l].pc \notin {"probing", "over"} => client # l
  BY <1>3, IdentityAssumption DEF SlotInv
<1>8. ASSUME RunTo(l, "over"), client' \in {client, None}, UNCHANGED slot, crossed \subseteq crossed',
             run[l].pc \in {"connecting", "migrating", "slot", "minting", "loading"}
      PROVE  SlotInv'
  <2> DEFINE c == [run[l] EXCEPT !.pc = "over"]
  <2>1. run' = [run EXCEPT ![l] = c]
    BY <1>8 DEF RunTo
  <2>2. c.pc = "over" /\ c.inst = run[l].inst /\ c.pk = run[l].pk /\ c.slot = run[l].slot
    BY <1>4
  <2>3. "store" \notin Hasty /\ ~hurried => client' # l
    BY <1>7, <1>8, IdentityAssumption
  <2> HIDE DEF c
  <2> QED
    BY <1>2, <1>8, <2>1, <2>2, <2>3, SlotMoves
<1>9. CASE Connected(l)
  <2>1. run[l].pc = "connecting" /\ UNCHANGED <<client, slot, crossed>>
    BY <1>9 DEF Connected, Over, parts
  <2>2. CASE RunTo(l, "over")
    BY <1>8, <2>1, <2>2
  <2>3. CASE RunTo(l, "migrating")
    <3> DEFINE c == [run[l] EXCEPT !.pc = "migrating"]
    <3>1. run' = [run EXCEPT ![l] = c]
      BY <2>3 DEF RunTo
    <3>2. c.pc = "migrating" /\ c.inst = run[l].inst /\ c.pk = run[l].pk
      BY <1>4
    <3>3. "store" \notin Hasty /\ ~hurried => client' # l
      BY <1>7, <2>1
    <3> HIDE DEF c
    <3>4. CASE "store" \notin Hasty /\ ~hurried
      BY <1>2, <2>1, <3>1, <3>2, <3>3, <3>4, SlotMoves
    <3>5. CASE ~("store" \notin Hasty /\ ~hurried)
      BY <1>2, <3>5 DEF SlotInv, session
    <3> QED
      BY <3>4, <3>5
  <2> QED
    BY <1>9, <2>2, <2>3 DEF Connected, Over
<1>10. CASE Migrated(l)
  <2>1. run[l].pc = "migrating" /\ UNCHANGED slot
    BY <1>10 DEF Migrated
  <2>2. crossed \subseteq crossed'
    BY <1>10 DEF Migrated, Reaches
  <2>3. CASE ~Mounted(l) \/ active = None
    <3>1. RunTo(l, "over") /\ client' \in {client, None}
      BY <1>10, <2>3 DEF Migrated, Over, Throws
    <3> QED
      BY <1>8, <2>1, <2>2, <3>1
  <2>4. CASE Mounted(l) /\ active # None
    <3> DEFINE c == [run[l] EXCEPT !.pc = "slot", !.slot = slot[active]]
    <3>1. run' = [run EXCEPT ![l] = c] /\ UNCHANGED client
      BY <1>10, <2>4 DEF Migrated
    <3>2. c.pc = "slot" /\ c.inst = run[l].inst /\ c.pk = run[l].pk /\ c.slot = slot[active]
      BY <1>1, <1>5, <2>4
    <3> HIDE DEF c
    <3>3. CASE "store" \notin Hasty /\ ~hurried
      <4>1. client' # l /\ c.slot = slot'[c.pk]
        BY <1>6, <1>7, <2>1, <2>4, <3>1, <3>2, <3>3
      <4> QED
        BY <1>2, <2>1, <2>2, <2>4, <3>1, <3>2, <4>1, SlotMoves
    <3>4. CASE ~("store" \notin Hasty /\ ~hurried)
      BY <1>2, <3>4 DEF SlotInv, session
    <3> QED
      BY <3>3, <3>4
  <2> QED
    BY <2>3, <2>4
<1>11. CASE SlotRead(l)
  <2>1. run[l].pc = "slot" /\ crossed \subseteq crossed'
    BY <1>11 DEF SlotRead, Reaches
  <2>2. CASE ~("store" \notin Hasty /\ ~hurried)
    BY <1>2, <2>2 DEF SlotInv, session
  <2>3. CASE "store" \notin Hasty /\ ~hurried
    <3>1. Mounted(l) \/ active = None
      BY <1>2, <2>1, <2>3 DEF SlotInv, Mints, Mounted, IInv, ProviderFollows
    <3>2. client # l
      BY <1>7, <2>1, <2>3
    <3>3. CASE run[l].slot # None
      <4> DEFINE pc == IF Mounted(l) THEN "loading" ELSE "over"
                 c == [run[l] EXCEPT !.pc = pc, !.slot = run[l].slot]
      <4>1. run' = [run EXCEPT ![l] = c] /\ UNCHANGED <<client, slot, crossed>>
        BY <1>11, <3>3 DEF SlotRead, Loads
      <4>2. run[l].slot \in Login \union {Old, None}
        BY <1>1 DEF RunRecord
      <4>3. c.pc = pc /\ c.inst = run[l].inst /\ c.pk = run[l].pk /\ c.slot = run[l].slot
        BY <1>5, <4>2
      <4>4. Mounted(l) => inst = l
        BY <1>2, <2>3 DEF SlotInv, Mounted
      <4>5. Mounted(l) /\ forget.pc # "identity" /\ run[l].pk \notin crossed'
              => run[l].slot = slot[run[l].pk]
        BY <1>2, <2>1, <2>3, <3>3, <4>1, <4>4 DEF SlotInv, HasItsSlot
      <4>6. c.pc \in {"loading", "over"} /\ (c.pc = "loading" => Mounted(l))
        BY <4>3
      <4> HIDE DEF c, pc
      <4> QED
        BY <1>2, <2>1, <3>2, <4>1, <4>3, <4>5, <4>6, SlotMoves
    <3>4. CASE run[l].slot = None /\ active = None
      <4>1. RunTo(l, "over") /\ client' \in {client, None} /\ UNCHANGED slot
        BY <1>11, <3>4 DEF SlotRead, Throws
      <4> QED
        BY <1>8, <2>1, <4>1
    <3>5. CASE run[l].slot = None /\ active # None
      <4> DEFINE c == [run[l] EXCEPT !.pc = "minting"]
      <4>1. run' = [run EXCEPT ![l] = c] /\ UNCHANGED client /\ slot' = [slot EXCEPT ![active] = l]
        BY <1>11, <3>5 DEF SlotRead, RunTo
      <4>2. c.pc = "minting" /\ c.inst = run[l].inst /\ c.pk = run[l].pk
        BY <1>4
      <4>3. Mounted(l) /\ slot'[c.pk] = l
        BY <1>1, <1>3, <1>6, <2>3, <3>1, <3>5, <4>1, <4>2
      <4> HIDE DEF c
      <4> QED
        BY <1>2, <2>1, <3>2, <4>1, <4>2, <4>3, SlotMoves
    <3> QED
      BY <3>3, <3>4, <3>5
  <2> QED
    BY <2>2, <2>3
<1>12. CASE SlotMinted(l)
  <2> DEFINE pc == IF Mounted(l) THEN "loading" ELSE "over"
             c == [run[l] EXCEPT !.pc = pc, !.slot = l]
  <2>1. run[l].pc = "minting" /\ run' = [run EXCEPT ![l] = c] /\ UNCHANGED <<client, slot, crossed>>
    BY <1>12 DEF SlotMinted, Loads, parts
  <2>2. c.pc = pc /\ c.inst = run[l].inst /\ c.pk = run[l].pk /\ c.slot = l
    BY <1>5
  <2>3. c.pc \in {"loading", "over"} /\ (c.pc = "loading" => Mounted(l))
    BY <2>2
  <2> HIDE DEF c, pc
  <2>4. CASE ~("store" \notin Hasty /\ ~hurried)
    BY <1>2, <2>4 DEF SlotInv, session
  <2>5. CASE "store" \notin Hasty /\ ~hurried
    <3>1. client # l /\ (Mounted(l) => inst = l)
      BY <1>2, <1>7, <2>1, <2>5 DEF SlotInv, Mounted
    <3>2. Mounted(l) /\ forget.pc # "identity" /\ run[l].pk \notin crossed' => slot[run[l].pk] = l
      BY <1>2, <2>1, <2>5, <3>1 DEF SlotInv, HasItsSlot
    <3> QED
      BY <1>2, <2>1, <2>2, <2>3, <3>1, <3>2, SlotMoves
  <2> QED
    BY <2>4, <2>5
<1>13. CASE GroupsLoaded(l)
  <2>1. run[l].pc = "loading" /\ UNCHANGED slot /\ crossed \subseteq crossed'
    BY <1>13 DEF GroupsLoaded, Reaches
  <2>2. CASE ~Mounted(l)
    BY <1>8, <1>13, <2>1, <2>2 DEF GroupsLoaded, Over
  <2>3. CASE Mounted(l)
    <3>1. PICK pc \in {"over", "probing"} : RunTo(l, pc)
      BY <1>13, <2>3 DEF GroupsLoaded
    <3> DEFINE c == [run[l] EXCEPT !.pc = pc]
    <3>2. run' = [run EXCEPT ![l] = c] /\ client' = l
      BY <1>13, <2>3, <3>1 DEF RunTo, GroupsLoaded
    <3>3. c.pc = pc /\ c.inst = run[l].inst /\ c.pk = run[l].pk /\ c.slot = run[l].slot
      BY <1>4
    <3> HIDE DEF c
    <3>4. "store" \notin Hasty /\ ~hurried /\ forget.pc # "identity" /\ run[l].pk \notin crossed'
            => c.slot = slot'[c.pk]
      BY <1>2, <2>1, <2>3, <3>3 DEF SlotInv, HasItsSlot, Mounted
    <3> QED
      BY <1>2, <2>1, <2>3, <3>2, <3>3, <3>4, SlotMoves
  <2> QED
    BY <2>2, <2>3
<1>14. CASE Probed(l)
  <2> DEFINE c == [run[l] EXCEPT !.pc = "over"]
  <2>1. run[l].pc = "probing" /\ run' = [run EXCEPT ![l] = c] /\ UNCHANGED <<client, slot>>
        /\ crossed \subseteq crossed'
    BY <1>14 DEF Probed, Over, RunTo, Reaches
  <2>2. c.pc = "over" /\ c.inst = run[l].inst /\ c.pk = run[l].pk /\ c.slot = run[l].slot
    BY <1>4
  <2> HIDE DEF c
  <2>3. "store" \notin Hasty /\ ~hurried /\ Mounted(l) /\ forget.pc # "identity"
        /\ run[l].pk \notin crossed' /\ client' = l => c.slot = slot'[c.pk]
    BY <1>2, <2>1, <2>2 DEF SlotInv, HasItsSlot, Mounted
  <2> QED
    BY <1>2, <2>1, <2>2, <2>3, SlotMoves
<1>15. CASE InitFails(l)
  BY <1>8, <1>15 DEF InitFails, Throws, parts
<1> QED
  BY <1>9, <1>10, <1>11, <1>12, <1>13, <1>14, <1>15

\* A forget clears the identity store in its last step but one; the last signs out.
LEMMA SlotForgets ==
  ASSUME IInv, SlotInv,
         \/ Skip \/ SignOut \/ StartForget \/ Destroy \/ DeleteKeyPackages \/ Clear \/ Finish
         \/ ForgetFails \/ \E g \in Group : Join(g) \/ Propose(g)
  PROVE  SlotInv'
<1>1. /\ hurried' = hurried /\ UNCHANGED run /\ UNCHANGED login
      /\ client' \in {client, None} /\ inst' \in {inst, None} /\ crossed \subseteq crossed'
  <2>1. ASSUME Commit(None, SignedOut)
        PROVE  UNCHANGED run /\ client' \in {client, None} /\ inst' \in {inst, None}
    BY <2>1, SignedOutKeepsProvider, Zenon DEF Commit, Mounts, Switches, Renames, Unmounts, SignedOut, mount
  <2>2. CASE SignOut \/ Finish \/ ForgetFails
    <3>1. UNCHANGED <<login, hurried>> /\ crossed \subseteq crossed'
      BY <2>2 DEF SignOut, Finish, ForgetFails, parts, Reaches
    <3>2. Commit(None, SignedOut) \/ UNCHANGED mount
      BY <2>2 DEF SignOut, Finish, ForgetFails, Disconnect
    <3> QED
      BY <2>1, <3>1, <3>2 DEF mount
  <2>3. CASE Skip \/ StartForget \/ Destroy \/ DeleteKeyPackages \/ Clear
             \/ \E g \in Group : Join(g) \/ Propose(g)
    BY <2>3 DEF Skip, StartForget, Destroy, DeleteKeyPackages, Clear, Join, Propose, session, mount,
                parts, Reaches
  <2> QED
    BY <2>2, <2>3
<1>2. \A k \in Login : Pending(k)' => Pending(k)
  BY <1>1 DEF Pending
<1>3. CASE Clear
  <2>1. PICK pc \in {"clearing", "identity"} :
          /\ forget' = [forget EXCEPT !.pc = pc] /\ (pc = "clearing" => UNCHANGED slot)
          /\ forget.pc # "identity"
    BY <1>3 DEF Clear, ForgetTo
  <2>2. forget'.pc = pc
    BY <2>1 DEF IInv, Typed, ForgetRecord
  <2>3. CASE pc = "clearing"
    BY <1>1, <1>2, <2>1, <2>3, SlotQuiet
  <2>4. CASE pc = "identity"
    <3>1. UNCHANGED <<inst, client, login>>
      BY <1>3 DEF Clear, session, mount
    <3> QED
      BY <1>1, <2>2, <2>4, <3>1 DEF SlotInv, Mints, Pending
  <2> QED
    BY <2>3, <2>4
<1>4. CASE ~Clear
  <2>1. UNCHANGED slot
    BY <1>4 DEF Skip, SignOut, StartForget, Destroy, DeleteKeyPackages, Finish, ForgetFails, Join,
                Propose, parts
  <2>2. forget.pc = "identity" => forget'.pc = "identity" \/ inst' = None
    <3>1. CASE Finish
      <4>1. Commit(None, SignedOut)
        BY <3>1 DEF Finish, Disconnect
      <4>2. Typed /\ ProviderFollows /\ RunsAreNamed /\ BoundAsShown /\ UNCHANGED login
        BY <1>1 DEF IInv
      <4>3. inst' = None
        BY ONLY <4>1, <4>2, SignedOutKeepsProvider
      <4> QED
        BY <4>3
    <3>2. CASE ~Finish
      <4>1. CASE Skip \/ SignOut \/ \E g \in Group : Join(g)
        BY <4>1 DEF Skip, SignOut, Join
      <4>2. CASE \/ StartForget \/ Destroy \/ DeleteKeyPackages \/ ForgetFails
                 \/ \E g \in Group : Propose(g)
        <5>1. forget = IdleForget => forget.pc = "idle"
          BY DEF IdleForget
        <5>2. CASE StartForget
          BY <5>1, <5>2 DEF StartForget
        <5>3. CASE Destroy \/ DeleteKeyPackages
          BY <5>3 DEF Destroy, DeleteKeyPackages
        <5>4. CASE ForgetFails \/ \E g \in Group : Propose(g)
          BY <5>4 DEF ForgetFails, Propose
        <5> QED
          BY <4>2, <5>2, <5>3, <5>4
      <4> QED
        BY <1>4, <3>2, <4>1, <4>2
    <3> QED
      BY <3>1, <3>2
  <2> QED
    BY <1>1, <1>2, <2>1, <2>2, SlotQuiet
<1> QED
  BY <1>3, <1>4

LEMMA SlotStep == IInv /\ SlotInv /\ [Next]_vars => SlotInv'
<1> SUFFICES ASSUME IInv, SlotInv, [Next]_vars PROVE SlotInv'
  OBVIOUS
<1>1. CASE UNCHANGED vars
  BY <1>1 DEF vars, session, mount, parts, SlotInv, Mints, HasItsSlot, Pending
<1>2. CASE Reload
  <2>1. client' = None /\ \A l \in Login : run'[l].pc = "none"
    BY <1>2 DEF Reload, NoRun
  <2> QED
    BY <2>1 DEF SlotInv, Mints
<1>3. CASE Next /\ ~Reload
  BY <1>3, SlotSignIns, SlotInits, SlotForgets DEF Next
<1> QED
  BY <1>1, <1>2, <1>3

\* The client goes by the slot that the identity store holds: as long as a sign-in
\* waits for a clientId that is being stored, whatever else it does not wait for.
THEOREM ClientIsFoundAgain ==
  ASSUME "store" \notin Hasty
  PROVE  Spec => []ClientKeepsItsSlot
<1>1. IInv /\ SlotInv => ClientKeepsItsSlot
  <2> SUFFICES ASSUME IInv, SlotInv, client # None, forget.pc # "identity", ~hurried,
                      run[client].pk \notin crossed
               PROVE  slot[run[client].pk] = run[client].slot
    BY DEF ClientKeepsItsSlot
  <2>1. client \in Login /\ run[client].pc # "none" /\ run[client].inst = inst
    BY DEF IInv, Typed, RunsAreNamed
  <2>2. inst = client
    BY <2>1 DEF SlotInv
  <2> QED
    BY <2>1, <2>2 DEF SlotInv, HasItsSlot
<1>2. IInv /\ SlotInv /\ [Next]_vars => SlotInv'
  BY SlotStep
<1> QED
  BY <1>1, <1>2, SlotInit, Invariance, PTL DEF Spec

=============================================================================
