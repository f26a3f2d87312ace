------------------------------ MODULE Identity ------------------------------
(***************************************************************************)
(* Which user the page is signed in as, and whose stores its tasks reach:  *)
(* the sign-in flows and the sign-out of page.tsx and lib/nostr.ts, the    *)
(* mount of MarmotProvider and its init() (client.tsx), the partition      *)
(* binding of storage.ts, and forgetSelfDevice (forget-device.ts).         *)
(*                                                                         *)
(* A store created without a pubkey finds its database at each call, from  *)
(* the module variable activePubkey: a task that outlives its session then *)
(* reads and writes what the next session has bound. React's render and    *)
(* the effects it schedules are one step (Commit).                         *)
(***************************************************************************)
EXTENDS Naturals, FiniteSets

CONSTANTS
  Pubkey,       \* the users of the browser
  Login,        \* bound: one sign-in attempt each
  Group,
  None,         \* nothing there
  Old,          \* a clientId minted in an earlier session
  Hasty,        \* what a new sign-in does not wait for: "signin", an earlier one that is pending;
                \* "store", a clientId being read or stored; "network", a probe or a forget
  MaxReloads    \* bound: page reloads

ASSUME IdentityAssumption ==
  /\ IsFiniteSet(Pubkey) /\ IsFiniteSet(Login) /\ IsFiniteSet(Group)
  /\ None \notin Pubkey \union Login \union Group \union {Old, "extension", "nip46"}
  /\ Old \notin Login /\ "extension" \notin Login
  /\ Hasty \subseteq {"signin", "store", "network"} /\ MaxReloads \in Nat

VARIABLES
  login,        \* the sign-in attempts: handleNip07Connect, handleBunkerConnect, ...
  checked,      \* signerChecked: the sign-in screen is shown
  page,         \* signer, pubkey and authMethod of Page
  saved         \* localStorage: the NIP-46 payload, and whether the saved method is NIP-07

VARIABLES
  active,       \* activePubkey of storage.ts
  inst,         \* the mounted MarmotProvider, named by the sign-in that mounted it
  run,          \* the init() that each signer started
  client,       \* the init() whose client is in the provider's state
  forget        \* forgetSelfDevice

VARIABLES       \* durable, one partition for each pubkey
  slot,         \* clientId in the identity store: the init() that minted it
  keys,         \* groups whose MLS state the group-state store holds
  member,       \* groups in whose tree this device has a leaf
  departed,     \* groups that a Remove of the own leaf was proposed to
  late,         \* groups joined while a forget was in flight
  crossed,      \* history: users whose stores a task of another user has reached, or whose
                \* session the forget of another session has ended
  hurried,      \* history: a sign-in was started while another was pending
  reloads

session == <<login, checked, page, saved, hurried>>
mount   == <<active, inst, run, client>>
parts   == <<slot, keys, member, departed, late, crossed>>
vars    == <<session, mount, forget, parts, reloads>>

SignedOut  == [signer |-> None, pubkey |-> None, method |-> None]
IdleForget == [pc |-> "idle", by |-> None, inst |-> None, todo |-> {}, group |-> None,
               method |-> None, dialog |-> FALSE]
NoRun      == [pc |-> "none", inst |-> None, pk |-> None, slot |-> None]

Pending(l) == login[l].st \in {"asking", "connecting", "ready"}

Waited ==
  /\ "signin"  \in Hasty \/ \A l \in Login : ~Pending(l)
  /\ "store"   \in Hasty \/ \A l \in Login : run[l].pc \notin {"slot", "minting"}
  /\ "network" \in Hasty \/ (forget.pc = "idle" /\ \A l \in Login : run[l].pc # "probing")

\* A task of user pk reaches the stores of user other: a call of a store that is
\* not pinned goes where the stores are bound.
Reaches(pk, other) == crossed' = crossed \union ({other} \ {pk, None})

----------------------------------------------------------------------------
(* The provider follows the page: sign-in l makes it p. *)

Started(l, i, pk) == [run EXCEPT ![l] = [NoRun EXCEPT !.pc = "connecting", !.inst = i, !.pk = pk]]

\* A first pubkey mounts the provider, which binds at render and starts init().
Mounts(l, p) ==
  /\ page.pubkey = None /\ p.pubkey # None
  /\ active' = p.pubkey /\ inst' = l /\ run' = Started(l, l, p.pubkey) /\ UNCHANGED client

\* Another signer while mounted: the cleanup of the old effect unbinds after
\* the render has bound; mountedRef is true again for the new init(), and for
\* the old one. The state keeps the old client.
Switches(l, p) ==
  /\ page.pubkey # None /\ p.pubkey # None /\ p.signer # page.signer
  /\ active' = None /\ run' = Started(l, inst, p.pubkey) /\ UNCHANGED <<inst, client>>

\* Another pubkey with the same signer starts no init().
Renames(p) ==
  /\ page.pubkey # None /\ p.pubkey # None /\ p.signer = page.signer
  /\ active' = p.pubkey /\ UNCHANGED <<inst, run, client>>

Unmounts(p) ==
  /\ page.pubkey # None /\ p.pubkey = None
  /\ active' = None /\ inst' = None /\ client' = None /\ UNCHANGED run

Commit(l, p) ==
  /\ page' = p
  /\ \/ Mounts(l, p) \/ Switches(l, p) \/ Renames(p) \/ Unmounts(p)
     \/ page.pubkey = None /\ p.pubkey = None /\ UNCHANGED mount

----------------------------------------------------------------------------
(* Signing in and out. *)

Attempt(l, st, kind, pk) == login' = [login EXCEPT ![l] = [st |-> st, kind |-> kind, pk |-> pk]]
Becomes(l, st) == login' = [login EXCEPT ![l].st = st]

\* The sign-in screen is there; its buttons are not tied to one another.
CanStart(l) ==
  /\ checked /\ page.pubkey = None /\ login[l].st = "new"
  /\ Waited /\ hurried' = (hurried \/ \E k \in Login : Pending(k))

\* handleNip07Connect: the signer, one object for every such sign-in, is set
\* before the extension is asked.
StartNip07(l) ==
  /\ CanStart(l)
  /\ \E pk \in Pubkey : Attempt(l, "asking", "nip07", pk)
  /\ Commit(l, [page EXCEPT !.signer = "extension"])
  /\ UNCHANGED <<checked, saved, forget, parts, reloads>>

\* The extension answers. At boot the signer is set only now.
Nip07Answers(l) ==
  /\ login[l].st = "asking"
  /\ Becomes(l, "done") /\ checked' = TRUE
  /\ Commit(l, [page EXCEPT !.pubkey = login[l].pk, !.method = "nip07",
                            !.signer = IF login[l].kind = "boot" THEN "extension" ELSE @])
  /\ saved' = IF login[l].kind = "boot" THEN saved ELSE [saved EXCEPT !.nip07 = TRUE]
  /\ UNCHANGED <<forget, parts, hurried, reloads>>

\* The user refuses. The boot then goes on to show the sign-in screen.
Nip07Refuses(l) ==
  /\ login[l].st = "asking"
  /\ Becomes(l, "done") /\ checked' = TRUE
  /\ IF login[l].kind = "boot"
     THEN saved' = [saved EXCEPT !.nip07 = FALSE] /\ Commit(l, [page EXCEPT !.signer = "extension"])
     ELSE UNCHANGED <<saved, page, mount>>
  /\ UNCHANGED <<forget, parts, hurried, reloads>>

\* handleBunkerConnect and handleNostrConnect.
StartNip46(l) ==
  /\ CanStart(l)
  /\ \E pk \in Pubkey : Attempt(l, "connecting", "nip46", pk)
  /\ UNCHANGED <<checked, page, saved, mount, forget, parts, reloads>>

\* The remote signer is there: the session is saved before the page is told.
SaveSession(l) ==
  /\ login[l].st = "connecting"
  /\ Becomes(l, "ready")
  /\ saved' = [nip46 |-> login[l].pk, nip07 |-> FALSE]
  /\ UNCHANGED <<checked, page, mount, forget, parts, hurried, reloads>>

Nip46Answers(l) ==
  /\ login[l].st = "ready"
  /\ Becomes(l, "done") /\ checked' = TRUE
  /\ Commit(l, [signer |-> l, pubkey |-> login[l].pk, method |-> "nip46"])
  /\ UNCHANGED <<saved, forget, parts, hurried, reloads>>

\* Cancelled, refused or out of reach.
Nip46Fails(l) ==
  /\ login[l].st = "connecting" /\ login[l].kind = "nip46"
  /\ Becomes(l, "done")
  /\ UNCHANGED <<checked, saved, page, mount, forget, parts, hurried, reloads>>

\* A session that is not restored is cleared, and the boot goes on with NIP-07:
\* it asks an extension that is the saved method, else it only sets the signer.
RestoreFails(l) ==
  /\ login[l].st = "connecting" /\ login[l].kind = "boot"
  /\ saved' = [saved EXCEPT !.nip46 = None]
  /\ IF saved.nip07
     THEN /\ \E pk \in Pubkey : Attempt(l, "asking", "boot", pk)
          /\ UNCHANGED <<checked, page, mount>>
     ELSE /\ Becomes(l, "done") /\ checked' = TRUE
          /\ \E s \in {"extension", page.signer} : Commit(l, [page EXCEPT !.signer = s])
  /\ UNCHANGED <<forget, parts, hurried, reloads>>

\* "Skip and sign in manually": what the boot waits for goes on.
Skip ==
  /\ ~checked /\ checked' = TRUE
  /\ saved' = [nip46 |-> None, nip07 |-> FALSE]
  /\ UNCHANGED <<login, page, mount, forget, parts, hurried, reloads>>

\* Mutant: the NIP-46 session outlives a sign-out.
DisconnectKeepingSession(method, cleared) ==
  /\ saved' = [saved EXCEPT !.nip07 = @ /\ method # "nip07"]
  /\ Commit(None, SignedOut)

\* performDisconnect, with the authMethod of the render it belongs to.
Disconnect(method, cleared) ==
  /\ saved' = [nip46 |-> IF cleared \/ method = "nip46" THEN None ELSE saved.nip46,
               nip07 |-> saved.nip07 /\ method # "nip07"]
  /\ Commit(None, SignedOut)

\* Plain sign-out, also while a forget is in flight.
SignOut ==
  /\ page.pubkey # None
  /\ Disconnect(page.method, FALSE)
  /\ UNCHANGED <<login, checked, forget, parts, hurried, reloads>>

----------------------------------------------------------------------------
(* init() of the provider, from one await to the next. *)

Mounted(l) == run[l].inst = inst
RunTo(l, pc) == run' = [run EXCEPT ![l].pc = pc]

\* init() returns at a check of mountedRef, or ends.
Over(l) == RunTo(l, "over") /\ UNCHANGED client

\* init() throws: the catch puts the error into the state if still mounted.
Throws(l) == RunTo(l, "over") /\ client' = IF Mounted(l) THEN None ELSE client

\* Mutant: mountedRef is not checked after ndk.connect.
ConnectedUnchecked(l) ==
  /\ run[l].pc = "connecting"
  /\ active' = run[l].pk /\ RunTo(l, "migrating")
  /\ UNCHANGED <<session, inst, client, forget, parts, reloads>>

\* ndk.connect: bindStores again, then migrateLegacyPartition.
Connected(l) ==
  /\ run[l].pc = "connecting"
  /\ IF Mounted(l) THEN active' = run[l].pk /\ RunTo(l, "migrating") /\ UNCHANGED client
                   ELSE Over(l) /\ UNCHANGED active
  /\ UNCHANGED <<session, inst, forget, parts, reloads>>

\* The migration is over: getOrCreateClientId reads the identity store.
Migrated(l) ==
  /\ run[l].pc = "migrating"
  /\ CASE ~Mounted(l) -> Over(l)
       [] Mounted(l) /\ active = None -> Throws(l)
       [] OTHER -> /\ run' = [run EXCEPT ![l].pc = "slot", ![l].slot = slot[active]]
                   /\ UNCHANGED client
  /\ IF Mounted(l) THEN Reaches(run[l].pk, active) ELSE UNCHANGED crossed
  /\ UNCHANGED <<session, active, inst, forget, slot, keys, member, departed, late, reloads>>

\* The client is made; groups.loadAll.
Loads(l, s) ==
  /\ run' = [run EXCEPT ![l].pc = IF Mounted(l) THEN "loading" ELSE "over", ![l].slot = s]
  /\ UNCHANGED client

\* Mutant: a new clientId is used and not stored.
SlotReadUnstored(l) ==
  /\ run[l].pc = "slot"
  /\ Loads(l, IF run[l].slot # None THEN run[l].slot ELSE l)
  /\ UNCHANGED <<session, active, inst, forget, parts, reloads>>

\* getOrCreateClientId: the clientId read, or a new one, stored where the
\* stores are bound by now.
SlotRead(l) ==
  /\ run[l].pc = "slot"
  /\ IF run[l].slot # None THEN Loads(l, run[l].slot) /\ UNCHANGED <<slot, crossed>>
     ELSE IF active = None THEN Throws(l) /\ UNCHANGED <<slot, crossed>>
     ELSE /\ slot' = [slot EXCEPT ![active] = l] /\ Reaches(run[l].pk, active)
          /\ RunTo(l, "minting") /\ UNCHANGED client
  /\ UNCHANGED <<session, active, inst, forget, keys, member, departed, late, reloads>>

SlotMinted(l) ==
  /\ run[l].pc = "minting"
  /\ Loads(l, l)
  /\ UNCHANGED <<session, active, inst, forget, parts, reloads>>

\* groups.loadAll: the client is there, and the probe reads lastProbeAt; within
\* a day of the last it ends, else it asks the relays.
GroupsLoaded(l) ==
  /\ run[l].pc = "loading"
  /\ IF Mounted(l)
     THEN /\ client' = l
          /\ \E fresh \in BOOLEAN : RunTo(l, IF fresh \/ active = None THEN "over" ELSE "probing")
          /\ Reaches(run[l].pk, active)
     ELSE Over(l) /\ UNCHANGED crossed
  /\ UNCHANGED <<session, active, inst, forget, slot, keys, member, departed, late, reloads>>

\* The relays have answered the probe, or not: it reads the failed Welcomes and
\* stores lastProbeAt. There is no check of mountedRef.
Probed(l) ==
  /\ run[l].pc = "probing"
  /\ Over(l) /\ Reaches(run[l].pk, active)
  /\ UNCHANGED <<session, active, inst, forget, slot, keys, member, departed, late, reloads>>

\* A rejected await of init().
InitFails(l) ==
  /\ run[l].pc \in {"connecting", "migrating", "slot", "minting", "loading"}
  /\ Throws(l)
  /\ UNCHANGED <<session, active, inst, forget, parts, reloads>>

\* A Welcome joins a group (DeviceSync).
Join(g) ==
  /\ client # None
  /\ LET p == run[client].pk IN
     /\ g \notin member[p]
     /\ member' = [member EXCEPT ![p] = @ \union {g}]
     /\ keys' = [keys EXCEPT ![p] = @ \union {g}]
     /\ late' = IF forget.by = p THEN [late EXCEPT ![p] = @ \union {g}] ELSE late
  /\ UNCHANGED <<session, mount, forget, slot, departed, crossed, reloads>>

----------------------------------------------------------------------------
(* forgetSelfDevice. *)

\* From the sign-out dialog, which signs out whatever happens, or the devices tab.
StartForget ==
  /\ client # None /\ forget = IdleForget
  /\ LET p == run[client].pk IN
     \E dialog \in BOOLEAN :
       forget' = [pc |-> "leaving", by |-> p, inst |-> inst, todo |-> keys[p] \intersect member[p],
                  group |-> None, method |-> page.method, dialog |-> dialog]
  /\ UNCHANGED <<session, mount, parts, reloads>>

ForgetTo(pc) == forget' = [forget EXCEPT !.pc = pc]

\* Mutant: a group whose proposal fails is passed over.
ProposeOrPass(g) ==
  /\ forget.pc = "leaving" /\ g \in forget.todo
  /\ \E out \in SUBSET {g} : departed' = [departed EXCEPT ![forget.by] = @ \union out]
  /\ forget' = [forget EXCEPT !.pc = "destroying", !.todo = @ \ {g}, !.group = g]
  /\ UNCHANGED <<session, mount, slot, keys, member, late, crossed, reloads>>

\* group.propose: the Remove of the own leaf is on the relays.
Propose(g) ==
  /\ forget.pc = "leaving" /\ g \in forget.todo
  /\ departed' = [departed EXCEPT ![forget.by] = @ \union {g}]
  /\ forget' = [forget EXCEPT !.pc = "destroying", !.todo = @ \ {g}, !.group = g]
  /\ UNCHANGED <<session, mount, slot, keys, member, late, crossed, reloads>>

\* group.destroy
Destroy ==
  /\ forget.pc = "destroying"
  /\ keys' = [keys EXCEPT ![forget.by] = @ \ {forget.group}]
  /\ forget' = [forget EXCEPT !.pc = "leaving", !.group = None]
  /\ UNCHANGED <<session, mount, slot, member, departed, late, crossed, reloads>>

\* No group is left: deletions of the KeyPackages are signed and published.
DeleteKeyPackages ==
  /\ forget.pc = "leaving" /\ forget.todo = {}
  /\ ForgetTo("kind5")
  /\ UNCHANGED <<session, mount, parts, reloads>>

\* The next store is cleared, where the stores are bound by now: invitedKeys,
\* joinedGroups and bootstrapCompleted, then the identity store.
Clear ==
  /\ active # None /\ Reaches(forget.by, active)
  /\ \/ forget.pc \in {"kind5", "clearing"} /\ ForgetTo("clearing") /\ UNCHANGED slot
     \/ forget.pc = "clearing" /\ ForgetTo("identity") /\ slot' = [slot EXCEPT ![active] = None]
  /\ UNCHANGED <<session, mount, keys, member, departed, late, reloads>>

\* The databases of the bound partition are deleted; session and page are left.
Finish ==
  /\ forget.pc = "identity"
  /\ keys' = IF active = None THEN keys ELSE [keys EXCEPT ![active] = {}]
  /\ Reaches(forget.by, active)
  /\ Disconnect(forget.method, TRUE)
  /\ forget' = IdleForget
  /\ UNCHANGED <<login, checked, hurried, slot, member, departed, late, reloads>>

\* Mutant: the finally is missing, forgetInFlight stays set.
ForgetFailsInFlight ==
  /\ forget.pc \notin {"idle", "identity", "failed"}
  /\ forget' = [forget EXCEPT !.pc = "failed"]
  /\ UNCHANGED <<session, mount, parts, reloads>>

\* An await rejects; so does a store call while no pubkey is bound.
ForgetFails ==
  /\ forget.pc \notin {"idle", "identity"}
  /\ IF forget.dialog
     THEN /\ Disconnect(forget.method, FALSE)
          /\ IF forget.inst = inst THEN UNCHANGED crossed ELSE Reaches(None, page.pubkey)
     ELSE UNCHANGED <<saved, page, mount, crossed>>
  /\ forget' = IdleForget
  /\ UNCHANGED <<login, checked, hurried, slot, keys, member, departed, late, reloads>>

----------------------------------------------------------------------------
(* The specification. *)

NewLogin == [st |-> "new", kind |-> None, pk |-> None]

\* The boot's sign-in attempt restores what is saved, if anything is.
BootLogin(pk) ==
  IF saved.nip46 # None THEN [st |-> "connecting", kind |-> "boot", pk |-> saved.nip46]
  ELSE IF saved.nip07 THEN [st |-> "asking", kind |-> "boot", pk |-> pk]
  ELSE NewLogin

Reload ==
  /\ reloads < MaxReloads /\ reloads' = reloads + 1
  /\ \E l \in Login, pk \in Pubkey :
       /\ login[l].st = "new"
       /\ login' = [k \in Login |-> IF k = l THEN BootLogin(pk)
                                   ELSE IF Pending(k) THEN [login[k] EXCEPT !.st = "done"]
                                   ELSE login[k]]
       /\ checked' = (BootLogin(pk) = NewLogin)
  /\ page' = SignedOut /\ active' = None /\ inst' = None /\ client' = None
  /\ run' = [l \in Login |-> NoRun] /\ forget' = IdleForget
  /\ UNCHANGED <<saved, hurried, parts>>

\* A boot, with what earlier sessions have left.
Init ==
  /\ saved \in [nip46 : {None}, nip07 : BOOLEAN] \union [nip46 : Pubkey, nip07 : {FALSE}]
  /\ \E l \in Login, pk \in Pubkey :
       /\ login = [k \in Login |-> IF k = l THEN BootLogin(pk) ELSE NewLogin]
       /\ checked = (BootLogin(pk) = NewLogin)
  /\ page = SignedOut
  /\ active = None /\ inst = None /\ client = None /\ run = [l \in Login |-> NoRun]
  /\ forget = IdleForget
  /\ slot \in [Pubkey -> {None, Old}]
  /\ member = [p \in Pubkey |-> IF slot[p] = Old THEN Group ELSE {}] /\ keys = member
  /\ departed = [p \in Pubkey |-> {}] /\ late = departed /\ crossed = {} /\ hurried = FALSE
  /\ reloads = 0

Next ==
  \/ \E l \in Login :
       \/ StartNip07(l) \/ Nip07Answers(l) \/ Nip07Refuses(l)
       \/ StartNip46(l) \/ SaveSession(l) \/ Nip46Answers(l) \/ Nip46Fails(l) \/ RestoreFails(l)
       \/ Connected(l) \/ Migrated(l) \/ SlotRead(l) \/ SlotMinted(l) \/ GroupsLoaded(l)
       \/ Probed(l) \/ InitFails(l)
  \/ Skip \/ SignOut \/ Reload
  \/ \E g \in Group : Join(g) \/ Propose(g)
  \/ StartForget \/ Destroy \/ DeleteKeyPackages \/ Clear \/ Finish \/ ForgetFails

Spec == Init /\ [][Next]_vars

----------------------------------------------------------------------------
(* Properties. *)

\* Types.
TypeOK ==
  /\ login \in [Login -> [st : {"new", "asking", "connecting", "ready", "done"},
                          kind : {"nip07", "nip46", "boot", None}, pk : Pubkey \union {None}]]
  /\ checked \in BOOLEAN
  /\ page \in [signer : Login \union {"extension", None}, pubkey : Pubkey \union {None},
               method : {"nip07", "nip46", None}]
  /\ saved \in [nip46 : Pubkey \union {None}, nip07 : BOOLEAN]
  /\ active \in Pubkey \union {None} /\ inst \in Login \union {None}
  /\ run \in [Login -> [pc : {"none", "connecting", "migrating", "slot", "minting", "loading",
                              "probing", "over"},
                        inst : Login \union {None}, pk : Pubkey \union {None},
                        slot : Login \union {Old, None}]]
  /\ client \in Login \union {None}
  /\ forget \in [pc : {"idle", "leaving", "destroying", "kind5", "clearing", "identity"},
                 by : Pubkey \union {None}, inst : Login \union {None}, todo : SUBSET Group,
                 group : Group \union {None}, method : {"nip07", "nip46", None}, dialog : BOOLEAN]
  /\ slot \in [Pubkey -> Login \union {Old, None}]
  /\ keys \in [Pubkey -> SUBSET Group] /\ member \in [Pubkey -> SUBSET Group]
  /\ departed \in [Pubkey -> SUBSET Group] /\ late \in [Pubkey -> SUBSET Group]
  /\ crossed \subseteq Pubkey /\ hurried \in BOOLEAN
  /\ reloads \in 0 .. MaxReloads

\* The stores are bound to the user that the page shows, or to nobody: an
\* init() that outlives its session binds nothing (client.tsx 188-195), and
\* after a sign-out store calls throw (storage.ts 70).
BoundToPage == ~hurried => active \in {page.pubkey, None}

\* What the page shows a client of is the user it is signed in as, and the
\* stores that are not pinned are that user's.
ClientIsOfPage ==
  client # None /\ ~hurried => run[client].pk = page.pubkey /\ active = page.pubkey

\* A store call made for one user never reaches the partition of another
\* (storage.ts 26-31).
IsolatedByConstruction == crossed = {}

\* The client publishes KeyPackages under the slot that the identity store
\* holds, so that the next session finds the same device, until a forget has
\* cleared it or a task of another user was let in.
ClientKeepsItsSlot ==
  client # None /\ forget.pc # "identity" /\ ~hurried /\ run[client].pk \notin crossed
    => slot[run[client].pk] = run[client].slot

\* A reload restores no other user than the one that the page shows; one that the
\* forget of another session has signed out may come back.
ReloadRestoresNoOther ==
  page.pubkey # None /\ ~hurried => saved.nip46 \in {page.pubkey, None} \union crossed

\* The MLS state of a group is only destroyed once the departure is announced,
\* so that nobody else goes on encrypting to a device that is gone. Exempt are
\* groups joined while a forget runs, and partitions another user's task reached.
NoGhostLeaf ==
  \A p \in Pubkey \ crossed : member[p] \subseteq keys[p] \union departed[p] \union late[p]

=============================================================================
