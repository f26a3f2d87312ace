----------------------------- MODULE EventLedger -----------------------------
(***************************************************************************)
(* What the receive engine of a group promises to the board that shows its *)
(* tasks, whatever becomes of relays, ratchets, parked envelopes and       *)
(* checkpoints (accepted-log-store.ts, engine-types.ts, engine-outputs.ts):*)
(* an event is entered in the log once and stays there, the board is shown *)
(* entered events only, nothing is entered or shown between two sessions,  *)
(* and a session begins by showing the whole log in its order.             *)
(***************************************************************************)
EXTENDS Naturals, Sequences

CONSTANT Event

VARIABLES
  log,     \* the accepted log, durable
  shown,   \* what the board of the session has been shown, in order
  open     \* whether a session is under way

ledger == <<log, shown, open>>

Entries(s) == {s[i] : i \in DOMAIN s}

Init == log = <<>> /\ shown = <<>> /\ open = FALSE

\* A session begins: the board is rebuilt from the log.
Open == ~open /\ open' = TRUE /\ shown' = log /\ UNCHANGED log

\* A session ends, or is cut off by a crash: what was shown is only a memory.
Close == open /\ open' = FALSE /\ UNCHANGED <<log, shown>>

\* A new event is entered, and may be shown at once.
Enter(e) ==
  /\ open /\ e \notin Entries(log)
  /\ log' = Append(log, e)
  /\ shown' \in {shown, Append(shown, e)}
  /\ UNCHANGED open

\* An event that was entered is shown.
Show(e) ==
  /\ open /\ e \in Entries(log)
  /\ shown' = Append(shown, e)
  /\ UNCHANGED <<log, open>>

Next == Open \/ Close \/ \E e \in Event : Enter(e) \/ Show(e)

Spec == Init /\ [][Next]_ledger

=============================================================================
