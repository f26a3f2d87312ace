----------------------------- MODULE MCTaskBoard -----------------------------
(* Small instances of TaskBoard for TLC. *)
EXTENDS TaskBoard

\* Two devices of one user: only the third level of the tie-break separates them.
MCAuthor == [d \in Device |-> 1]
MCClient == [d \in Device |-> IF d = Founder THEN 2 ELSE 1]

=============================================================================
