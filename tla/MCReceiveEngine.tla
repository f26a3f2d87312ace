--------------------------- MODULE MCReceiveEngine ---------------------------
(* Small instances of ReceiveEngine for TLC. *)
EXTENDS ReceiveEngine, TLC

\* Envelopes: m1, m2, b1 and r1 read in epoch 0; p1, p2 and b2 need epoch 1, which
\* the commit c1 begins; q1 needs epoch 2, which c2 begins; b1 and b2 do not decode.
MCNeedEpoch == [f \in Fact |-> CASE f \in {"m1", "m2", "r1", "b1", "c1"} -> 0
                                 [] f \in {"p1", "p2", "b2", "c2"} -> 1
                                 [] f = "q1" -> 2]

\* Each envelope and each local edit is an event of its own, but r1 carries the
\* rumor of p1 once more (its outbox published it again).
MCEventOf == [s \in Source |-> IF s = "r1" THEN "p1" ELSE s]

\* Every envelope and every edit comes once; or all but the second commit come twice.
MCOnce  == [s \in Source |-> 1]
MCTwice == [s \in Source |-> IF s = "c2" THEN 1 ELSE 2]

=============================================================================
