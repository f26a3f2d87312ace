---------------------------- MODULE MCDeviceSync ----------------------------
(* Small instances of DeviceSync for TLC. *)
EXTENDS DeviceSync, TLC

MCCreator == [g \in Group |-> "a"]

CONSTANTS WorkersA, WorkersB, TasksA, TasksB
MCWorkers == [d \in Device |-> IF d = "a" THEN WorkersA ELSE WorkersB]
MCTasks   == [d \in Device |-> IF d = "a" THEN TasksA ELSE TasksB]

\* The creator forgets the first device it invites.
MCForgets == {<<"a", "b">>}

\* The runs of processUnread of b are alike, and the handlers of a.
MCSymmetry == Permutations(WorkersB) \union Permutations(TasksA)

=============================================================================
