---------------------------- MODULE MCTaskLease ----------------------------
(* Small instances of TaskLease for TLC. *)
EXTENDS TaskLease

\* Every task may be attempted twice, and is overdue before the horizon
MCMaxAttempts == [t \in Task |-> 2]
MCDeadline    == [t \in Task |-> MaxTime - 1]
=============================================================================
