---------------------------- MODULE MCRaftStore ----------------------------
(***************************************************************************)
(* TLC instances of RaftStore: what may happen in a behaviour.             *)
(***************************************************************************)
EXTENDS RaftStore

CONSTANT s1  \* the one server that gets votes

Killed == [powerLoss |-> FALSE, kill |-> TRUE, writeErrors |-> TRUE, damage |-> FALSE]
Damaged == [powerLoss |-> TRUE, kill |-> FALSE, writeErrors |-> FALSE, damage |-> TRUE]

\* The process is killed, and the power is lost after it has been restarted.
Both == [powerLoss |-> TRUE, kill |-> TRUE, writeErrors |-> TRUE, damage |-> FALSE]

Worlds == {Killed, Both, Damaged}
KilledWorld == {Killed}
BothWorld == {Both}

=============================================================================
