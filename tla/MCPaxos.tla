------------------------------ MODULE MCPaxos ------------------------------
(***************************************************************************)
(* TLC instance of Paxos: the values are interchangeable.                  *)
(***************************************************************************)
EXTENDS Paxos, TLC

CONSTANT MaxMessages   \* bound: how many messages a behaviour sends

Bounds == Cardinality(net) <= MaxMessages

Symmetry == Permutations(Value)

=============================================================================
