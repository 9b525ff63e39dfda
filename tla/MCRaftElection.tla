--------------------------- MODULE MCRaftElection ---------------------------
(***************************************************************************)
(* TLC instance of RaftElection: the servers are interchangeable.          *)
(***************************************************************************)
EXTENDS RaftElection, TLC

CONSTANTS MaxMessages,  \* bound: how many messages a behaviour puts on the network
          MaxFaulted    \* bound: how many nodes are fail-stopped at a time

Bounds ==
  /\ Cardinality(net) <= MaxMessages
  /\ Cardinality({i \in Server : faulted[i]}) <= MaxFaulted

Symmetry == Permutations(Server)

=============================================================================
