---------------------------- MODULE MCDstEngine ----------------------------
(***************************************************************************)
(* TLC instance of DstEngine: three nodes.                                 *)
(***************************************************************************)
EXTENDS DstEngine

Fault(type, a, b, start, end) == [type |-> type, a |-> a, b |-> b, start |-> start, end |-> end]

\* No faults, no losses, and enough messages in flight for a heap of three levels.
Heap == [lossy |-> FALSE, faults |-> <<>>, answers |-> 0,
         links |-> {<<1, 2>>, <<3, 1>>}, messages |-> 5, steps |-> 2]

\* Nodes send in turn, the one that has received a message and the others.
Cascade == [lossy |-> FALSE, faults |-> <<>>, answers |-> 2,
            links |-> {<<1, 2>>, <<2, 1>>, <<3, 1>>}, messages |-> 4, steps |-> 2]

\* Losses, one fault for the whole run and two that come and go.
Faulty == [lossy |-> TRUE, answers |-> 0, links |-> {<<1, 2>>, <<2, 3>>, <<3, 1>>}, messages |-> 3,
           steps |-> 3,
           faults |-> <<Fault("link", {1}, {2}, 0, 0),
                        Fault("split", {1, 2}, {3}, 1, 2), Fault("isolate", {1}, {}, 2, 3)>>]

Setups == {Heap, Cascade, Faulty}

=============================================================================
