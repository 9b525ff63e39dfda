----------------------------- MODULE RaftTimely -----------------------------
(***************************************************************************)
(* A RaftCluster whose network becomes timely.  Up to some moment messages *)
(* are lost, repeated and reordered and anything may happen; from then on  *)
(* no election timer fires and time passes in rounds.  A round begins with *)
(* a heartbeat of the leader, and in it every message sent in the round    *)
(* before arrives, once, in any order.  This is dst.Engine.Step without    *)
(* loss, and with a delay of one step.                                     *)
(***************************************************************************)
EXTENDS RaftCluster

VARIABLES stable,  \* Nil, then the leader under which the network is timely
          due      \* the messages still to arrive in this round

timelyVars == <<vars, stable, due>>

\* l leads, and no node is faulted or of a later term.
Unopposed(l) ==
  /\ node[l].role = "Leader"
  /\ \A i \in Server : ~node[i].faulted /\ node[i].term <= node[l].term

\* The network becomes timely; what was in flight is lost.
Stabilise(l) ==
  /\ stable = Nil
  /\ Unopposed(l)
  /\ stable' = l
  /\ net' = {}
  /\ UNCHANGED <<node, floor, scene, due>>

\* A round begins: the leader's heartbeat joins what was sent in the last one.
RoundBegins == due = {} /\ due' = net \cup Tick(With(stable, Unlimited)).out

\* A message of the round arrives.
Arrives(m) == due' = due \ {m}

Heartbeat ==
  /\ RoundBegins
  /\ node' = [node EXCEPT ![stable] = [Tick(With(stable, Unlimited)) EXCEPT !.out = {}, !.io = 0]]
  /\ net' = {}

Receive(m) == Arrives(m) /\ Run(m.to, Step(With(m.to, Unlimited), m))

TimelyStep ==
  /\ stable # Nil
  /\ Heartbeat \/ \E m \in due : Receive(m)
  /\ UNCHANGED <<floor, scene, stable>>

\* What TimelyStep does to the messages due.  Every step of it changes them.
Progress == stable # Nil /\ (RoundBegins \/ \E m \in due : Arrives(m))

TimelyNext ==
  \/ stable = Nil /\ Next /\ UNCHANGED <<stable, due>>
  \/ \E l \in Server : Stabilise(l)
  \/ TimelyStep

\* Whatever was lost, repeated or reordered before, a leader that nobody opposes
\* and whose network has become timely brings every log up to its own and
\* commits it (appendToContext, onAppendResponse, onInstallSnapshotResponse).
CaughtUp(l) ==
  \A i \in Server : /\ LastIndex(node[i]) = LastIndex(node[l])
                    /\ node[i].commit = LastIndex(node[l])

CatchesUp == \A l \in Server : stable = l ~> CaughtUp(l)

=============================================================================
