---------------------------- MODULE MCRaftTimely ----------------------------
(***************************************************************************)
(* TLC instances of RaftTimely, from the start states of MCRaftCluster.    *)
(***************************************************************************)
EXTENDS MCRaftCluster, RaftTimely

\* A leader proposes while appends are lost.
Losses == [values |-> {cmd}, maxMessages |-> 13] @@ Calm(Campaigned)

\* The deposed leader holds a longer log than its successor.
Conflict == [electors |-> {s2}] @@ Losses

\* The leader compacts what the lagging node needs.
Resent ==
  [compactors |-> {s1}, values |-> {cmd}, maxIndex |-> 3] @@ Calm(Lagging)

TimelyScenarios == {Losses}
ConflictScenarios == {Conflict}
ResentScenarios == {Resent}

\* The heartbeat timer of a leader always fires again (server.loop, Engine.Step), and
\* a timely network delivers what was sent.
TimelySpec ==
  /\ Begin /\ stable = Nil /\ due = {}
  /\ [][TimelyNext]_timelyVars
  /\ WF_due(Progress)

=============================================================================
