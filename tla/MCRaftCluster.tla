--------------------------- MODULE MCRaftCluster ---------------------------
(***************************************************************************)
(* TLC instances of RaftCluster.  An election of three                     *)
(* nodes alone takes a dozen messages, so most runs begin further on, in a *)
(* state computed by the model of the code itself: a call, and then rounds *)
(* in which every message among a set of nodes is delivered and the others *)
(* are lost.  Such a state is reachable by construction.                   *)
(***************************************************************************)
EXTENDS RaftCluster, TLC

CONSTANTS s1, s2, s3, cmd

Bounds == Cardinality(net) <= scene.maxMessages

\* What an order o of a script makes of node n.
Called(n, o) ==
  CASE o.do = "tick" -> Tick(n)
    [] o.do = "deliver" -> Step(n, o.msg)
    [] o.do = "propose" -> Propose(n, Nil)
    [] o.do = "transfer" -> TransferLeadership(n, o.to)
    [] o.do = "joint" -> ProposeJoint(n, o.voters)
    [] o.do = "restart" -> NewRecoveredNode(n.id, n.disk)

\* A cluster c = [node, net] after a call leaves n at node i.
CallLeaves(c, i, n) ==
  [node |-> [c.node EXCEPT ![i] = [n EXCEPT !.out = {}, !.io = 0]], net |-> c.net \cup n.out]

Obeyed(c, o) == CallLeaves(c, o.at, Called([c.node[o.at] EXCEPT !.io = Unlimited], o))

\* Deliver what is in flight to the nodes of S and lose the rest, k times.
Round(c, S) ==
  LET after[M \in SUBSET {m \in c.net : m.to \in S}] ==
        IF M = {} THEN [c EXCEPT !.net = {}]
        ELSE LET m == CHOOSE x \in M : TRUE
             IN Obeyed(after[M \ {m}], [do |-> "deliver", at |-> m.to, msg |-> m])
  IN after[{m \in c.net : m.to \in S}]

Rounds(c, S, k) ==
  LET after[x \in 0 .. k] == IF x = 0 THEN c ELSE Round(after[x - 1], S) IN after[k]

Played(c, o) == IF o.do = "rounds" THEN Rounds(c, o.among, o.count) ELSE Obeyed(c, o)

Fire(i) == [do |-> "tick", at |-> i]
Exchange(S, k) == [do |-> "rounds", among |-> S, count |-> k]
Restarted(i) == [do |-> "restart", at |-> i]
Lose == Exchange({}, 1)

\* s1 leads term 1 and its no-op is on the way to the others.
Campaigned == <<Fire(s1), Exchange(Server, 4)>>

\* The no-op is committed everywhere and nothing is in flight.
Settled == <<Fire(s1), Exchange(Server, 9), Lose>>

\* A command follows it, which only s1 and s2 store and commit.
Lagging == Settled \o <<[do |-> "propose", at |-> s1], Exchange({s1, s2}, 4), Lose>>

\* s2 campaigns because s1 has asked it to take over, and s1, before it hears of
\* that, has proposed itself as the only voter.
Changing == Settled \o <<[do |-> "transfer", at |-> s1, to |-> s2], Exchange({s2}, 1),
                         [do |-> "joint", at |-> s1, voters |-> {s1}]>>

\* s1 alone stores a command of term 1, and s3 alone the no-op of term 2, in the same
\* place.  In term 3 s1 leads again, s2 has stored the command, and its answer is on the
\* way to s1.
Overtaken ==
  Settled \o
  <<[do |-> "propose", at |-> s1], Lose, Restarted(s2), Restarted(s3),
    Fire(s3), Exchange({s2}, 1), Exchange({s3}, 1), Exchange({s1, s2}, 1), Exchange({s3}, 1), Lose,
    Fire(s1), Exchange({s2}, 1), Exchange({s1}, 1), Exchange({s2, s3}, 1), Exchange({s1}, 1),
    Exchange({s1, s2}, 5), Restarted(s2)>>

-----------------------------------------------------------------------------
(***************************************************************************)
(* The scenarios.  maxMessages bounds how many messages a behaviour puts   *)
(* on the network, and start is the script of what went before.            *)
(***************************************************************************)

\* Nothing happens but messages and heartbeats.
Calm(start) ==
  [start |-> start, electors |-> {}, crashers |-> {}, compactors |-> {}, values |-> {},
   configs |-> {}, contexts |-> {}, writes |-> {Unlimited},
   maxTerm |-> Min({2, MaxTerm}), maxIndex |-> 2, maxMessages |-> 12]

\* A first leader replicates while the others campaign.
Replication ==
  [electors |-> {s2, s3}, values |-> {cmd}, maxMessages |-> 12] @@ Calm(Campaigned)

\* A node that lacks a committed entry campaigns.
Behind == [electors |-> {s2, s3}, maxMessages |-> 8] @@ Calm(Lagging)

\* A leader whose entry of an earlier term a majority holds, and a node that may still
\* be elected with another entry in its place.
OldTerm == [electors |-> {s3}, maxTerm |-> 4, maxMessages |-> 10] @@ Calm(Overtaken)

\* Nodes crash between two calls, and writes fail within one.
Crashes ==
  [electors |-> {s2}, crashers |-> {s2, s3}, values |-> {cmd}, writes |-> {0, 1, Unlimited},
   maxMessages |-> 5] @@ Calm(Settled)

\* The voters change to a single one and back.
Membership == [configs |-> {{s1}}, maxIndex |-> 3, maxMessages |-> 8] @@ Calm(Settled)

\* A change to a single voter races with an election.
Contested ==
  [electors |-> {s2}, configs |-> {{s1}}, maxIndex |-> 3, maxMessages |-> 11] @@ Calm(Changing)

\* A read races with an election.
Reads ==
  [electors |-> {s2}, contexts |-> {1}, maxIndex |-> 1, maxMessages |-> 11] @@ Calm(Settled)

\* Compaction, and a snapshot for the node that lags.
Snapshots ==
  [compactors |-> {s1, s2}, values |-> {cmd}, maxIndex |-> 3, maxMessages |-> 8] @@ Calm(Lagging)

\* A first election, crashes and failing writes included.
Elections ==
  [electors |-> {s1, s2}, crashers |-> {s3}, values |-> {cmd}, writes |-> {0, Unlimited},
   maxTerm |-> 1, maxIndex |-> 1, maxMessages |-> 12] @@ Calm(<<>>)

\* A node that installs a snapshot fails or crashes on the way.
SnapshotCrash ==
  [crashers |-> {s3}, compactors |-> {s1}, writes |-> {1, Unlimited}] @@ Calm(Lagging)

\* The voters change after a snapshot was sent.
StaleSnapshot ==
  [compactors |-> {s1}, configs |-> {{s1, s2}}, maxIndex |-> 3] @@ Calm(Lagging)

\* A cluster of one server changes its voters.
Alone == [configs |-> {{s1}}, maxIndex |-> 3] @@ Calm(Settled)

SafetyScenarios ==
  {Elections, Replication, Behind, OldTerm, Crashes, Membership, Contested, Reads, Snapshots}
SnapshotCrashScenarios == {SnapshotCrash}
StaleSnapshotScenarios == {StaleSnapshot}
AloneScenarios == {Alone}

Initial == [node |-> [i \in Server |-> NewNodeWithStore(i, EmptyDisk)], net |-> {}]

\* The state after a script.  TLC computes each state before it goes on to the next.
StartState(script) ==
  LET after[x \in 0 .. Len(script)] ==
        IF x = 0 THEN Initial
        ELSE CHOOSE d \in {Played(c, script[x]) : c \in {after[x - 1]}} : TRUE
  IN after[Len(script)]

Begin ==
  /\ scene \in Scenario
  /\ \E c \in {StartState(scene.start)} : node = c.node /\ net = c.net
  /\ floor = [i \in Server |-> 0]

ScenarioSpec == Begin /\ [][Next]_vars

=============================================================================
