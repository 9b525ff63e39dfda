---------------------------- MODULE RaftCluster ----------------------------
(***************************************************************************)
(* A cluster of RaftNodes.  net is the set of every message ever sent: it  *)
(* only grows, so a message may be lost (never delivered), delayed,        *)
(* reordered or delivered again.  Every call into a node is one step, after*)
(* which its outbound queue is drained (server.loop, dst.Engine.Collect).  *)
(* A node may crash and restart between any two calls, and any storage     *)
(* write inside a call may fail.                                           *)
(***************************************************************************)
EXTENDS RaftNode

CONSTANTS Scenario,  \* bounds: what a behaviour may do, see IsScenario
          MaxTerm    \* bound: no scenario goes beyond this term

Unlimited == 9  \* more writes than any one call makes

\* A behaviour belongs to one scenario.  Everything that is not a reaction to a
\* message is bounded by it.
IsScenario(s) ==
  /\ s.electors \subseteq Server      \* the nodes whose election timer may fire
  /\ s.crashers \subseteq Server      \* the nodes that may crash
  /\ s.compactors \subseteq Server    \* the nodes that may compact their log
  /\ IsFiniteSet(s.values)            \* commands clients propose
  /\ s.configs \subseteq (SUBSET Server \ {{}})  \* voter sets an operator may ask for
  /\ s.contexts \subseteq Nat \ {0}   \* identities of reads, each used once
  /\ s.writes \subseteq Nat /\ s.writes # {}  \* how many writes of a call succeed
  /\ s.maxTerm \in 0 .. MaxTerm       \* no election is started beyond this term
  /\ s.maxIndex \in Nat               \* nothing is proposed beyond this index

ASSUME ClusterAssumption ==
  /\ IsFiniteSet(Server) /\ Server # {} /\ Nil \notin Server
  /\ \A s \in Scenario : IsScenario(s)
  /\ MaxTerm \in Nat

VARIABLES node,   \* the node at each server, its disk included
          net,    \* every message ever sent
          floor,  \* the highest commit index anywhere when a read began, per server
          scene   \* the scenario

vars == <<node, net, floor, scene>>

Init ==
  /\ node = [i \in Server |-> NewNodeWithStore(i, EmptyDisk)]
  /\ net = {}
  /\ floor = [i \in Server |-> 0]
  /\ scene \in Scenario

\* Run one call on node i: n is what it leaves, its outbound queue is drained.
Run(i, n) ==
  /\ node' = [node EXCEPT ![i] = [n EXCEPT !.out = {}, !.io = 0]]
  /\ net' = net \cup n.out

\* Node i at the start of a call in which w writes succeed.
With(i, w) == [node[i] EXCEPT !.io = w]

TickAction(i) ==
  /\ ~node[i].faulted
  /\ node[i].role # "Leader" => i \in scene.electors /\ node[i].term < scene.maxTerm
  /\ \E w \in scene.writes : Run(i, Tick(With(i, w)))
  /\ UNCHANGED <<floor, scene>>

Deliver(m) ==
  /\ ~node[m.to].faulted
  /\ \E w \in scene.writes : Run(m.to, Step(With(m.to, w), m))
  /\ UNCHANGED <<floor, scene>>

ProposeAction(i) ==
  /\ CanPropose(node[i])
  /\ LastIndex(node[i]) < scene.maxIndex
  /\ \E w \in scene.writes, v \in scene.values : Run(i, Propose(With(i, w), v))
  /\ UNCHANGED <<floor, scene>>

ProposeJointAction(i) ==
  /\ CanProposeJoint(node[i])
  /\ LastIndex(node[i]) < scene.maxIndex
  /\ \E w \in scene.writes, c \in scene.configs : Run(i, ProposeJoint(With(i, w), c))
  /\ UNCHANGED <<floor, scene>>

ProposeFinalAction(i) ==
  /\ CanProposeFinal(node[i])
  /\ LastIndex(node[i]) < scene.maxIndex
  /\ \E w \in scene.writes : Run(i, ProposeFinal(With(i, w)))
  /\ UNCHANGED <<floor, scene>>

TransferAction(i, target) ==
  /\ CanTransfer(node[i], target)
  /\ target \in scene.electors /\ node[i].term < scene.maxTerm
  /\ Run(i, TransferLeadership(node[i], target))
  /\ UNCHANGED <<floor, scene>>

Commits == {node[j].commit : j \in Server}

ReadAction(i, c) ==
  /\ CanStartReadIndex(node[i])
  /\ \A m \in net : m.type = "Append" => m.context # c
  /\ \A j \in Server : node[j].readContext # c
  /\ Run(i, StartReadIndex(node[i], c))
  /\ floor' = [floor EXCEPT ![i] = Max(Commits)]
  /\ UNCHANGED scene

Apply(i) ==
  /\ node[i].applied < node[i].commit
  /\ Run(i, ApplyEntries(node[i]))
  /\ UNCHANGED <<floor, scene>>

\* The callers of Compact apply what is committed and then compact at Applied.
CompactAction(i) ==
  /\ i \in scene.compactors /\ ~node[i].faulted
  /\ node[i].applied = node[i].commit
  /\ CanCompact(node[i], node[i].applied)
  /\ \E w \in scene.writes : Run(i, Compact(With(i, w), node[i].applied, <<>>))
  /\ UNCHANGED <<floor, scene>>

Restart(i) ==
  /\ i \in scene.crashers
  /\ Run(i, NewRecoveredNode(i, node[i].disk))
  /\ UNCHANGED <<floor, scene>>

Next ==
  \/ \E i \in Server :
       \/ TickAction(i)
       \/ ProposeAction(i)
       \/ ProposeJointAction(i)
       \/ ProposeFinalAction(i)
       \/ \E target \in Server : TransferAction(i, target)
       \/ \E c \in scene.contexts : ReadAction(i, c)
       \/ Apply(i)
       \/ CompactAction(i)
       \/ Restart(i)
  \/ \E m \in net : Deliver(m)

Spec == Init /\ [][Next]_vars

-----------------------------------------------------------------------------
(***************************************************************************)
(* Safety.                                                                 *)
(***************************************************************************)

\* The index i's log, disk included, starts after and ends at.
Retained(i) == node[i].base + 1 .. LastIndex(node[i])

\* i is the leader of term t, or was and sent an Append or a snapshot as such.
Leads(i, t) ==
  \/ node[i].role = "Leader" /\ node[i].term = t
  \/ \E m \in net : m.type \in {"Append", "InstallSnapshot"} /\ m.from = i /\ m.term = t

\* A term has one leader, across membership changes, crashes and failed writes
\* (onVote, startElection, quorumMask).
ElectionSafety ==
  \A t \in 0 .. MaxTerm : \A i \in Server :
    Leads(i, t) => \A j \in Server : Leads(j, t) => i = j

\* Two logs that agree on the term at an index agree on every entry both still
\* retain up to it (onAppend's prevTerm check and conflict truncation).
LogMatching ==
  \A i, j \in Server : \A k \in Retained(i) \cap Retained(j) :
    TermAt(node[i], k) = TermAt(node[j], k) =>
      \A l \in Retained(i) \cap Retained(j) : l <= k => EntryAt(node[i], l) = EntryAt(node[j], l)

\* No two nodes commit different entries at an index, a compacted one included
\* (onAppend, onAppendResponse, onInstallSnapshot).
CommittedAgree ==
  \A i, j \in Server :
    LET a == node[i]
        b == node[j]
        both == Max({a.base, b.base}) .. Min({a.commit, b.commit})
    IN \A k \in both : /\ TermAt(a, k) = TermAt(b, k)
                       /\ k \in Retained(i) \cap Retained(j) => EntryAt(a, k) = EntryAt(b, k)

\* A leader holds every entry any node of no later term has committed
\* (onVote's log check, becomeLeader, canCommitIndex).
LeaderCompleteness ==
  \A i, j \in Server :
    LET a == node[i]
        b == node[j]
    IN a.role = "Leader" /\ b.term <= a.term =>
         /\ b.commit <= LastIndex(a)
         /\ \A k \in Max({a.base, b.base}) .. b.commit : TermAt(a, k) = TermAt(b, k)

\* An index a node has acknowledged to the leader of the term it is in is on its
\* disk: Persist(log[index]) happens before Send(AppendAccepted(index)).
AcceptedDurable ==
  \A m \in net :
    LET d == node[m.from].disk IN
    m.type = "AppendResponse" /\ ~m.reject /\ m.term = d.term => m.match <= LastIndex(d)

\* A node fail-stops only when a write failed: no handler asks the store for
\* something it refuses, and what is on disk can always be recovered from.
NoSpuriousFault == scene.writes = {Unlimited} => \A i \in Server : ~node[i].faulted

\* A read that its quorum confirmed is served at or above every index that was
\* committed anywhere when it began (StartReadIndex, onAppendResponse).
ReadIndexFresh ==
  \A i \in Server :
    node[i].role = "Leader" /\ node[i].readReady => node[i].readIndex >= floor[i]

\* Nodes that have committed the same prefix have the same committed voters
\* (VoterMasks, applyCommittedConfigurations, onInstallSnapshot, recovery).
CommittedVotersAgree ==
  \A i, j \in Server :
    node[i].commit = node[j].commit /\ ~node[i].faulted /\ ~node[j].faulted =>
      <<node[i].votersOld, node[i].votersNew>> = <<node[j].votersOld, node[j].votersNew>>

\* A membership change that a node has marked as pending is not committed yet, so that
\* the mark will be cleared (ProposeJoint, ProposeFinal, applyCommittedConfigurations).
PendingUncommitted ==
  \A i \in Server : node[i].pendingConfig # 0 => node[i].pendingConfig > node[i].commit

\* Whatever a failed write or a crash leaves on disk can be opened again
\* (raftstore.Open, NewRecoveredNodeWithSnapshot).
Recoverable == \A i \in Server : ~NewRecoveredNode(i, node[i].disk).faulted

\* What is committed on a disk is never changed by a later step, whatever crashes
\* or fails; it may only be compacted (raftwal.Append, ResetBase).
CommittedKept ==
  \A i \in Server :
    LET d == node[i].disk
        e == node'[i].disk
    IN /\ e.commit >= d.commit /\ e.base >= d.base /\ e.snap.index >= d.snap.index
       /\ \A k \in Max({d.base, e.base}) .. d.commit :
            HasIndex(d, k) => HasIndex(e, k) /\ TermAt(d, k) = TermAt(e, k)

CommittedNeverRewritten == [][CommittedKept]_vars

-----------------------------------------------------------------------------
(***************************************************************************)
(* RaftElection is this cluster with logs, commits and snapshots forgotten,*)
(* as long as no membership change is proposed.                            *)
(***************************************************************************)

\* A message as elections see it; a refused pre-vote is not seen at all.
Seen(m) ==
  [type |-> CASE m.type = "InstallSnapshot" -> "Append"
              [] m.type = "InstallSnapshotResponse" -> "AppendResponse"
              [] OTHER -> m.type,
   from |-> m.from, to |-> m.to, term |-> m.term,
   reject |-> m.type = "RequestVoteResponse" /\ m.reject]

SeenOf(M) == {Seen(m) : m \in {o \in M : o.type # "PreVoteResponse" \/ ~o.reject}}

HardOf(d) == [term |-> d.term, vote |-> d.vote]

roles == [i \in Server |-> node[i].role]
terms == [i \in Server |-> node[i].term]
votes == [i \in Server |-> node[i].vote]
leaders == [i \in Server |-> node[i].leader]
preVoteTerms == [i \in Server |-> node[i].preVoteTerm]
preVoteMasks == [i \in Server |-> node[i].preVoteMask]
voteMasks == [i \in Server |-> node[i].voteMask]
faults == [i \in Server |-> node[i].faulted]
hards == [i \in Server |-> HardOf(node[i].disk)]
seen == SeenOf(net)

Election == INSTANCE RaftElection WITH
  role <- roles, term <- terms, votedFor <- votes, leader <- leaders,
  preVoteTerm <- preVoteTerms, preVoteMask <- preVoteMasks, voteMask <- voteMasks,
  faulted <- faults, hard <- hards, net <- seen

\* As long as nobody may ask for other voters, every step of the cluster, whatever it
\* does to logs, commits and snapshots, is an election step or leaves the election
\* state alone, so what RaftElection proves of elections holds of node.go as a whole
\* (every method of Node).
ImplementsElection == [][scene.configs = {} => [Election!Next]_(Election!vars)]_vars

=============================================================================
