------------------------------ MODULE RaftNode ------------------------------
(***************************************************************************)
(* One Raft node (raft/node.go, raft/recover.go) over its durable store    *)
(* (storage/raftstore over storage/raftwal and storage/snapshot).          *)
(*                                                                         *)
(* A node is a record n and a method of Node is an operator from a node to *)
(* the node it leaves behind; RaftCluster turns these into actions.  The   *)
(* fields of Node keep their names.  Bit masks of node IDs are sets.       *)
(*                                                                         *)
(* Two fields are not in the code.  disk is what a crash leaves behind.    *)
(* io is the number of storage writes that will still succeed in the       *)
(* running call: the next one fails and the node fail-stops.               *)
(*                                                                         *)
(* elapsed is left out: RaftCluster lets an election timer fire at any     *)
(* time, and between two calls elapsed is below the election timeout, so   *)
(* leaderActive in onPreVote is "Leader is known".                         *)
(***************************************************************************)
EXTENDS RaftDisk, FiniteSets, FiniteSetsExt

CONSTANT Server  \* node IDs; all are voters when a cluster is first started

NewNodeWithStore(i, disk) ==
  [id |-> i, peers |-> Server \ {i}, role |-> "Follower", term |-> 0, vote |-> Nil,
   leader |-> Nil, log |-> <<>>, base |-> 0, baseTerm |-> 0, commit |-> 0, applied |-> 0,
   voteMask |-> {}, preVoteMask |-> {}, preVoteTerm |-> 0,
   next |-> [p \in Server |-> 0], match |-> [p \in Server |-> 0],
   faulted |-> FALSE, readContext |-> 0, readAckMask |-> {}, readIndex |-> 0,
   readReady |-> FALSE, snapshot |-> NoSnapshot, votersOld |-> Server, votersNew |-> {},
   pendingConfig |-> 0, out |-> {}, disk |-> disk, io |-> 0]

UpToDate(n, m) ==
  LET last == LastIndex(n) IN
  m.logTerm > TermAt(n, last) \/ (m.logTerm = TermAt(n, last) /\ m.logIndex >= last)

-----------------------------------------------------------------------------
(***************************************************************************)
(* Voters and quorums.                                                     *)
(***************************************************************************)

\* Slip: half of the voters is taken for a majority.
majorityMask_half(voters, acked) ==
  voters # {} /\ Cardinality(voters \cap acked) >= Cardinality(voters) \div 2

majorityMask(voters, acked) ==
  voters # {} /\ Cardinality(voters \cap acked) >= Cardinality(voters) \div 2 + 1

\* C_old and C_new as of index last: the uncommitted joint entry up to it, if
\* there is one, and otherwise what is committed.  A final entry counts only
\* once it is committed.
VotersOf(n, joint) ==
  IF joint = {} THEN [old |-> n.votersOld, new |-> n.votersNew]
  ELSE LET e == EntryAt(n, Max(joint)) IN [old |-> e.old, new |-> e.new]
VotersAt(n, last) ==
  VotersOf(n, {k \in n.commit + 1 .. last : EntryAt(n, k).kind = "Joint"})

\* Slip: a joint configuration commits by C_new alone.
Majorities_newOnly(c, acked) ==
  majorityMask(IF c.new = {} THEN c.old ELSE c.new, acked)

\* A majority of C_old and, in a joint configuration, one of C_new.
Majorities(c, acked) ==
  majorityMask(c.old, acked) /\ (c.new = {} \/ majorityMask(c.new, acked))

Members(c) == c.old \cup c.new

canCommitIndex(n, k, acked) == Majorities(VotersAt(n, k), acked)
effectiveVoters(n) == VotersAt(n, LastIndex(n))
quorumMask(n, acked) == Majorities(effectiveVoters(n), acked)
isVoter(n, i) == i \in Members(effectiveVoters(n))

ensurePeers(n, mask) ==
  LET added == mask \ (n.peers \cup {n.id}) IN
  [n EXCEPT !.peers = @ \cup added,
            !.next = [p \in Server |-> IF p \in added THEN LastIndex(n) + 1 ELSE @[p]],
            !.match = [p \in Server |-> IF p \in added THEN 0 ELSE @[p]]]

rebuildPendingConfig(n) ==
  LET configs == {k \in n.commit + 1 .. LastIndex(n) : IsConfig(EntryAt(n, k))}
      masks == {EntryAt(n, k).old \cup EntryAt(n, k).new : k \in configs}
  IN ensurePeers([n EXCEPT !.pendingConfig = IF configs = {} THEN 0 ELSE Max(configs)],
                 UNION masks)

validNewEntry(n, e) ==
  CASE e.kind = "Joint" -> /\ n.pendingConfig = 0 /\ n.votersNew = {}
                           /\ e.old = n.votersOld /\ e.old # {} /\ e.new # {}
    [] e.kind = "Final" -> /\ n.pendingConfig = 0 /\ n.votersNew # {}
                           /\ e.old = n.votersNew /\ e.new = {}
    [] OTHER -> e.old = {} /\ e.new = {}

LeaveUnlessVoter(n) ==
  IF isVoter(n, n.id) THEN n
  ELSE [n EXCEPT !.role = "Follower", !.leader = Nil, !.readReady = FALSE]

\* One round of the loop of applyCommittedConfigurations, for the entry at k.
Installed(n, e) ==
  CASE e.kind = "Joint" ->
         ensurePeers([n EXCEPT !.votersOld = e.old, !.votersNew = e.new], e.old \cup e.new)
    [] e.kind = "Final" ->
         LeaveUnlessVoter([n EXCEPT !.votersOld = e.old, !.votersNew = {}])
    [] OTHER -> n

ApplyConfiguration(n, k) ==
  [Installed(n, EntryAt(n, k)) EXCEPT !.pendingConfig = IF @ = k THEN 0 ELSE @]

applyCommittedConfigurations(n, first, last) ==
  LET applied[k \in first - 1 .. last] ==
        IF k < first THEN n ELSE ApplyConfiguration(applied[k - 1], k)
  IN IF last < first THEN n ELSE applied[last]

-----------------------------------------------------------------------------
(***************************************************************************)
(* Stable storage.  A call that raftwal or raftstore refuses, and a write  *)
(* that fails, both make the node fail-stop with its outbound queue empty. *)
(***************************************************************************)

failStorage(n) ==
  [n EXCEPT !.faulted = TRUE, !.role = "Follower", !.leader = Nil, !.out = {}]

\* Slip: the error of a failed write is dropped.
Write_ignoresError(n, accepted, disk) ==
  IF ~accepted \/ n.io = 0 THEN n ELSE [n EXCEPT !.disk = disk, !.io = @ - 1]

Write(n, accepted, disk) ==
  IF ~accepted \/ n.io = 0 THEN failStorage(n)
  ELSE [n EXCEPT !.disk = disk, !.io = @ - 1]

SaveHardState(n, t, v, c) ==
  Write(n, HardStateAccepted(n.disk, t, v, c), HardStateSaved(n.disk, t, v, c))

StoreAppend(n, k, e) == Write(n, EntryAccepted(n.disk, k), EntryStored(n.disk, k, e))

SaveSnapshot(n, snap) == Write(n, SnapshotAccepted(n.disk, snap), SnapshotSaved(n.disk, snap))

CompactLog(n, snap) ==
  IF n.faulted THEN n ELSE Write(n, FenceAccepted(n.disk, snap), Compacted(n.disk, snap))

\* A durable rename, and then a WAL fence.
SaveSnapshotAndCompact(n, snap) == CompactLog(SaveSnapshot(n, snap), snap)

-----------------------------------------------------------------------------
(***************************************************************************)
(* Sending.                                                                *)
(***************************************************************************)

Send(n, messages) == [n EXCEPT !.out = @ \cup messages]

LogRequest(n, type, t, p) ==
  [type |-> type, from |-> n.id, to |-> p, term |-> t,
   logIndex |-> LastIndex(n), logTerm |-> TermAt(n, LastIndex(n))]

Response(n, type, m, t, reject) ==
  [type |-> type, from |-> n.id, to |-> m.from, term |-> t, reject |-> reject]

MatchResponse(n, type, m, reject, match, context) ==
  [type |-> type, from |-> n.id, to |-> m.from, term |-> n.term, reject |-> reject,
   match |-> match, context |-> context]

NextTo(n, p) == Min({n.next[p], LastIndex(n) + 1})

\* The Append of what follows index k.
AppendAfter(n, p, k, context) ==
  [type |-> "Append", from |-> n.id, to |-> p, term |-> n.term,
   logIndex |-> k, logTerm |-> TermAt(n, k),
   entries |-> IF k < LastIndex(n) THEN <<EntryAt(n, k + 1)>> ELSE <<>>,
   commit |-> n.commit, context |-> context]

\* What appendToContext sends to p: the snapshot if p's next entry has been
\* compacted away, otherwise that entry if there is one.
AppendMessage(n, p, context) ==
  IF n.next[p] <= n.base
  THEN [type |-> "InstallSnapshot", from |-> n.id, to |-> p, term |-> n.term,
        snap |-> n.snapshot]
  ELSE AppendAfter(n, p, NextTo(n, p) - 1, context)

appendToContext(n, S, context) ==
  [n EXCEPT !.out = @ \cup {AppendMessage(n, p, context) : p \in S},
            !.next = [p \in Server |-> IF p \in S THEN NextTo(n, p) ELSE @[p]]]

appendTo(n, p) == appendToContext(n, {p}, 0)

broadcastAppend(n) == appendToContext(n, {p \in n.peers : isVoter(n, p)}, 0)

-----------------------------------------------------------------------------
(***************************************************************************)
(* Committing and proposing.                                               *)
(***************************************************************************)

\* Slip: a follower does not take over the configurations it commits.
Committed_leaderOnly(n, first, c) ==
  CASE n.faulted -> n
    [] ~n.faulted /\ n.role = "Leader" ->
         applyCommittedConfigurations([n EXCEPT !.commit = c], first, c)
    [] OTHER -> [n EXCEPT !.commit = c]

\* Adopt commit index c, once it is persisted, and the configurations it commits.
Committed(n, first, c) ==
  IF n.faulted THEN n
  ELSE applyCommittedConfigurations([n EXCEPT !.commit = c], first, c)

CommitTo(n, c) == Committed(SaveHardState(n, n.term, n.vote, c), n.commit + 1, c)

CommitIfAlone(n) == IF quorumMask(n, {n.id}) THEN CommitTo(n, LastIndex(n)) ELSE n

AppendStored(n, e) ==
  IF n.faulted THEN n ELSE CommitIfAlone([n EXCEPT !.log = Append(@, e)])

appendLocal(n, e) == AppendStored(StoreAppend(n, LastIndex(n) + 1, e), e)

\* A proposal that was stored goes to the voters.
Announce(n) == IF n.faulted THEN n ELSE broadcastAppend(n)

Pend(n) == IF n.faulted THEN n ELSE [n EXCEPT !.pendingConfig = LastIndex(n)]

Propose(n, val) == Announce(appendLocal(n, Normal(n.term, val)))

ProposeJoint(n, new) ==
  Announce(Pend(appendLocal(ensurePeers(n, new), JointConfig(n.term, n.votersOld, new))))

ProposeFinal(n) == Announce(Pend(appendLocal(n, FinalConfig(n.term, n.votersNew))))

CanPropose(n) == n.role = "Leader" /\ ~n.faulted
CanProposeJoint(n) == CanPropose(n) /\ n.votersNew = {} /\ n.pendingConfig = 0
CanProposeFinal(n) == CanPropose(n) /\ n.votersNew # {} /\ n.pendingConfig = 0

RestartReplication(n) ==
  IF n.faulted THEN n
  ELSE [n EXCEPT
          !.next = [p \in Server |-> IF p \in n.peers THEN LastIndex(n) + 1 ELSE @[p]],
          !.match = [p \in Server |-> IF p \in n.peers THEN 0 ELSE @[p]]]

\* A new leader appends a no-op and restarts replication to every peer.
becomeLeader(n) ==
  Announce(RestartReplication(
    appendLocal([n EXCEPT !.role = "Leader", !.leader = n.id], Noop(n.term))))

-----------------------------------------------------------------------------
(***************************************************************************)
(* Elections.                                                              *)
(***************************************************************************)

LeadIfVoted(n) == IF quorumMask(n, n.voteMask) THEN becomeLeader(n) ELSE n

\* Ask for votes in term t, once term and vote are persisted.
AskForVotes(n, t) ==
  IF n.faulted THEN n
  ELSE LeadIfVoted(Send([n EXCEPT !.role = "Candidate", !.term = t, !.vote = n.id,
                                  !.voteMask = {n.id}, !.preVoteMask = {}],
                        {LogRequest(n, "RequestVote", t, p) : p \in n.peers}))

startElection(n) == AskForVotes(SaveHardState(n, n.term + 1, n.id, n.commit), n.term + 1)

ElectIfPreVoted(n) == IF quorumMask(n, n.preVoteMask) THEN startElection(n) ELSE n

startPreVote(n) ==
  ElectIfPreVoted(Send([n EXCEPT !.preVoteTerm = n.term + 1, !.leader = Nil,
                                 !.preVoteMask = {n.id}],
                       {LogRequest(n, "PreVote", n.term + 1, p) : p \in n.peers}))

\* Tick, when the heartbeat or the election timer fires.
Tick(n) == IF n.role = "Leader" THEN broadcastAppend(n) ELSE startPreVote(n)

onPreVote(n, m) ==
  LET grant == isVoter(n, m.from) /\ m.term >= n.term + 1 /\ UpToDate(n, m) /\ n.leader = Nil
  IN Send(n, {Response(n, "PreVoteResponse", m, m.term, ~grant)})

onPreVoteResponse(n, m) ==
  IF \/ n.role = "Leader" \/ ~isVoter(n, m.from) \/ m.term # n.term + 1
     \/ m.term # n.preVoteTerm \/ m.reject
    THEN n
  ELSE ElectIfPreVoted([n EXCEPT !.preVoteMask = @ \cup {m.from}])

CanVote(n, m) ==
  isVoter(n, m.from) /\ m.term = n.term /\ n.vote \in {Nil, m.from} /\ UpToDate(n, m)

VoteResponse(n, m, reject) ==
  Send(n, {Response(n, "RequestVoteResponse", m, n.term, reject)})

\* Slip: the vote is answered without being persisted.
onVote_unsaved(n, m) ==
  IF CanVote(n, m) THEN VoteResponse([n EXCEPT !.vote = m.from], m, FALSE)
  ELSE VoteResponse(n, m, TRUE)

Vote(n, m) == IF n.faulted THEN n ELSE VoteResponse([n EXCEPT !.vote = m.from], m, FALSE)

onVote(n, m) ==
  IF CanVote(n, m) THEN Vote(SaveHardState(n, n.term, m.from, n.commit), m)
  ELSE VoteResponse(n, m, TRUE)

onVoteResponse(n, m) ==
  IF n.role # "Candidate" \/ ~isVoter(n, m.from) \/ m.term # n.term \/ m.reject THEN n
  ELSE LeadIfVoted([n EXCEPT !.voteMask = @ \cup {m.from}])

onTimeoutNow(n, m) ==
  IF n.role = "Follower" /\ m.term = n.term /\ m.from = n.leader THEN startElection(n) ELSE n

CanTransfer(n, target) == n.role = "Leader" /\ target # n.id /\ isVoter(n, target)

TransferLeadership(n, target) ==
  IF n.match[target] < LastIndex(n) THEN appendTo(n, target)
  ELSE Send(n, {[type |-> "TimeoutNow", from |-> n.id, to |-> target, term |-> n.term]})

-----------------------------------------------------------------------------
(***************************************************************************)
(* Replication.                                                            *)
(***************************************************************************)

\* Drop a suffix that conflicts with entry e at index k.
Cut(n, k, e) ==
  IF k <= LastIndex(n) /\ TermAt(n, k) # e.term
    THEN rebuildPendingConfig([n EXCEPT !.log = UpTo(n, k - 1)]) ELSE n

AddStored(n, k, e) ==
  CASE n.faulted -> n
    [] ~n.faulted /\ IsConfig(e) ->
         ensurePeers([n EXCEPT !.log = Append(@, e), !.pendingConfig = k], e.old \cup e.new)
    [] OTHER -> [n EXCEPT !.log = Append(@, e)]

\* Append e, unless the log has an entry at k.
Add(n, k, e) == IF k = LastIndex(n) + 1 THEN AddStored(StoreAppend(n, k, e), k, e) ELSE n

\* The part of onAppend that stores entry e at index k.
StoreEntry(n, k, e) == Add(Cut(n, k, e), k, e)

Matched(m) == m.logIndex + Len(m.entries)

\* Slip: the term of the entry before the new one is not compared.
AppendRejected_noTerm(n, m) ==
  \/ m.term < n.term
  \/ ~HasIndex(n, m.logIndex)
  \/ m.entries # <<>> /\ m.logIndex = LastIndex(n) /\ ~validNewEntry(n, m.entries[1])

AppendRejected(n, m) ==
  \/ m.term < n.term
  \/ ~HasIndex(n, m.logIndex)
  \/ TermAt(n, m.logIndex) # m.logTerm
  \/ m.entries # <<>> /\ m.logIndex = LastIndex(n) /\ ~validNewEntry(n, m.entries[1])

\* Slip: an older message may move the commit index back.
CommitWith_backwards(n, m) ==
  IF ~n.faulted /\ m.commit # n.commit THEN CommitTo(n, Min({m.commit, Matched(m)})) ELSE n

\* The part of onAppend that follows the leader's commit index, as far as the
\* log is known to match the leader's.
CommitWith(n, m) ==
  IF ~n.faulted /\ m.commit > n.commit /\ Matched(m) > n.commit
    THEN CommitTo(n, Min({m.commit, Matched(m)})) ELSE n

AppendResponse(n, m, reject, match) ==
  IF n.faulted THEN n
  ELSE Send(n, {MatchResponse(n, "AppendResponse", m, reject, match, m.context)})

\* Slip: the commit index is persisted before the entry it covers.
Follow_commitFirst(n, m) ==
  LET early == IF m.commit > n.commit /\ Matched(m) > n.commit
                 THEN SaveHardState(n, n.term, n.vote, Min({m.commit, Matched(m)})) ELSE n
      stored == IF early.faulted \/ m.entries = <<>> THEN early
                ELSE StoreEntry(early, Matched(m), m.entries[1])
  IN IF stored.faulted THEN stored ELSE [stored EXCEPT !.commit = stored.disk.commit]

\* Store the entry of m, if it has one, and then commit.
Follow(n, m) ==
  CommitWith(IF m.entries = <<>> THEN n ELSE StoreEntry(n, Matched(m), m.entries[1]), m)

onAppend(n, m) ==
  IF AppendRejected(n, m) THEN AppendResponse(n, m, TRUE, LastIndex(n))
  ELSE AppendResponse(Follow([n EXCEPT !.role = "Follower", !.leader = m.from], m),
                      m, FALSE, Matched(m))

\* Slip: what a quorum holds is committed whatever its term.
Committable_anyTerm(n) ==
  {k \in n.commit + 1 .. LastIndex(n) :
     canCommitIndex(n, k, {n.id} \cup {p \in n.peers : n.match[p] >= k})}

\* The indices of this term that a quorum holds, by match and by its own log.
Committable(n) ==
  {k \in n.commit + 1 .. LastIndex(n) :
     /\ TermAt(n, k) = n.term
     /\ canCommitIndex(n, k, {n.id} \cup {p \in n.peers : n.match[p] >= k})}

ReadyIfAcknowledged(n) ==
  IF quorumMask(n, n.readAckMask) THEN [n EXCEPT !.readIndex = n.commit, !.readReady = TRUE]
  ELSE n

\* The part of onAppendResponse that counts acknowledgements of a read.
AcknowledgeRead(n, m) ==
  IF \/ n.role # "Leader" \/ m.term # n.term \/ m.reject
     \/ m.context = 0 \/ m.context # n.readContext \/ ~isVoter(n, m.from)
    THEN n
  ELSE ReadyIfAcknowledged([n EXCEPT !.readAckMask = @ \cup {m.from}])

\* Slip: a refusal does not move next back.
BackedOff_not(n, p) == n

BackedOff(n, p) == [n EXCEPT !.next[p] = IF @ > 1 THEN @ - 1 ELSE @]

CommitHighest(n, indices) == IF indices = {} THEN n ELSE CommitTo(n, Max(indices))

\* The voters hear of a commit index above the one before.
TellCommit(n, before) ==
  IF n.role = "Leader" /\ n.commit > before THEN broadcastAppend(n) ELSE n

SendRest(n, p) ==
  IF n.role = "Leader" /\ n.next[p] <= LastIndex(n) THEN appendTo(n, p) ELSE n

Match(n, p, match) == [n EXCEPT !.match[p] = match, !.next[p] = match + 1]

CommitMatched(n) == CommitHighest(n, Committable(n))

\* The part of onAppendResponse about replication.
Replicate(n, m) ==
  CASE n.role # "Leader" \/ m.term # n.term \/ m.match > LastIndex(n) -> n
    [] n.role = "Leader" /\ m.term = n.term /\ m.match <= LastIndex(n) /\ m.reject ->
         appendTo(BackedOff(n, m.from), m.from)
    [] OTHER ->
         SendRest(TellCommit(CommitMatched(Match(n, m.from, m.match)), n.commit), m.from)

onAppendResponse(n, m) == Replicate(AcknowledgeRead(n, m), m)

-----------------------------------------------------------------------------
(***************************************************************************)
(* Snapshots.                                                              *)
(***************************************************************************)

CanCompact(n, k) == n.base < k /\ k <= n.applied /\ HasIndex(n, k)

\* The log starts after snap, once that is durable.
Rebase(n, snap) ==
  IF n.faulted THEN n
  ELSE [n EXCEPT !.log = Compacted(n, snap).log, !.base = snap.index, !.baseTerm = snap.term,
                 !.snapshot = snap]

\* The snapshot records the voters as they are committed now.
SnapshotAt(n, k, state) ==
  [index |-> k, term |-> TermAt(n, k), state |-> state, old |-> n.votersOld, new |-> n.votersNew]

TakeSnapshot(n, snap) == Rebase(SaveSnapshotAndCompact(n, snap), snap)

Compact(n, k, state) == TakeSnapshot(n, SnapshotAt(n, k, state))

SnapshotRejected(n, m) ==
  \/ m.term < n.term \/ m.snap.index < n.base \/ m.snap.old = {}
  \/ m.snap.index = n.base /\ m.snap.term # n.baseTerm

\* The voters and the indices of a snapshot that was saved.
AdoptSnapshot(n, s) ==
  IF n.faulted THEN n
  ELSE [n EXCEPT !.votersOld = s.old, !.votersNew = s.new,
                 !.commit = Max({@, s.index}), !.applied = Max({@, s.index})]

InstallSnapshot(n, s) ==
  IF s.index = n.base THEN n ELSE AdoptSnapshot(TakeSnapshot(n, s), s)

SnapshotResponse(n, m, reject) ==
  Send(n, {MatchResponse(n, "InstallSnapshotResponse", m, reject, n.base, 0)})

AcceptSnapshot(n, m) ==
  IF n.faulted THEN n
  ELSE SnapshotResponse([n EXCEPT !.role = "Follower", !.leader = m.from], m, FALSE)

onInstallSnapshot(n, m) ==
  IF SnapshotRejected(n, m) THEN SnapshotResponse(n, m, TRUE)
  ELSE AcceptSnapshot(InstallSnapshot(n, m.snap), m)

Advance(n, p, match) == IF match > n.match[p] THEN Match(n, p, match) ELSE n

onInstallSnapshotResponse(n, m) ==
  IF n.role # "Leader" \/ m.term # n.term \/ m.reject \/ ~isVoter(n, m.from) THEN n
  ELSE SendRest(Advance(n, m.from, m.match), m.from)

-----------------------------------------------------------------------------
(***************************************************************************)
(* Reads, applying, and Step.                                              *)
(***************************************************************************)

CanStartReadIndex(n) ==
  /\ n.role = "Leader" /\ ~n.faulted /\ n.commit # 0
  /\ TermAt(n, n.commit) = n.term \/ quorumMask(n, {n.id})

\* Slip: the leader trusts that it still leads.
StartReadIndex_local(n, context) ==
  appendToContext([n EXCEPT !.readContext = context, !.readAckMask = {n.id},
                            !.readReady = TRUE, !.readIndex = n.commit], n.peers, context)

StartReadIndex(n, context) ==
  appendToContext(ReadyIfAcknowledged([n EXCEPT !.readContext = context, !.readAckMask = {n.id},
                                                !.readReady = FALSE]),
                  n.peers, context)

ApplyEntries(n) == [n EXCEPT !.applied = n.commit]

\* A newer term was seen, and is persisted.
EnterTerm(n, t) ==
  IF n.faulted THEN n
  ELSE [n EXCEPT !.role = "Follower", !.term = t, !.vote = Nil, !.leader = Nil, !.readReady = FALSE]

Observe(n, m) ==
  IF m.type \notin {"PreVote", "PreVoteResponse"} /\ m.term > n.term
    THEN EnterTerm(SaveHardState(n, m.term, Nil, n.commit), m.term) ELSE n

Dispatch(n, m) ==
  IF n.faulted THEN n
  ELSE CASE m.type = "PreVote" -> onPreVote(n, m)
         [] m.type = "PreVoteResponse" -> onPreVoteResponse(n, m)
         [] m.type = "RequestVote" -> onVote(n, m)
         [] m.type = "RequestVoteResponse" -> onVoteResponse(n, m)
         [] m.type = "Append" -> onAppend(n, m)
         [] m.type = "AppendResponse" -> onAppendResponse(n, m)
         [] m.type = "InstallSnapshot" -> onInstallSnapshot(n, m)
         [] m.type = "InstallSnapshotResponse" -> onInstallSnapshotResponse(n, m)
         [] m.type = "TimeoutNow" -> onTimeoutNow(n, m)

Step(n, m) == Dispatch(Observe(n, m), m)

-----------------------------------------------------------------------------
(***************************************************************************)
(* Restart: raftstore.Open and then NewRecoveredNode[WithSnapshot].        *)
(***************************************************************************)

\* One round of restoreConfigurationState, for the entry e at index k; ok turns
\* false at an entry that is invalid where it stands.
ValidAt(a, e) ==
  CASE e.kind = "Joint" -> a.pending = 0 /\ a.new = {} /\ e.old = a.old
    [] e.kind = "Final" -> a.pending = 0 /\ a.new # {} /\ e.old = a.new
    [] OTHER -> TRUE

RestoreConfiguration(a, e, k, commit) ==
  CASE ~ValidAt(a, e) -> [a EXCEPT !.ok = FALSE]
    [] ValidAt(a, e) /\ IsConfig(e) /\ k <= commit -> [a EXCEPT !.old = e.old, !.new = e.new]
    [] ValidAt(a, e) /\ IsConfig(e) /\ k > commit -> [a EXCEPT !.pending = k]
    [] OTHER -> a

Restored(n, r, masks) ==
  IF ~r.ok THEN failStorage(n)
  ELSE ensurePeers([n EXCEPT !.votersOld = r.old, !.votersNew = r.new,
                             !.pendingConfig = r.pending], UNION masks)

restoreConfigurationState(n) ==
  LET r[k \in n.base .. LastIndex(n)] ==
        IF k = n.base
          THEN [old |-> n.votersOld, new |-> n.votersNew, pending |-> 0, ok |-> TRUE]
        ELSE RestoreConfiguration(r[k - 1], EntryAt(n, k), k, n.commit)
  IN Restored(n, r[LastIndex(n)],
              {EntryAt(n, k).old \cup EntryAt(n, k).new : k \in n.base + 1 .. LastIndex(n)})

\* Without a snapshot the node starts from its first voters and applies the
\* whole log again; with one, from the snapshot's voters and index.
Recover(i, d) ==
  [NewNodeWithStore(i, d) EXCEPT
     !.term = d.term, !.vote = d.vote, !.commit = Max({d.commit, d.snap.index}),
     !.log = d.log, !.base = d.base, !.baseTerm = d.baseTerm, !.snapshot = d.snap,
     !.applied = d.snap.index,
     !.votersOld = IF d.snap.index = 0 THEN @ ELSE d.snap.old,
     !.votersNew = IF d.snap.index = 0 THEN @ ELSE d.snap.new]

RecoverConfiguration(n) ==
  IF n.commit > LastIndex(n) THEN failStorage(n)
  ELSE restoreConfigurationState(ensurePeers(n, n.votersOld \cup n.votersNew))

\* What remains of a node whose store cannot be opened.
Unopened(i, d) == failStorage([NewNodeWithStore(i, d) EXCEPT !.term = d.term, !.vote = d.vote])

NewRecoveredNode(i, disk) ==
  IF OpenRefuses(disk) THEN Unopened(i, disk)
  ELSE RecoverConfiguration(Recover(i, Opened(disk)))

=============================================================================
