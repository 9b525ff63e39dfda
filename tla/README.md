# Promtact in TLA+

A verification project for Promtact: a Raft core written for deterministic simulation, the
key-value service built on it, the durable storage below it, the simulation engine that drives it
and the Paxos example that comes with the engine. The modules translate the Go sources under
`src/`; TLC checks small instances of them, and TLAPS proves the properties that matter most for
every value of the constants.

## The system

| Part | Source | State | Operations | What it must guarantee |
|---|---|---|---|---|
| Raft node | `raft/` | role, term, vote, log with compacted base, commit, applied, progress of peers, voter masks, read barrier, durable disk | `Tick`, `Step` (ten message types), `Propose*`, `TransferLeadership`, `StartReadIndex`, `ApplyEntries`, `Compact`, recovery | one leader per term, logs match, what is committed stays, reads are fresh, what was acknowledged survives a crash |
| Raft storage | `storage/raftstore`, `raftwal`, `wal`, `snapshot` | one file of records, one snapshot file that is replaced, and their image in memory | `SaveHardState`, `Append`, `SaveSnapshot`, `CompactLog`, `Open` | a call that has returned is durable, a crash leaves what some prefix of the writes made, and that opens again |
| io_uring device | `storage/uring`, `uringwal` | submission and completion queues, buffers, requests in flight, blocks | `Append`, `Sync`, `Open` | a `Sync` that returns nil is durable |
| Key-value machine | `statemachine/machine.go` | values, last request of each client | `Apply`, `Cached`, `Get`, `Snapshot`, `Restore` | a request takes effect once |
| Server | `server/server.go` | node, machine, waiters, reads | the event loop: message, request, tick; `Open` | the machine follows the log, answers are linearizable, one answer per call |
| Simulation engine | `dst/` | virtual time, event heap, random stream, faults | `Step`, `Collect`, `Isolate` | deliveries follow a total order; a fault changes nothing but what it drops |
| Paxos example | `examples/paxos` | acceptor and proposer of each node | `Propose`, `Tick`, `Step` | one value is chosen |

The server calls the node; the node calls the store before it answers; the engine (in simulations)
or the network (in production) carries messages between nodes. The modules follow these lines.

## Modules

| Module | Models | How state and actions correspond |
|---|---|---|
| `RaftElection` | elections of `raft/node.go` | one variable per field of `Node` that matters to elections, one action per handler; logs are abstracted to free Booleans, so every result holds for every log |
| `RaftElectionProofs` | theorems on it | |
| `RaftDisk` | what a node has on its disk | each call of the store is what it accepts and the disk it leaves; the operators on logs are shared by nodes, disks and stores |
| `RaftNode` | all of `raft/node.go` and `recover.go` | a node is a record; every method is an operator from a node to a node, with the names of the code. `io` counts the writes that will still succeed, so a handler stops at the write that fails |
| `RaftCluster` | nodes and a network | each action is one iteration of `server.loop` around one method call. `net` is the set of all messages ever sent: one that is never received was lost, one received twice was repeated, and order is free |
| `RaftNodeProofs`, `RaftCallProofs`, `RaftClusterProofs` | theorems on them | what each method does to a node's election state; the refinement of `RaftElection` |
| `RaftTimely` | a cluster whose network becomes timely | rounds as in `Engine.Step` without loss |
| `StateMachine`, `RaftServer` | `statemachine`, `server` | an action is one iteration of the event loop: an event, then `apply`, compaction, reads and the messages that go out. `Open` replays the log |
| `StableDisk` | what `RaftNode` takes for granted of its store | the disk changes by one write of `RaftDisk` at a time |
| `RaftStore` | the four storage packages | each system call is a step of its own; `call` is the call under way. Implements `StableDisk` |
| `RaftStoreProofs` | theorems on it | |
| `UringDevice` | `uring`, `uringwal` | the thread's steps of `submitAndWait`, and the kernel as an external actor that takes a submission, carries it out later and posts a completion |
| `UringProofs` | theorems on it | |
| `DstSchedule` | what the engine promises | messages in flight are a set, and a scan finds the next one |
| `DstEngine` | `dst/engine.go`, `dst/inject.go` | the binary heap as a sequence, its loops as functions of the number of rounds left. Implements `DstSchedule` |
| `DstEngineProofs` | theorems on both | |
| `Paxos` | `examples/paxos` | a node is a record as in `RaftNode` |
| `PaxosProofs` | theorems on it | |
| `MC*` | instances for TLC | values of the constants, scenarios, bounds |

Refinements tie the layers together. As long as no membership change may be asked for,
`RaftCluster` implements `RaftElection` (`ImplementsElection`, also proved), so what is proved of
elections holds of whole nodes. `RaftStore`
implements `StableDisk` (`ImplementsDisk`, also proved; for as long as no process is killed
between a rename and the sync of its directory where the power may be lost as well), which is written with the operators of
`RaftDisk` that `RaftNode` writes with: what `RaftCluster` and `RaftServer` show of crashes rests
on a disk that the files really provide. `DstEngine` implements `DstSchedule`
(`ImplementsSchedule`, also proved), of which the order of deliveries is proved.

Definitions whose name ends in an underscore and a word (`onVote_unsaved`) are slips: plausible
mistakes in the definition after them, kept to show that each property notices one.

## Runs

Distinct states and times are those of TLC with two workers.

| Run | Configuration | What it checks |
|---|---|---|
| `election` | `MCRaftElection`, 3 servers, 2 terms, at most 12 messages | type correctness, one leader per term, one vote per term across crashes, pre-vote majorities, and the durable hard state, all of which are also proved; `MCRaftElectionInductive.cfg` checks the two inductive invariants of the proofs on the same instance |
| `cluster_safety` | `MCRaftSafety`, 3 nodes, nine scenarios, 102,000 states | election safety, log matching, leader completeness, agreement on commits and on voters, what was accepted is durable, recovery, fresh reads, no refusal of legal messages, committed entries are never rewritten, refinement of `RaftElection` (proved as well, and with it election safety, where no membership change is asked for) |
| `catch_up` | `MCTimelyCatchUp`, 29,000 states | liveness: every log catches up and is committed |
| `service` | `MCServerService`, 3 servers, 7 calls | machine against log, writes exactly once, linearizable reads, one answer per call |
| `server_restart` | `MCServerRestart`, 1 server that compacts and restarts between any two requests | the machine after `Open` is the one the log describes, and `Open` accepts every log |
| `paxos` | `MCPaxos`, 3 proposers, 2 rounds each, at most 12 messages | one value chosen, decisions are right, histories monotonic, one acceptance per proposal, all of which are also proved; `MCPaxosInductive.cfg` checks the inductive invariants of the proofs on the same instance |
| `engine` | `MCDstEngine`, three setups, 560,000 states | the heap delivers what a linear scan would, faults do not shift the schedule; both are also proved |
| `storage` | `MCRaftStore`, three worlds, 955,000 states | refinement of `StableDisk`, memory against disk, when `Open` refuses, fences backed by a snapshot, damage refused, nothing durable erased, all of which are also proved; `MCStoreInductive.cfg` checks the inductive invariant of the proofs |
| `uring` | `MCUringDevice`, 6 records, 3 crashes, counters modulo 4, 57,000 states | a `Sync` that returns nil is durable, crashes leave a log without gaps unless blocks of an earlier process were still unsynced, no spurious failure, every `Sync` returns; all but the last are also proved, and `MCUringInductive.cfg` checks the inductive invariant of the proofs |
| `snapshot_crash` | `MCRaftSnapshotCrash` | violated: see below |
| `catch_up_conflict` | `MCTimelyConflict` | violated: see below |
| `server_snapshot` | `MCServerSnapshot` | violated: see below |

### Disagreements

Three runs end with a counterexample that the source confirms.

* `snapshot_crash`. `onInstallSnapshot` saves the leader's snapshot and then fences the WAL. If
  the process stops in between and the snapshot lies beyond the local log, `raftstore.Open`
  returns "snapshot exceeds WAL last index" on every start, although its comment says that this
  crash is completed there.
* `catch_up_conflict`. A follower that rejects an append reports its own last index, and
  `onAppendResponse` ignores a response whose index is beyond the leader's log. A follower with a
  longer conflicting log is never backed off, on a timely network either.
* `server_snapshot`. A running follower that installs a snapshot moves `Applied` forward and keeps
  its old machine until it is restarted.

Further configurations show behaviours that a property rules out and that need a combination the
passing runs do not contain, or that their properties name as an exception. Each is the note of a
hazard in `PROJECT.json`.

| Configuration | Violates | Behaviour |
|---|---|---|
| `MCRaftStaleSnapshot` | `CommittedVotersAgree` | a snapshot sent before a membership change arrives after it and takes the voters back |
| `MCRaftAlone` | `PendingUncommitted` | with one voter, `ProposeJoint` marks an entry as pending that is already committed |
| `MCTimelyResent` | `CatchesUp` | a leader resends a snapshot for ever |
| `MCServerReopen` | `Reopens` | a request that is committed after its client's next one makes the replay of `Open` fail |
| `MCServerReadRetry` | `ReadsLinearizable` | a retried read is confirmed by an acknowledgement of the first attempt |
| `MCServerAbandoned` | `RetriesUnderWay` | waiters of an entry that was lost swallow the retries of its request |
| `MCStoreReadError` | `NothingErased` | `DurableBytes` returns nil on a read error; if only the first of its two calls in `wal.Open` fails, the log is truncated to nothing |
| `MCStoreUnsyncedDirectory` | `FenceOnDisk` | a kill between rename and directory sync, a restart that fences the WAL, and a power loss that takes the rename back |
| `MCUringReopened` | `DurableSurvives` | after a kill between write and fsync, the reopened device reports the block as durable without a sync |
| `MCUringGap` | `NeverRefused` | after a kill between write and fsync and another write by the reopened device, a power loss keeps the later block without the earlier one, and `wal.Recover` refuses the log |

## Bounds

Every bound is a named constant or a field of a scenario. They bound terms, log indices, messages
sent, crashes, records and calls, and never what a handler does.

* An election of three nodes takes ten messages, so runs that are about something later start in
  a state that the model itself has computed: a script of calls and of rounds in which messages are
  delivered (`StartState` in `MCRaftCluster` and `MCRaftServer`). Such a state is reachable by
  construction. `Elections`, and all of `election`, begin with fresh nodes.
* The scenarios of `cluster_safety` are chosen to contain the hard cases: two leaders in different
  terms with entries at the same index, a candidate that lacks a committed entry, an entry of an
  earlier term that a majority holds while a node with another entry in its place may still be
  elected (`OldTerm`, the reason why a leader commits by counting only entries of its own term;
  it goes to term 4, the others to term 2), the first or the
  second write of a handler failing, a vote under a joint configuration, a read at a leader that is
  being deposed, and a snapshot for a node that lags.
* `storage` has room for four records: an entry, a hard state, a fence and one record after it, or
  an entry that is overwritten. With three crashes a kill, a power loss after the restart and a
  crash during the recovery from that can follow each other.
* `engine` has five messages in flight at once, a heap of three levels in which both children and
  a tie matter, or up to two messages sent by any nodes after each delivery.
* `uring` appends six records, which is twelve requests, while the counters wrap after four. With
  three crashes a kill, a power loss of what the next process did and another crash can follow each
  other.

Deadlock is not checked where the system may stop: bounds on rounds, records or steps are used up,
or a store has refused to open.

## Fairness

* `catch_up` and `catch_up_conflict`: a leader's heartbeat timer fires again and again, and a
  timely network delivers what was sent. `WF_due(Progress)` is weak fairness of `TimelyStep`: every
  step of it changes `due`, and `Progress` says what it does to `due`. It is written with the small
  variable because TLC evaluates `ENABLED` in every state. Elections are not fair, and no timer of a
  follower fires once the network is timely.
* `uring`: a `Sync` that was called goes on, is not interrupted by signals for ever, and the kernel
  completes what it has taken. Nothing makes a caller append or sync.

## Proofs

| Theorem | Module | Statement |
|---|---|---|
| `TypeCorrect` | `RaftElectionProofs` | `Spec => []TypeOK` |
| `ElectionSafe` | `RaftElectionProofs` | `Spec => []ElectionSafety`: at most one server ever acts as leader of a term |
| `VotesOnce` | `RaftElectionProofs` | `Spec => []VoteOnce`: no server grants two votes in a term, restarts included |
| `HardStateKept` | `RaftElectionProofs` | `Spec => HardStateNeverRegresses` |
| `TermsNeedMajority` | `RaftElectionProofs` | `Spec => []TermNeedsPreVoteMajority` |
| `ClusterInvariant` | `RaftClusterProofs` | `Spec => [](scene.configs = {} => ClusterInv)` |
| `ClusterImplementsElection` | `RaftClusterProofs` | `Spec => ImplementsElection`: every call into a node is an election step or none |
| `ClusterElects` | `RaftClusterProofs` | `Spec /\ scene.configs = {} => Election!Spec`: a behaviour of the cluster is one of `RaftElection` |
| `ClusterElectionSafe` | `RaftClusterProofs` | `Spec => [](scene.configs = {} => ElectionSafety)` of whole nodes |
| `ClusterVotesOnce` | `RaftClusterProofs` | `Spec => [](scene.configs = {} => Election!VoteOnce)` |
| `ClusterTermsNeedMajority` | `RaftClusterProofs` | `Spec => [](scene.configs = {} => Election!TermNeedsPreVoteMajority)` |
| `ClusterHardStateKept` | `RaftClusterProofs` | `Spec /\ scene.configs = {} => Election!HardStateNeverRegresses` |
| `EngineImplementsSchedule` | `DstEngineProofs` | `Spec => ImplementsSchedule`: the heap always delivers what a scan for the earliest message would |
| `EngineOrderly` | `DstEngineProofs` | `Spec => []Orderly`: deliveries are in the order of their times, ties in the order of sending, and each at its time |
| `EngineFaultsDoNotShift` | `DstEngineProofs` | `Spec => []FaultsDoNotShift`: a fault that drops messages moves no other message |
| `ChoiceUnique` | `PaxosProofs` | `Spec => []SingleChoice`: no two values are accepted by quorums |
| `DecisionRight` | `PaxosProofs` | `Spec => []DecidedChosen`: what a proposer reports as decided is chosen |
| `HistoryOrdered` | `PaxosProofs` | `Spec => []HistoryMonotonic` |
| `AcceptancesDistinct` | `PaxosProofs` | `Spec => []AcceptedOnce` |
| `DurableNeverErased` | `RaftStoreProofs` | `Spec => NothingErased`: no step removes a durable record |
| `DamageAlwaysRefused` | `RaftStoreProofs` | `Spec => []DamageRefused` |
| `StoreInvariant` | `RaftStoreProofs` | `Spec => []StoreInv` |
| `MemoryAlwaysOnDisk` | `RaftStoreProofs` | `Spec => []MemoryMatchesDisk` |
| `OpenAlwaysAgrees` | `RaftStoreProofs` | `Spec => []OpenAgrees` |
| `FenceAlwaysBacked` | `RaftStoreProofs` | `Spec => []FenceBacked`: only a kill between rename and directory sync leads to a fence beyond the snapshot |
| `StoreImplementsDisk` | `RaftStoreProofs` | `Spec => ImplementsDisk`: the files are the disk of `RaftNode` until such a kill |
| `AckedStableAlways` | `UringProofs` | `Spec => []AckedStable`: what a `Sync` has acknowledged is durable |
| `OpensAgainAlways` | `UringProofs` | `Spec => OpensAgain`: a crash leaves a log without gaps, unless the process had found unsynced blocks when it opened the file |
| `NoSpuriousFailureEver` | `UringProofs` | `Spec => []NoSpuriousFailure` |

They hold for every finite non-empty set of servers and every bound on terms, with any loss,
repetition and reordering of messages, any crashes and any failing writes; for the engine, with any
set of nodes, any delays, faults and number of messages; for Paxos, with any number of nodes, values
and rounds, and any loss, delay and reordering; for the store, with any number of records, terms,
indices, crashes and failing writes; for the ring, with any number of entries, records and crashes.
The assumptions are those the modules name: `Server` is finite, non-empty and does not contain
`Nil`; `N` is a positive number and `Nil` is no value of a client, and no snapshot; the bounds and
set-ups of the engine are well formed (`EngineAssumption`); the modulus of the ring's counters is a
multiple of twice the entries. The code keeps the nodes a proposer has heard from, and the voters of
a Raft node, in a 64-bit mask, so the theorems speak of the code for at most 64 nodes.

*Elections.* `ElectionSafety` is not inductive: a step that makes a second leader is only excluded
by what the votes say. `ElectionInv` adds that memory and disk agree on term and vote, that a vote
on the network is still its voter's durable vote or belongs to a term that the voter has durably
left, that a candidate counts only votes that were cast, and that a leader, and the sender of every
append, had a majority of them. Two majorities share a voter, and that voter's votes are one. Each
handler is one step of the proof, and a write that fails in it is a case of its own.

*Pre-votes.* `PreVoteInv` says that every term that is durable anywhere, or that a message which can
raise a term carries, was opened by a majority of pre-votes or by a transfer, and that a node
counts only pre-votes of its present round. The set of pre-voters only grows, because `net` does.

*Whole nodes.* `RaftElection` forgets logs, commits, snapshots and reads, and `RaftClusterProofs`
shows that nothing is lost by that: every method of `Node` moves the election state as an action of
`RaftElection` does, or leaves it alone. It needs `ClusterInv`: between two calls term and vote in
memory are those on disk, a node that has failed follows, no log, disk, snapshot or message holds a
membership change (`PlainNode`, `PlainMessage`), and no round of elections goes beyond `MaxTerm`.
`RaftNodeProofs` has one lemma per method of a node. It says what the method does to role, term,
vote, the masks, the disk and the messages that go out, also where one of its writes fails
(`Failed`). `RaftCallProofs` and `RaftClusterProofs` turn each into a call that is `Sound`: what it
leaves keeps the invariant (`Settled`), and the step is an election step or none (`Implemented`).
`StepSound` covers the ten message types, after the prologue that may enter a newer term; a handler
that fails after the prologue's write has the newer term on disk, which `RaftElection` allows for. A
snapshot is seen as an append, and its response as that of an append (`Seen`). `LeadsSeen` then
carries election safety over: a sender of a snapshot leads its term as a sender of an append does.
The hypothesis `scene.configs = {}` is that nobody asks for other voters. It is needed for the
refinement, since `RaftElection` has one set of voters; under membership changes election safety is
model-checked only.

*Heap and schedule.* A loop of the engine (`siftUp`, `siftDown`, `heapify`, a step's loop over an
outbox or the queue) is a function of the rounds it has left. `LoopRuns` and `LoopRunsWithin` say
that such a function exists, and that a set which each round keeps contains the result; well-founded
induction on naturals is used once, for that. While `siftUp` runs, the queue is a heap but for one
child (`Rising`); while `siftDown` runs, but for one parent, whose own parent is still before its
children (`Falling`); both only permute the queue, so no event is lost or repeated. `heapify`
extends the part that is a heap one root at a time (`HeapFrom`), and `RootFirst` concludes that the
root is before everything else, which is what the scan of `DstSchedule` looks for. `EngineInv` says
that the queue is a heap of distinct events with numbers up to `seq`, and each action of the engine
is then an action of the schedule on the set of its events. `InOrder` needs that sequence numbers
are unique and not above `seq`, and that nothing delivered was due in the future: a new message is
due no earlier than now and has a higher number than everything before it, so it never sorts before
what has been delivered. `Punctual` follows from the condition on which the loop of `Step` ends. For
`FaultsDoNotShift`, `Twin` relates the engine with faults to the one without: same clock and as many
draws; a message in flight in the first is in flight in the second with the same delay; and one that
is in flight only in the second was discarded by a fault or is due in the step under way. Like the
property, it is about runs in which nothing is sent after a delivery (`answers = 0`): what a node
sends because of a message is missing too where the message was discarded.

*Paxos.* `SingleChoice` speaks of the past; `PaxosInv` speaks of what may still happen. A number is
closed for a value (`Closed`) when some quorum has promised more without having accepted the value
at that number, and a proposal is safe (`Safe`) when every lower number is closed for every other
value. The invariant says that every proposal of phase two is safe, that a number is proposed by
its owner and with one value, that a promise on its way or counted tells the highest acceptance
below its number, and that the acceptances a proposer has counted were made. `SafeToIssue` is the
heart of it: a quorum of promises closes the numbers above the highest acceptance they report, and
below that the reported proposal, being safe itself, closes the others. Two chosen values would
then need two quorums with no node in common. `AcceptedOnce` needs an invariant of its own
(`OnceInv`): an accept message that is under way has not been taken by its receiver, and a
proposer sends a number once, because it enters phase two of a round once. The lemmas say first
what the handlers return and what survives any step (`StepKeeps`); then there is one per handler of
an acceptor and one per operation of a proposer.

*Log of the store.* `LogInv` holds in every world, kills and power losses in turn included. It says
that the durable records are numbered and replay without an error, that at most one record is
pending and may follow them, that the memory of an open store is what the replay computes, and that
a damaged record is not the one that belongs in its place. `Replay` is a recursive function;
`SetInduction` (a set of naturals that contains 0 and successors is all of them) stands in for the
induction principle, and `ReplayAppend` reduces a longer log to the shorter one and its last
record. `Grown` is what one record more makes of a replay, and `RememberedGrows` that the memory
follows it. From there each system call is one lemma. `NothingErased` is a fact about each step;
`DamageRefused` is a part of the invariant.

*Log and snapshot.* `SnapshotInv` adds which snapshot a crash is sure to leave (`Kept`), that the
WAL is not fenced beyond it, that a fence which is being written is at it, and that between a rename
and the sync of the directory nothing else is under way. One step breaks it: a process is killed
between the two, where a later power loss may take the rename back. The history variable `orphaned`
records that this has happened; the next process takes the rename for durable and fences the WAL at
it (`MCStoreUnsyncedDirectory`). `StoreInv` says that `LogInv` holds and the disk follows the files
in any case, and `SnapshotInv` until then, and each of the theorems names the exception in the
property it proves. There is none for a world without power losses, where a rename stays, or
without kills, where no process takes over what another has left. For the refinement,
`RecordIsWrite` and `ImageIsWrite` show that a record that becomes durable, or a snapshot that takes
the place of another, is one write of `StableDisk`; every step makes at most one of the two happen
(`PowerLossSnapshot` in particular: never both).

*Ring.* `DeviceInv` says that at most one request is outstanding, in one of the places where it can
be (queued, taken, posted), that the counters differ by what is outstanding, modulo the wrap, and
that the blocks of the file are the records the device has counted, the last of them perhaps not
synced. A completion is therefore always that of the request that waits, and what a `Sync` has
acknowledged lies below what a crash may take. A process writes a block only when all it wrote
before is stable, so the unsynced blocks it has written itself are at most one, the last (`Lives`).
With what earlier processes left, which `Open` reads and does not sync, there may be several, and
`OpensAgain` exempts a power loss then: `LeavesNoGap` shows that with one, whether it is kept or
not, the file has no gap.

What is only model-checked: everything about logs, commits, membership, snapshots and reads of a
whole cluster, election safety while its membership changes, and the server, which rests on them;
and all liveness properties, because the proof system does not reason about `ENABLED` and fairness.

## Modelling notes

* Two checks of the recovery are left out because no disk reaches them: an empty voter set
  (`recover.go:51`), since a snapshot records the voters of a running node, and entries whose masks
  do not belong to their kind (`node.go:684` to `node.go:703`), since `ProposeJoint`, `ProposeFinal`
  and the other operations that make entries never write such a one.
* `leaderActive` is `Leader # 0`, in all states the code reaches. `RaftElection` has a fixed set of
  voters.
* A write that fails after it has become durable, followed by fail-stop, equals a handler that
  completes, whose messages are lost, and a crash. So a failed write leaves the old disk.
* `CompactAction` compacts at `Applied = Commit`, as every caller does.
* Read contexts are used once in `RaftCluster`; in `RaftServer` they come from `contextID`, with the
  exclusive-or of client and request as an addition, which is the same below the width of a request.
* A server handles a call at any time. A retry is another call with the same request; a timeout of
  the client and a full queue only mean that an answer is not read or a call is not handled, and
  need no action. The storage does not fail in `RaftServer`; `RaftCluster` covers that.
* A key that is not found is the value `Nil`. Status requests and requests with zero identifiers do
  not touch the state and are left out.
* In `DstEngine` the random stream is a choice at each call. The engine with faults and the one
  without are given the same draws, which is sound as long as they have used as many, and
  `FaultsDoNotShift` checks that.
* In `RaftStore` a record is one element of the file; bytes that are not a whole record are
  `partial`, and whatever is written behind them does not decode. A failed fsync leaves the data
  pending, and a later one may succeed. A partial record at the end may also vanish in a power loss.
  The worlds have kills, or power losses, or both in turn; where the power may be lost, only what
  is synced counts as durable.
* In `UringDevice` an aligned block is written as a whole or not at all, and a request in flight when
  a process ends is carried out or given up before the next process opens the file. A power loss
  keeps or loses each block that is not synced, whatever becomes of the others, and a block that is
  lost below one that is kept reads as zeros. The file ends with a block that is kept, because a
  write extends it together with its data; on a file system that makes the length durable before
  the data, a single power loss between write and fsync could leave zeros at the end. After an error
  the device is not used again: its user fail-stops.
* In `Paxos` the length of a timeout is abstracted: any tick may be the one that reaches it.

## Not modelled

* `sim`, `dst/raftcluster`, `dst/scenario`: harnesses that drive the modelled nodes with the modelled
  engine. They hold no protocol state, and their invariants are properties here.
* `protocol`: fixed layouts, one message per connection. The network of the models loses, repeats and
  reorders whole messages, which is all that framing can cause.
* `backup`: copies the files of a stopped server; nothing runs beside it.
* `raft/membership.go`, `server/spec.go`: pure predicates and parsing.
* `chaos`, `internal/cli`, `cmd`, `storage/storagetest`, the feature probe and the memory mapping of
  `storage/uring`: tools, tests and system-call plumbing.
* The phantom read of `storage/faultdisk`: a medium that silently returns an older valid image. No
  property of the store can hold on it.
* Retries of a failed `Sync` on the io_uring device, and torn blocks: no caller retries, and the
  device relies on blocks being written whole.
* That a step of the engine ends: with zero delays it does not for nodes that send something after
  every delivery, and the engine does not promise it.
* The liveness of reads at a server (`server.go:222`): the state of a whole cluster of servers with
  client calls is beyond what TLC can search for cycles.
