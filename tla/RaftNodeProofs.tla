--------------------------- MODULE RaftNodeProofs ---------------------------
(****************************************************************************)
(* What the methods of a Raft node do to its election state, as long as no  *)
(* membership change is in its log, on its disk or in a message: n is a     *)
(* node, i its ID, and E the set of the entries there are.                  *)
(****************************************************************************)
EXTENDS RaftNode, WellFoundedInduction, TLAPS

Fields ==
  {"id", "peers", "role", "term", "vote", "leader", "log", "base", "baseTerm", "commit",
   "applied", "voteMask", "preVoteMask", "preVoteTerm", "next", "match", "faulted",
   "readContext", "readAckMask", "readIndex", "readReady", "snapshot", "votersOld",
   "votersNew", "pendingConfig", "out", "disk", "io"}

DiskFields == {"term", "vote", "commit", "base", "baseTerm", "log", "snap"}

\* Entries that change no membership, the no-ops among them.
PlainEntries(E) ==
  /\ \A e \in E : e.kind \notin {"Joint", "Final"} /\ e.old = {} /\ e.new = {}
  /\ \A t \in Nat : Noop(t) \in E

\* A snapshot of a cluster whose voters never changed, or none.
PlainSnapshot(s) ==
  /\ s.index \in Nat /\ s.new = {}
  /\ s.old = Server \/ (s.old = {} /\ s.index = 0)

PlainDisk(d, E) ==
  /\ DOMAIN d = DiskFields
  /\ d.term \in Nat /\ d.commit \in Nat /\ d.base \in Nat /\ d.log \in Seq(E)
  /\ PlainSnapshot(d.snap)

PlainNode(n, i, E) ==
  /\ DOMAIN n = Fields
  /\ n.id = i /\ n.peers = Server \ {i}
  /\ n.term \in Nat /\ n.log \in Seq(E)
  /\ n.base \in Nat /\ n.commit \in Nat /\ n.base <= n.commit
  /\ n.next \in [Server -> Nat]
  /\ n.votersOld = Server /\ n.votersNew = {} /\ n.pendingConfig = 0
  /\ PlainSnapshot(n.snapshot)
  /\ PlainDisk(n.disk, E)

\* o has the election state of n, in memory and on disk.
SameMemory(n, o) ==
  /\ o.role = n.role /\ o.term = n.term /\ o.vote = n.vote /\ o.leader = n.leader
  /\ o.preVoteTerm = n.preVoteTerm /\ o.preVoteMask = n.preVoteMask
  /\ o.voteMask = n.voteMask /\ o.faulted = n.faulted

SameState(n, o) ==
  SameMemory(n, o) /\ o.disk.term = n.disk.term /\ o.disk.vote = n.disk.vote

\* o is n after a failed write.
Failed(n, o) ==
  /\ o.role = "Follower" /\ o.term = n.term /\ o.vote = n.vote /\ o.leader = Nil
  /\ o.preVoteTerm = n.preVoteTerm /\ o.preVoteMask = n.preVoteMask
  /\ o.voteMask = n.voteMask /\ o.faulted = TRUE
  /\ o.disk.term = n.disk.term /\ o.disk.vote = n.disk.vote
  /\ o.out = {}

Quiet(n, o) == SameState(n, o) /\ o.out = n.out

SameLog(n, o) == o.log = n.log /\ o.base = n.base /\ o.commit = n.commit

\* What is in memory of term and vote is on disk.
Saved(n) == n.disk.term = n.term /\ n.disk.vote = n.vote

-----------------------------------------------------------------------------
(***************************************************************************)
(* Voters.                                                                 *)
(***************************************************************************)

\* Without membership changes the voters are those the node was built with (VoterMasks).
LEMMA Voters ==
  ASSUME NEW n, NEW i, NEW E, PlainEntries(E), PlainNode(n, i, E),
         NEW last \in Nat, last <= LastIndex(n)
  PROVE  VotersAt(n, last) = [old |-> Server, new |-> {}]
<1>1. ASSUME NEW k \in n.commit + 1 .. last
      PROVE  EntryAt(n, k).kind # "Joint"
  <2>1. n.log \in Seq(E) /\ n.base \in Nat /\ n.commit \in Nat /\ n.base <= n.commit
    BY Zenon DEF PlainNode
  <2>2. PICK len \in Nat : len = Len(n.log) /\ DOMAIN n.log = 1 .. len
    BY <2>1
  <2>3. k - n.base \in 1 .. len
    BY <2>1, <2>2 DEF LastIndex
  <2>4. n.log[k - n.base] \in E
    BY <2>1, <2>2, <2>3
  <2> QED BY Zenon, <2>4 DEF EntryAt, PlainEntries
<1>2. {k \in n.commit + 1 .. last : EntryAt(n, k).kind = "Joint"} = {}
  BY Zenon, <1>1
<1>3. VotersAt(n, last) = VotersOf(n, {})
  BY Zenon, <1>2 DEF VotersAt
<1> QED BY Zenon, <1>3 DEF VotersOf, PlainNode

\* The last index of a log is a natural number (LastIndex).
LEMMA LastIndexType ==
  ASSUME NEW n, NEW i, NEW E, PlainNode(n, i, E)
  PROVE  LastIndex(n) \in Nat /\ n.base <= LastIndex(n) /\ Len(n.log) \in Nat
<1>1. n.log \in Seq(E) /\ n.base \in Nat
  BY Zenon DEF PlainNode
<1>2. PICK len \in Nat : len = Len(n.log)
  BY <1>1
<1> QED BY <1>1, <1>2 DEF LastIndex

\* A quorum is a majority of all servers, and every server is a voter (quorumMask,
\* isVoter).
LEMMA Quorums ==
  ASSUME Server # {}, NEW n, NEW i, NEW E, PlainEntries(E), PlainNode(n, i, E)
  PROVE  /\ \A acked : quorumMask(n, acked) <=> majorityMask(Server, acked)
         /\ \A j : isVoter(n, j) <=> j \in Server
<1>1. effectiveVoters(n) = [old |-> Server, new |-> {}]
  <2>1. LastIndex(n) \in Nat
    BY Zenon, LastIndexType
  <2>2. LastIndex(n) <= LastIndex(n)
    BY <2>1
  <2> QED BY Zenon, <2>1, <2>2, Voters DEF effectiveVoters
<1>2. effectiveVoters(n).old = Server /\ effectiveVoters(n).new = {}
  BY <1>1
<1>3. ASSUME NEW acked
      PROVE  quorumMask(n, acked) <=> majorityMask(Server, acked)
  BY Zenon, <1>2 DEF quorumMask, Majorities
<1> QED BY Zenon, <1>2, <1>3 DEF isVoter, Members

-----------------------------------------------------------------------------
(***************************************************************************)
(* Configurations that are not there.                                      *)
(***************************************************************************)

\* No peer is added that is known already (ensurePeers).
LEMMA PeersKnown ==
  ASSUME NEW n, NEW i, NEW E, PlainNode(n, i, E), NEW mask \in SUBSET Server,
         NEW o, o = ensurePeers(n, mask)
  PROVE  PlainNode(o, i, E) /\ Quiet(n, o) /\ SameLog(n, o)
<1>1. mask \ (n.peers \cup {n.id}) = {}
  BY Zenon DEF PlainNode
<1>2. o = [n EXCEPT !.peers = @ \cup {},
                    !.next = [p \in Server |-> IF p \in {} THEN LastIndex(n) + 1 ELSE @[p]],
                    !.match = [p \in Server |-> IF p \in {} THEN 0 ELSE @[p]]]
  BY Zenon, <1>1 DEF ensurePeers
<1>3. DOMAIN n = Fields /\ n.next \in [Server -> Nat] /\ n.peers = Server \ {i}
  BY Zenon DEF PlainNode
<1>4. /\ DOMAIN o = Fields /\ o.next \in [Server -> Nat] /\ o.peers = Server \ {i}
      /\ o.id = n.id /\ o.votersOld = n.votersOld /\ o.votersNew = n.votersNew
      /\ o.pendingConfig = n.pendingConfig /\ o.snapshot = n.snapshot /\ o.disk = n.disk
  BY <1>2, <1>3 DEF Fields
<1>5. Quiet(n, o) /\ SameLog(n, o)
  BY <1>2, <1>3 DEF Fields, Quiet, SameState, SameMemory, SameLog
<1> QED BY Zenon, <1>4, <1>5 DEF PlainNode, Quiet, SameState, SameMemory, SameLog

\* An entry of the log is a plain one.
LEMMA EntryPlain ==
  ASSUME NEW n, NEW i, NEW E, PlainEntries(E), PlainNode(n, i, E),
         NEW k \in Nat, n.base < k, k <= LastIndex(n)
  PROVE  EntryAt(n, k) \in E /\ ~IsConfig(EntryAt(n, k))
<1>1. n.log \in Seq(E) /\ n.base \in Nat
  BY Zenon DEF PlainNode
<1>2. PICK len \in Nat : len = Len(n.log) /\ DOMAIN n.log = 1 .. len
  BY <1>1
<1>3. k - n.base \in 1 .. len
  BY <1>1, <1>2 DEF LastIndex
<1>4. n.log[k - n.base] \in E
  BY <1>1, <1>2, <1>3
<1> QED BY Zenon, <1>4 DEF EntryAt, PlainEntries, IsConfig

\* A cut leaves no membership change pending (rebuildPendingConfig).
LEMMA NothingPending ==
  ASSUME NEW n, NEW i, NEW E, PlainEntries(E), PlainNode(n, i, E),
         NEW o, o = rebuildPendingConfig(n)
  PROVE  PlainNode(o, i, E) /\ Quiet(n, o) /\ SameLog(n, o)
<1>1. n.base \in Nat /\ n.commit \in Nat /\ n.base <= n.commit
  BY Zenon DEF PlainNode
<1>2. ASSUME NEW k \in n.commit + 1 .. LastIndex(n)
      PROVE  ~IsConfig(EntryAt(n, k))
  <2>1. k \in Nat /\ n.base < k /\ k <= LastIndex(n)
    BY <1>1, LastIndexType
  <2> QED BY Zenon, <2>1, EntryPlain
<1>3. {k \in n.commit + 1 .. LastIndex(n) : IsConfig(EntryAt(n, k))} = {}
  BY Zenon, <1>2
<1>4. o = ensurePeers([n EXCEPT !.pendingConfig = 0], {})
  <2>1. o = ensurePeers([n EXCEPT !.pendingConfig = IF {} = {} THEN 0 ELSE Max({})],
                        UNION {EntryAt(n, k).old \cup EntryAt(n, k).new : k \in {}})
    BY Zenon, <1>3 DEF rebuildPendingConfig
  <2>2. UNION {EntryAt(n, k).old \cup EntryAt(n, k).new : k \in {}} = {}
    BY Zenon
  <2> QED BY Zenon, <2>1, <2>2
<1>5. PICK p : p = [n EXCEPT !.pendingConfig = 0]
  BY Zenon
<1>6. PlainNode(p, i, E) /\ Quiet(n, p) /\ SameLog(n, p)
  BY <1>5 DEF PlainNode, Fields, Quiet, SameState, SameMemory, SameLog
<1>7. PlainNode(o, i, E) /\ Quiet(p, o) /\ SameLog(p, o)
  BY Zenon, <1>4, <1>5, <1>6, PeersKnown
<1> QED BY Zenon, <1>6, <1>7 DEF Quiet, SameState, SameMemory, SameLog

\* Induction over the naturals, for a set: no least number can be missing from it.
LEMMA SetInduction ==
  ASSUME NEW T \in SUBSET Nat, 0 \in T, \A n \in T : n + 1 \in T
  PROVE  \A n \in Nat : n \in T
<1> SUFFICES ASSUME NEW z \in Nat, z \notin T PROVE FALSE
  BY Zenon
<1> DEFINE R == OpToRel(<, Nat)
           U == Nat \ T
<1>1. IsWellFoundedOn(R, Nat)
  BY Zenon, NatLessThanWellFounded
<1> HIDE DEF R
<1>2. PICK x \in U : \A y \in U : ~(<<y, x>> \in R)
  BY Zenon, <1>1, WFMin, U \subseteq Nat, U # {}
<1>3. x # 0 /\ x \in Nat
  BY Zenon
<1>4. x - 1 \in Nat /\ x - 1 + 1 = x
  BY <1>3
<1>5. x - 1 \in U
  BY Zenon, <1>4
<1>6. <<x - 1, x>> \in R
  BY <1>3, <1>4 DEF R, OpToRel
<1> QED BY Zenon, <1>2, <1>5, <1>6

\* A loop none of whose rounds changes anything leaves what it began with.
LEMMA IdleLoop ==
  ASSUME NEW first \in Nat, NEW last \in Nat, first <= last, NEW x, NEW f, f[first] = x,
         \A k \in first + 1 .. last : f[k - 1] = x => f[k] = x
  PROVE  f[last] = x
<1> DEFINE T == {k \in Nat : first + k <= last => f[first + k] = x}
<1>1. 0 \in T
  OBVIOUS
<1>2. ASSUME NEW k \in T PROVE k + 1 \in T
  <2> SUFFICES ASSUME first + k + 1 <= last PROVE f[first + k + 1] = x
    OBVIOUS
  <2>1. k \in Nat /\ f[first + k] = x
    OBVIOUS
  <2>2. first + k + 1 \in first + 1 .. last /\ (first + k + 1) - 1 = first + k
    BY <2>1
  <2> QED BY <2>1, <2>2
<1>3. \A k \in Nat : k \in T
  <2> HIDE DEF T
  <2>1. T \in SUBSET Nat
    BY Zenon DEF T
  <2> QED BY Zenon, <1>1, <1>2, <2>1, SetInduction
<1>4. last - first \in Nat /\ first + (last - first) = last
  OBVIOUS
<1> QED BY <1>3, <1>4

\* Committing plain entries installs no configuration (applyCommittedConfigurations).
LEMMA NothingInstalled ==
  ASSUME NEW n, NEW i, NEW E, PlainEntries(E), PlainNode(n, i, E),
         n = [x \in Fields |-> n[x]], NEW first \in Nat, NEW last \in Nat, n.base < first, last <= LastIndex(n)
  PROVE  applyCommittedConfigurations(n, first, last) = n
<1> DEFINE F(f) == [k \in first - 1 .. last |->
                      IF k < first THEN n ELSE ApplyConfiguration(f[k - 1], k)]
           idle == [k \in first - 1 .. last |-> n]
<1>1. ASSUME NEW k \in first .. last
      PROVE  ApplyConfiguration(n, k) = n
  <2>1. k \in Nat /\ k # 0 /\ n.base < k /\ k <= LastIndex(n)
    <3>1. n.base \in Nat
      BY Zenon DEF PlainNode
    <3>2. LastIndex(n) \in Nat
      BY Zenon, LastIndexType
    <3> QED BY <3>1, <3>2
  <2>2. Installed(n, EntryAt(n, k)) = n
    BY Zenon, <2>1, EntryPlain DEF Installed, IsConfig
  <2>3. ApplyConfiguration(n, k) = [n EXCEPT !.pendingConfig = IF @ = k THEN 0 ELSE @]
    BY Zenon, <2>2 DEF ApplyConfiguration
  <2>4. n.pendingConfig = 0 /\ DOMAIN n = Fields
    BY Zenon DEF PlainNode
  <2> QED BY <2>1, <2>3, <2>4
<1>2. n.base \in Nat /\ first # 0 /\ first - 1 \in Nat
  BY DEF PlainNode
<1>3. CASE last < first
  BY Zenon, <1>3 DEF applyCommittedConfigurations
<1>4. CASE first <= last
  <2>1. idle = F(idle)
    <3>1. ASSUME NEW k \in first - 1 .. last
          PROVE  n = IF k < first THEN n ELSE ApplyConfiguration(idle[k - 1], k)
      <4>1. CASE k < first
        BY Zenon, <4>1
      <4>2. CASE ~(k < first)
        <5>1. k \in first .. last /\ k - 1 \in first - 1 .. last
          BY <1>2, <4>2
        <5>2. idle[k - 1] = n
          BY Zenon, <5>1
        <5> QED BY Zenon, <1>1, <5>1, <5>2
      <4> QED BY Zenon, <4>1, <4>2
    <3> QED BY Zenon, <3>1
  <2> DEFINE f == CHOOSE g : g = F(g)
  <2>2. f = F(f)
    BY Zenon, <2>1
  <2>3. applyCommittedConfigurations(n, first, last) = f[last]
    BY <1>3, <1>4 DEF applyCommittedConfigurations
  <2> HIDE DEF f
  <2>4. f[first - 1] = n
    BY <1>2, <1>4, <2>2
  <2>5. ASSUME NEW k \in first .. last, f[k - 1] = n
        PROVE  f[k] = n
    <3>1. k \in first - 1 .. last /\ ~(k < first)
      BY <1>2
    <3>2. f[k] = ApplyConfiguration(f[k - 1], k)
      BY Zenon, <2>2, <3>1
    <3> QED BY Zenon, <1>1, <2>5, <3>2
  <2>6. PICK before \in Nat : before = first - 1 /\ before <= last /\ before + 1 = first
    BY <1>2, <1>4
  <2>7. \A k \in before + 1 .. last : f[k - 1] = n => f[k] = n
    BY Zenon, <2>5, <2>6
  <2>8. f[before] = n
    BY Zenon, <2>4, <2>6
  <2> HIDE DEF F
  <2>9. f[last] = n
    BY <2>6, <2>7, <2>8, IdleLoop
  <2> QED BY Zenon, <2>3, <2>9
<1> QED BY <1>2, <1>3, <1>4

-----------------------------------------------------------------------------
(***************************************************************************)
(* Stable storage.                                                         *)
(***************************************************************************)

\* A node that fail-stops keeps its election state but for role and leader, and sends
\* nothing (failStorage).
LEMMA FailStops ==
  ASSUME NEW n, NEW i, NEW E, PlainNode(n, i, E), NEW o, o = failStorage(n)
  PROVE  PlainNode(o, i, E) /\ Failed(n, o)
<1>1. DOMAIN n = Fields
  BY Zenon DEF PlainNode
<1>2. o = [n EXCEPT !.faulted = TRUE, !.role = "Follower", !.leader = Nil, !.out = {}]
  BY Zenon DEF failStorage
<1>3. Failed(n, o)
  BY <1>1, <1>2 DEF Failed, Fields
<1> QED BY <1>1, <1>2, <1>3 DEF PlainNode, Fields

\* A write fails and stops the node, or the disk is the new one (StableStore).
LEMMA Writes ==
  ASSUME NEW n, NEW i, NEW E, PlainNode(n, i, E), NEW accepted, NEW disk,
         accepted => PlainDisk(disk, E), NEW o, o = Write(n, accepted, disk)
  PROVE  /\ PlainNode(o, i, E)
         /\ \/ Failed(n, o)
            \/ SameMemory(n, o) /\ SameLog(n, o) /\ o.out = n.out /\ o.disk = disk
<1>1. CASE ~accepted \/ n.io = 0
  BY Zenon, <1>1, FailStops DEF Write
<1>2. CASE ~(~accepted \/ n.io = 0)
  <2>1. o = [n EXCEPT !.disk = disk, !.io = @ - 1]
    BY Zenon, <1>2 DEF Write
  <2>2. DOMAIN n = Fields
    BY Zenon DEF PlainNode
  <2>3. SameMemory(n, o) /\ SameLog(n, o) /\ o.out = n.out /\ o.disk = disk
    BY <2>1, <2>2 DEF SameMemory, SameLog, Fields
  <2>4. /\ DOMAIN o = Fields /\ o.id = n.id /\ o.peers = n.peers /\ o.next = n.next
        /\ o.votersOld = n.votersOld /\ o.votersNew = n.votersNew
        /\ o.pendingConfig = n.pendingConfig /\ o.snapshot = n.snapshot
    BY <2>1, <2>2 DEF Fields
  <2>5. PlainDisk(disk, E)
    BY Zenon, <1>2
  <2> QED BY Zenon, <2>3, <2>4, <2>5 DEF PlainNode, SameMemory, SameLog
<1> QED BY Zenon, <1>1, <1>2

\* Term, vote and commit index (persistHardState).
LEMMA SavesHardState ==
  ASSUME NEW n, NEW i, NEW E, PlainNode(n, i, E), NEW t \in Nat, NEW v, NEW c \in Nat,
         NEW o, o = SaveHardState(n, t, v, c)
  PROVE  /\ PlainNode(o, i, E)
         /\ \/ Failed(n, o)
            \/ /\ SameMemory(n, o) /\ SameLog(n, o) /\ o.out = n.out
               /\ o.disk.term = t /\ o.disk.vote = v
<1> DEFINE saved == HardStateSaved(n.disk, t, v, c)
<1>1. PlainDisk(n.disk, E)
  BY Zenon DEF PlainNode
<1>2. PlainDisk(saved, E) /\ saved.term = t /\ saved.vote = v
  BY <1>1 DEF PlainDisk, HardStateSaved, DiskFields
<1> HIDE DEF saved
<1>3. o = Write(n, HardStateAccepted(n.disk, t, v, c), saved)
  BY Zenon DEF SaveHardState, saved
<1> QED BY <1>2, <1>3, Writes

\* An entry (StableStore.Append).
LEMMA StoresEntry ==
  ASSUME NEW n, NEW i, NEW E, PlainNode(n, i, E), NEW k \in Nat, NEW e \in E,
         NEW o, o = StoreAppend(n, k, e)
  PROVE  PlainNode(o, i, E) /\ (Failed(n, o) \/ (Quiet(n, o) /\ SameLog(n, o)))
<1> DEFINE d == n.disk
           stored == EntryStored(d, k, e)
<1>1. PlainDisk(d, E)
  BY Zenon DEF PlainNode
<1>2. ASSUME EntryAccepted(d, k)
      PROVE  PlainDisk(stored, E) /\ stored.term = d.term /\ stored.vote = d.vote
  <2> HIDE DEF d
  <2>1. d.log \in Seq(E) /\ d.base \in Nat
    BY Zenon, <1>1 DEF PlainDisk
  <2>2. PICK len \in Nat : len = Len(d.log)
    BY <2>1
  <2>3. (k - 1) - d.base \in 0 .. len
    BY <1>2, <2>1, <2>2 DEF EntryAccepted, LastIndex
  <2>4. UpTo(d, k - 1) \in Seq(E)
    BY <2>1, <2>2, <2>3 DEF UpTo
  <2>5. Append(UpTo(d, k - 1), e) \in Seq(E)
    BY <2>4
  <2> QED BY <1>1, <2>5 DEF PlainDisk, EntryStored, DiskFields
<1> HIDE DEF stored
<1>3. o = Write(n, EntryAccepted(d, k), stored)
  BY Zenon DEF StoreAppend, stored
<1>4. /\ PlainNode(o, i, E)
      /\ \/ Failed(n, o)
         \/ EntryAccepted(d, k) /\ SameMemory(n, o) /\ SameLog(n, o) /\ o.out = n.out /\ o.disk = stored
  <2>1. CASE EntryAccepted(d, k)
    <3>1. PlainDisk(stored, E)
      BY Zenon, <1>2, <2>1
    <3> HIDE DEF d
    <3>2. /\ PlainNode(o, i, E)
          /\ \/ Failed(n, o)
             \/ SameMemory(n, o) /\ SameLog(n, o) /\ o.out = n.out /\ o.disk = stored
      BY <1>3, <3>1, Writes
    <3> QED BY Zenon, <2>1, <3>2
  <2>2. CASE ~EntryAccepted(d, k)
    <3>1. o = failStorage(n)
      BY Zenon, <1>3, <2>2 DEF Write
    <3> QED BY Zenon, <3>1, FailStops
  <2> QED BY Zenon, <2>1, <2>2
<1> QED BY Zenon, <1>2, <1>4 DEF Quiet, SameState

\* What follows a snapshot in a log is a log (CompactLog, Compact).
LEMMA SuffixPlain ==
  ASSUME NEW r, NEW E, r.log \in Seq(E), r.base \in Nat, NEW k \in Nat, HasIndex(r, k)
  PROVE  After(r, k) \in Seq(E)
<1>1. PICK len \in Nat : len = Len(r.log)
  OBVIOUS
<1>2. (k - r.base) + 1 \in 1 .. len + 1
  BY <1>1 DEF HasIndex, LastIndex
<1> QED BY <1>1, <1>2 DEF After

\* A snapshot and the fence that follows it (SaveSnapshotAndCompact).
LEMMA SavesSnapshot ==
  ASSUME NEW n, NEW i, NEW E, PlainNode(n, i, E), n.faulted = FALSE,
         NEW snap, PlainSnapshot(snap), NEW o, o = SaveSnapshotAndCompact(n, snap)
  PROVE  PlainNode(o, i, E) /\ (Failed(n, o) \/ (Quiet(n, o) /\ SameLog(n, o)))
<1>1. PICK d : d = n.disk
  BY Zenon
<1>2. PlainDisk(d, E)
  BY Zenon, <1>1 DEF PlainNode
<1>3. PICK p : p = SaveSnapshot(n, snap)
  BY Zenon
<1>4. PICK saved : saved = SnapshotSaved(d, snap)
  BY Zenon
<1>5. PlainDisk(saved, E) /\ saved.term = d.term /\ saved.vote = d.vote
  BY <1>2, <1>4 DEF PlainDisk, SnapshotSaved, DiskFields
<1>6. p = Write(n, SnapshotAccepted(d, snap), saved)
  BY Zenon, <1>1, <1>3, <1>4 DEF SaveSnapshot
<1>7. /\ PlainNode(p, i, E)
      /\ \/ Failed(n, p)
         \/ SameMemory(n, p) /\ SameLog(n, p) /\ p.out = n.out /\ p.disk = saved
  BY <1>5, <1>6, Writes
<1>8. o = CompactLog(p, snap)
  BY Zenon, <1>3 DEF SaveSnapshotAndCompact
<1>9. CASE Failed(n, p)
  BY Zenon, <1>7, <1>8, <1>9 DEF CompactLog, Failed
<1>10. CASE SameMemory(n, p) /\ SameLog(n, p) /\ p.out = n.out /\ p.disk = saved
  <2>1. PICK fenced : fenced = Compacted(saved, snap)
    BY Zenon
  <2>2. PICK log : log = IF HasIndex(saved, snap.index) /\ TermAt(saved, snap.index) = snap.term
                           THEN After(saved, snap.index) ELSE <<>>
    BY Zenon
  <2>3. log \in Seq(E)
    <3>1. <<>> \in Seq(E)
      OBVIOUS
    <3> QED BY Zenon, <1>5, <2>2, <3>1, SuffixPlain DEF PlainDisk, PlainSnapshot
  <2>4. fenced = [saved EXCEPT !.base = snap.index, !.baseTerm = snap.term, !.log = log]
    BY Zenon, <2>1, <2>2 DEF Compacted
  <2>5. PlainDisk(fenced, E) /\ fenced.term = saved.term /\ fenced.vote = saved.vote
    BY <1>5, <2>3, <2>4 DEF PlainDisk, PlainSnapshot, DiskFields
  <2>6. o = Write(p, FenceAccepted(saved, snap), fenced)
    BY Zenon, <1>8, <1>10, <2>1 DEF CompactLog, SameMemory
  <2>7. /\ PlainNode(o, i, E)
        /\ \/ Failed(p, o)
           \/ SameMemory(p, o) /\ SameLog(p, o) /\ o.out = p.out /\ o.disk = fenced
    BY <1>7, <2>5, <2>6, Writes
  <2>8. p.disk.term = n.disk.term /\ p.disk.vote = n.disk.vote
    BY Zenon, <1>1, <1>5, <1>10
  <2>9. CASE Failed(p, o)
    BY Zenon, <1>10, <2>7, <2>8, <2>9 DEF Failed, SameMemory
  <2>10. CASE SameMemory(p, o) /\ SameLog(p, o) /\ o.out = p.out /\ o.disk = fenced
    <3>1. o.disk.term = n.disk.term /\ o.disk.vote = n.disk.vote
      BY Zenon, <1>1, <1>5, <2>5, <2>10
    <3> QED BY Zenon, <1>10, <2>7, <2>10, <3>1 DEF Quiet, SameState, SameMemory, SameLog
  <2> QED BY Zenon, <2>7, <2>9, <2>10
<1> QED BY Zenon, <1>7, <1>9, <1>10

-----------------------------------------------------------------------------
(***************************************************************************)
(* Committing and appending.                                               *)
(***************************************************************************)

\* A commit index is adopted once it is persisted, or the node fail-stops (CommitTo
\* stands for persistHardState and applyCommittedConfigurations).
LEMMA CommitsTo ==
  ASSUME NEW n, NEW i, NEW E, PlainEntries(E), PlainNode(n, i, E), Saved(n), n.faulted = FALSE,
         NEW c \in Nat, n.base <= c, c <= LastIndex(n), NEW o, o = CommitTo(n, c)
  PROVE  /\ PlainNode(o, i, E)
         /\ \/ Failed(n, o)
            \/ Quiet(n, o) /\ o.log = n.log /\ o.base = n.base
<1>1. n.term \in Nat /\ n.commit \in Nat /\ n.base \in Nat /\ n.base <= n.commit
  BY Zenon DEF PlainNode
<1>2. PICK p : p = SaveHardState(n, n.term, n.vote, c)
  BY Zenon
<1>3. /\ PlainNode(p, i, E)
      /\ \/ Failed(n, p)
         \/ /\ SameMemory(n, p) /\ SameLog(n, p) /\ p.out = n.out
            /\ p.disk.term = n.term /\ p.disk.vote = n.vote
  BY <1>1, <1>2, SavesHardState
<1>4. o = Committed(p, n.commit + 1, c)
  BY Zenon, <1>2 DEF CommitTo
<1>5. CASE Failed(n, p)
  BY Zenon, <1>3, <1>4, <1>5 DEF Committed, Failed
<1>6. CASE /\ SameMemory(n, p) /\ SameLog(n, p) /\ p.out = n.out
           /\ p.disk.term = n.term /\ p.disk.vote = n.vote
  <2>1. Quiet(n, p)
    BY Zenon, <1>6 DEF Quiet, SameState, Saved
  <2>2. PICK q : q = [p EXCEPT !.commit = c]
    BY Zenon
  <2>3. DOMAIN p = Fields /\ p.base = n.base /\ p.log = n.log
    BY Zenon, <1>3, <1>6 DEF PlainNode, SameLog
  <2>4. q = [x \in Fields |-> q[x]]
    BY <2>2, <2>3
  <2>5. Quiet(p, q) /\ q.log = p.log /\ q.base = p.base /\ q.commit = c
    BY <2>2, <2>3 DEF Quiet, SameState, SameMemory, Fields
  <2>6. /\ DOMAIN q = Fields /\ q.id = p.id /\ q.peers = p.peers /\ q.next = p.next
        /\ q.votersOld = p.votersOld /\ q.votersNew = p.votersNew
        /\ q.pendingConfig = p.pendingConfig /\ q.snapshot = p.snapshot /\ q.disk = p.disk
    BY <2>2, <2>3 DEF Fields
  <2>7. PlainNode(q, i, E)
    BY Zenon, <1>3, <2>3, <2>5, <2>6 DEF PlainNode, Quiet, SameState, SameMemory
  <2>8. LastIndex(q) = LastIndex(n)
    BY Zenon, <2>3, <2>5 DEF LastIndex
  <2>9. n.commit + 1 \in Nat /\ q.base < n.commit + 1
    BY <1>1, <2>3, <2>5
  <2>10. applyCommittedConfigurations(q, n.commit + 1, c) = q
    BY Zenon, <2>4, <2>7, <2>8, <2>9, NothingInstalled
  <2>11. o = q
    BY Zenon, <1>4, <1>6, <2>2, <2>10 DEF Committed, SameMemory
  <2> QED BY Zenon, <2>1, <2>3, <2>5, <2>7, <2>11 DEF Quiet, SameState, SameMemory
<1> QED BY Zenon, <1>3, <1>5, <1>6

\* A leader that is a majority by itself commits what it has (appendLocal).
LEMMA CommitsIfAlone ==
  ASSUME Server # {}, NEW n, NEW i, NEW E, PlainEntries(E), PlainNode(n, i, E), Saved(n),
         n.faulted = FALSE, NEW o, o = CommitIfAlone(n)
  PROVE  PlainNode(o, i, E) /\ (Failed(n, o) \/ Quiet(n, o))
<1>1. PICK c \in Nat : c = LastIndex(n) /\ n.base <= c /\ c <= LastIndex(n)
  BY LastIndexType
<1>2. CASE o = CommitTo(n, c)
  BY Zenon, <1>1, <1>2, CommitsTo
<1>3. CASE o = n
  BY Zenon, <1>3 DEF Quiet, SameState, SameMemory
<1> QED BY Zenon, <1>1, <1>2, <1>3 DEF CommitIfAlone

\* An entry is appended once it is stored, or the node fail-stops (appendLocal).
LEMMA AppendsLocal ==
  ASSUME Server # {}, NEW n, NEW i, NEW E, PlainEntries(E), PlainNode(n, i, E), Saved(n),
         n.faulted = FALSE, NEW e \in E, NEW o, o = appendLocal(n, e)
  PROVE  PlainNode(o, i, E) /\ (Failed(n, o) \/ Quiet(n, o))
<1>1. PICK k \in Nat : k = LastIndex(n) + 1
  BY LastIndexType
<1>2. PICK p : p = StoreAppend(n, k, e)
  BY Zenon
<1>3. PlainNode(p, i, E) /\ (Failed(n, p) \/ (Quiet(n, p) /\ SameLog(n, p)))
  BY Zenon, <1>2, StoresEntry
<1>4. o = AppendStored(p, e)
  BY Zenon, <1>1, <1>2 DEF appendLocal
<1>5. CASE Failed(n, p)
  BY Zenon, <1>3, <1>4, <1>5 DEF AppendStored, Failed
<1>6. CASE Quiet(n, p)
  <2>1. PICK log : log = Append(p.log, e)
    BY Zenon
  <2>2. PICK q : q = [p EXCEPT !.log = log]
    BY Zenon
  <2>3. DOMAIN p = Fields /\ p.log \in Seq(E)
    BY Zenon, <1>3 DEF PlainNode
  <2>4. log \in Seq(E)
    BY <2>1, <2>3
  <2>5. PlainNode(q, i, E)
    BY <1>3, <2>2, <2>3, <2>4 DEF PlainNode, Fields
  <2>6. Quiet(p, q)
    BY <2>2, <2>3 DEF Quiet, SameState, SameMemory, Fields
  <2>7. Quiet(n, q) /\ Saved(q) /\ q.faulted = FALSE /\ p.faulted = FALSE
    BY Zenon, <1>6, <2>6 DEF Quiet, SameState, SameMemory, Saved
  <2>8. o = CommitIfAlone(q)
    BY Zenon, <1>4, <2>1, <2>2, <2>7 DEF AppendStored
  <2>9. PlainNode(o, i, E) /\ (Failed(q, o) \/ Quiet(q, o))
    BY Zenon, <2>5, <2>7, <2>8, CommitsIfAlone
  <2> QED BY Zenon, <2>7, <2>9 DEF Quiet, SameState, SameMemory, Failed
<1> QED BY Zenon, <1>3, <1>5, <1>6

-----------------------------------------------------------------------------
(***************************************************************************)
(* Sending.                                                                *)
(***************************************************************************)

\* What an Append carries: one entry or none (appendToContext).
Batch(E) == {<<>>} \cup {<<e>> : e \in E}

\* A message that carries no membership change.
PlainMessage(m, E) ==
  /\ m.type \in {"PreVote", "PreVoteResponse", "RequestVote", "RequestVoteResponse", "Append",
                 "AppendResponse", "InstallSnapshot", "InstallSnapshotResponse", "TimeoutNow"}
  /\ m.from \in Server /\ m.to \in Server /\ m.from # m.to /\ m.term \in Nat
  /\ m.type = "Append" => m.logIndex \in Nat /\ m.commit \in Nat /\ m.entries \in Batch(E)
  /\ m.type = "InstallSnapshot" => PlainSnapshot(m.snap)
  /\ m.type \in {"AppendResponse", "InstallSnapshotResponse"} => m.match \in Nat
  /\ m.type \in {"PreVoteResponse", "RequestVoteResponse"} => m.reject \in BOOLEAN

\* M is what i sends to every peer in S for term t.
Mail(M, types, i, t, S, E) ==
  /\ \A m \in M : /\ PlainMessage(m, E) /\ m.type \in types
                  /\ m.from = i /\ m.to \in S /\ m.term = t
  /\ \A p \in S : \E m \in M : m.to = p

Replication == {"Append", "InstallSnapshot"}

\* o is n after Appends or snapshots to the peers in S.
Replicated(n, o, i, S, E) ==
  /\ PlainNode(o, i, E) /\ SameState(n, o)
  /\ \E M : Mail(M, Replication, i, n.term, S, E) /\ o.out = n.out \cup M

\* The lesser of two numbers (min in node.go).
LEMMA MinOfTwo ==
  ASSUME NEW a \in Nat, NEW b \in Nat
  PROVE  Min({a, b}) \in {a, b} /\ Min({a, b}) <= a /\ Min({a, b}) <= b
<1>1. \E x \in {a, b} : \A y \in {a, b} : x <= y
  OBVIOUS
<1>2. Min({a, b}) \in {a, b} /\ \A y \in {a, b} : Min({a, b}) <= y
  BY Zenon, <1>1 DEF Min
<1> QED BY Zenon, <1>2

\* What is sent to a peer has the leader's term (appendToContext).
LEMMA AppendMessagePlain ==
  ASSUME NEW n, NEW i \in Server, NEW E, PlainEntries(E), PlainNode(n, i, E),
         NEW p \in Server \ {i}, NEW context, NEW m, m = AppendMessage(n, p, context)
  PROVE  /\ PlainMessage(m, E) /\ m.type \in {"Append", "InstallSnapshot"}
         /\ m.from = i /\ m.to = p /\ m.term = n.term
         /\ NextTo(n, p) \in Nat
<1>1. /\ n.next[p] \in Nat /\ n.base \in Nat /\ n.commit \in Nat /\ n.term \in Nat /\ n.id = i
      /\ PlainSnapshot(n.snapshot)
  BY Zenon DEF PlainNode
<1>2. PICK last \in Nat : last = LastIndex(n) /\ n.base <= last
  BY Zenon, LastIndexType
<1>3. PICK next \in Nat : next = n.next[p]
  BY Zenon, <1>1
<1>4. PICK to : to = NextTo(n, p)
  BY Zenon
<1>5. to \in {next, last + 1} /\ to <= next /\ to <= last + 1
  BY <1>2, <1>3, <1>4, MinOfTwo DEF NextTo
<1>6. to \in Nat
  BY <1>5
<1>7. CASE n.next[p] <= n.base
  <2>1. m = [type |-> "InstallSnapshot", from |-> n.id, to |-> p, term |-> n.term,
             snap |-> n.snapshot]
    BY Zenon, <1>7 DEF AppendMessage
  <2> QED BY <1>1, <1>4, <1>6, <2>1 DEF PlainMessage
<1>8. CASE ~(n.next[p] <= n.base)
  <2>1. PICK k : k = to - 1
    BY Zenon
  <2>2. k \in Nat /\ n.base <= k
    BY <1>1, <1>2, <1>3, <1>5, <1>8, <2>1
  <2>3. PICK entries : entries = IF k < LastIndex(n) THEN <<EntryAt(n, k + 1)>> ELSE <<>>
    BY Zenon
  <2>4. entries \in Batch(E)
    <3>1. CASE k < LastIndex(n)
      <4>1. k + 1 \in Nat /\ n.base < k + 1 /\ k + 1 <= LastIndex(n)
        BY <1>1, <1>2, <2>2, <3>1
      <4>2. EntryAt(n, k + 1) \in E
        BY Zenon, <4>1, EntryPlain
      <4> QED BY Zenon, <2>3, <3>1, <4>2 DEF Batch
    <3>2. CASE ~(k < LastIndex(n))
      BY Zenon, <2>3, <3>2 DEF Batch
    <3> QED BY Zenon, <3>1, <3>2
  <2>5. PICK logTerm : logTerm = TermAt(n, k)
    BY Zenon
  <2>6. m = [type |-> "Append", from |-> n.id, to |-> p, term |-> n.term,
             logIndex |-> k, logTerm |-> logTerm, entries |-> entries,
             commit |-> n.commit, context |-> context]
    BY Zenon, <1>4, <1>8, <2>1, <2>3, <2>5 DEF AppendMessage, AppendAfter
  <2> QED BY <1>1, <1>4, <1>6, <2>2, <2>4, <2>6 DEF PlainMessage
<1> QED BY Zenon, <1>7, <1>8

\* Sending changes nothing of the election state (appendToContext).
LEMMA Replicates ==
  ASSUME NEW n, NEW i \in Server, NEW E, PlainEntries(E), PlainNode(n, i, E),
         NEW S \in SUBSET (Server \ {i}), NEW context,
         NEW o, o = appendToContext(n, S, context)
  PROVE  Replicated(n, o, i, S, E) /\ SameLog(n, o)
<1>1. PICK M : M = {AppendMessage(n, p, context) : p \in S}
  BY Zenon
<1>2. PICK next : next = [p \in Server |-> IF p \in S THEN NextTo(n, p) ELSE n.next[p]]
  BY Zenon
<1>3. Mail(M, Replication, i, n.term, S, E)
  <2>1. ASSUME NEW m \in M
        PROVE  /\ PlainMessage(m, E) /\ m.type \in Replication
               /\ m.from = i /\ m.to \in S /\ m.term = n.term
    <3>1. PICK p \in S : m = AppendMessage(n, p, context)
      BY Zenon, <1>1
    <3>2. p \in Server \ {i}
      BY Zenon
    <3> QED BY <3>1, <3>2, AppendMessagePlain DEF Replication
  <2>2. ASSUME NEW p \in S
        PROVE  \E m \in M : m.to = p
    <3>1. PICK m : m = AppendMessage(n, p, context)
      BY Zenon
    <3>2. m \in M /\ p \in Server \ {i}
      BY Zenon, <1>1, <3>1
    <3>3. m.to = p
      BY <3>1, <3>2, AppendMessagePlain
    <3> QED BY Zenon, <3>2, <3>3
  <2> QED BY Zenon, <2>1, <2>2 DEF Mail
<1>4. next \in [Server -> Nat]
  <2>1. ASSUME NEW p \in Server
        PROVE  (IF p \in S THEN NextTo(n, p) ELSE n.next[p]) \in Nat
    <3>1. CASE p \in S
      <4>1. PICK m : m = AppendMessage(n, p, context)
        BY Zenon
      <4> QED BY Zenon, <3>1, <4>1, AppendMessagePlain
    <3>2. CASE p \notin S
      BY Zenon, <3>2 DEF PlainNode
    <3> QED BY Zenon, <3>1, <3>2
  <2> QED BY Zenon, <1>2, <2>1
<1>5. o = [n EXCEPT !.out = @ \cup M, !.next = next]
  BY Zenon, <1>1, <1>2 DEF appendToContext
<1>6. DOMAIN n = Fields
  BY Zenon DEF PlainNode
<1>7. SameState(n, o) /\ SameLog(n, o) /\ o.out = n.out \cup M
  BY <1>5, <1>6 DEF SameState, SameMemory, SameLog, Fields
<1>8. /\ DOMAIN o = Fields /\ o.id = n.id /\ o.peers = n.peers /\ o.next = next
      /\ o.votersOld = n.votersOld /\ o.votersNew = n.votersNew
      /\ o.pendingConfig = n.pendingConfig /\ o.snapshot = n.snapshot /\ o.disk = n.disk
  BY <1>5, <1>6 DEF Fields
<1>9. PlainNode(o, i, E)
  BY Zenon, <1>4, <1>7, <1>8 DEF PlainNode, SameState, SameMemory, SameLog
<1> QED BY Zenon, <1>3, <1>7, <1>9 DEF Replicated

\* A broadcast goes to every peer (broadcastAppend).
LEMMA Broadcasts ==
  ASSUME Server # {}, NEW n, NEW i \in Server, NEW E, PlainEntries(E), PlainNode(n, i, E),
         NEW o, o = broadcastAppend(n)
  PROVE  Replicated(n, o, i, Server \ {i}, E)
<1>1. {p \in n.peers : isVoter(n, p)} = Server \ {i}
  <2>1. n.peers = Server \ {i} /\ \A p : isVoter(n, p) <=> p \in Server
    BY Zenon, Quorums DEF PlainNode
  <2> QED BY Zenon, <2>1
<1>2. o = appendToContext(n, Server \ {i}, 0)
  BY Zenon, <1>1 DEF broadcastAppend
<1> QED BY Zenon, <1>2, Replicates

\* o is n after becoming the leader of its term.
Led(n, o, i, E) ==
  /\ PlainNode(o, i, E)
  /\ o.role = "Leader" /\ o.term = n.term /\ o.vote = n.vote /\ o.leader = i
  /\ o.preVoteTerm = n.preVoteTerm /\ o.preVoteMask = n.preVoteMask
  /\ o.voteMask = n.voteMask /\ o.faulted = FALSE
  /\ o.disk.term = n.disk.term /\ o.disk.vote = n.disk.vote
  /\ \E M : Mail(M, Replication, i, n.term, Server \ {i}, E) /\ o.out = n.out \cup M

LedOrFailed(n, o, i, E) == Led(n, o, i, E) \/ (PlainNode(o, i, E) /\ Failed(n, o))

\* A proposal or a no-op that was stored is sent to every peer (Propose, becomeLeader).
LEMMA Announces ==
  ASSUME Server # {}, NEW n, NEW i \in Server, NEW E, PlainEntries(E), PlainNode(n, i, E),
         NEW p, PlainNode(p, i, E), n.faulted = FALSE, Failed(n, p) \/ Quiet(n, p),
         NEW o, o = Announce(p)
  PROVE  \/ PlainNode(o, i, E) /\ Failed(n, o)
         \/ Replicated(n, o, i, Server \ {i}, E)
<1>1. CASE Failed(n, p)
  BY Zenon, <1>1 DEF Announce, Failed
<1>2. CASE Quiet(n, p)
  <2>1. o = broadcastAppend(p)
    BY Zenon, <1>2 DEF Announce, Quiet, SameState, SameMemory
  <2>2. Replicated(p, o, i, Server \ {i}, E)
    BY Zenon, <2>1, Broadcasts
  <2> QED BY Zenon, <1>2, <2>2 DEF Replicated, Quiet, SameState, SameMemory
<1> QED BY Zenon, <1>1, <1>2

\* A candidate with a majority leads, or fail-stops on its no-op (becomeLeader).
LEMMA BecomesLeader ==
  ASSUME Server # {}, NEW n, NEW i \in Server, NEW E, PlainEntries(E), PlainNode(n, i, E),
         Saved(n), n.faulted = FALSE, NEW o, o = becomeLeader(n)
  PROVE  LedOrFailed(n, o, i, E)
<1>1. PICK a : a = [n EXCEPT !.role = "Leader", !.leader = n.id]
  BY Zenon
<1>2. DOMAIN n = Fields /\ n.id = i /\ n.term \in Nat
  BY Zenon DEF PlainNode
<1>3. /\ a.role = "Leader" /\ a.leader = i /\ a.term = n.term /\ a.vote = n.vote
      /\ a.preVoteTerm = n.preVoteTerm /\ a.preVoteMask = n.preVoteMask
      /\ a.voteMask = n.voteMask /\ a.faulted = n.faulted /\ a.disk = n.disk /\ a.out = n.out
  BY <1>1, <1>2 DEF Fields
<1>4. PlainNode(a, i, E)
  BY <1>1, <1>2 DEF PlainNode, Fields
<1>5. PICK b : b = appendLocal(a, Noop(n.term))
  BY Zenon
<1>6. Noop(n.term) \in E
  BY Zenon, <1>2 DEF PlainEntries
<1>7. Saved(a) /\ a.faulted = FALSE
  BY Zenon, <1>3 DEF Saved
<1>8. PlainNode(b, i, E) /\ (Failed(a, b) \/ Quiet(a, b))
  BY Zenon, <1>4, <1>5, <1>6, <1>7, AppendsLocal
<1>9. PICK c : c = RestartReplication(b)
  BY Zenon
<1>10. PlainNode(c, i, E) /\ (Failed(a, c) \/ Quiet(a, c))
  <2>1. CASE b.faulted
    BY Zenon, <1>8, <1>9, <2>1 DEF RestartReplication
  <2>2. CASE ~b.faulted
    <3>1. PICK next : next = [p \in Server |-> IF p \in b.peers THEN LastIndex(b) + 1 ELSE b.next[p]]
      BY Zenon
    <3>2. PICK match : match = [p \in Server |-> IF p \in b.peers THEN 0 ELSE b.match[p]]
      BY Zenon
    <3>3. c = [b EXCEPT !.next = next, !.match = match]
      BY Zenon, <1>9, <2>2, <3>1, <3>2 DEF RestartReplication
    <3>4. LastIndex(b) \in Nat
      BY Zenon, <1>8, LastIndexType
    <3>5. DOMAIN b = Fields /\ b.next \in [Server -> Nat]
      BY Zenon, <1>8 DEF PlainNode
    <3>6. next \in [Server -> Nat]
      BY <3>1, <3>4, <3>5
    <3>7. Quiet(b, c)
      BY <3>3, <3>5 DEF Quiet, SameState, SameMemory, Fields
    <3>8. PlainNode(c, i, E)
      BY <1>8, <3>3, <3>5, <3>6 DEF PlainNode, Fields
    <3>9. Quiet(a, b)
      BY Zenon, <1>8, <2>2 DEF Failed
    <3> QED BY Zenon, <3>7, <3>8, <3>9 DEF Quiet, SameState, SameMemory
  <2> QED BY Zenon, <2>1, <2>2
<1>11. o = Announce(c)
  BY Zenon, <1>1, <1>5, <1>9 DEF becomeLeader
<1>12. \/ PlainNode(o, i, E) /\ Failed(a, o)
       \/ Replicated(a, o, i, Server \ {i}, E)
  BY Zenon, <1>4, <1>7, <1>10, <1>11, Announces
<1>13. CASE Failed(a, o)
  BY Zenon, <1>3, <1>12, <1>13 DEF Failed, LedOrFailed, Replicated
<1>14. CASE Replicated(a, o, i, Server \ {i}, E)
  BY Zenon, <1>3, <1>7, <1>14 DEF Replicated, SameState, SameMemory, LedOrFailed, Led
<1> QED BY Zenon, <1>12, <1>13, <1>14

-----------------------------------------------------------------------------
(***************************************************************************)
(* Elections.                                                              *)
(***************************************************************************)

\* Requests go to every peer (the loops over Peers in startPreVote and startElection).
LEMMA Requests ==
  ASSUME NEW n, NEW i \in Server, NEW E, PlainNode(n, i, E), NEW t \in Nat,
         NEW type \in {"PreVote", "RequestVote"}, NEW M,
         M = {LogRequest(n, type, t, p) : p \in n.peers}
  PROVE  Mail(M, {type}, i, t, Server \ {i}, E)
<1>1. n.id = i /\ n.peers = Server \ {i}
  BY Zenon DEF PlainNode
<1>2. ASSUME NEW p \in Server \ {i}, NEW m, m = LogRequest(n, type, t, p)
      PROVE  PlainMessage(m, E) /\ m.type = type /\ m.from = i /\ m.to = p /\ m.term = t
  BY <1>1, <1>2 DEF LogRequest, PlainMessage
<1>3. ASSUME NEW m \in M
      PROVE  /\ PlainMessage(m, E) /\ m.type \in {type}
             /\ m.from = i /\ m.to \in Server \ {i} /\ m.term = t
  <2>1. PICK p \in Server \ {i} : m = LogRequest(n, type, t, p)
    BY Zenon, <1>1
  <2> QED BY Zenon, <1>2, <2>1
<1>4. ASSUME NEW p \in Server \ {i}
      PROVE  \E m \in M : m.to = p
  <2>1. PICK m : m = LogRequest(n, type, t, p)
    BY Zenon
  <2>2. m \in M
    BY Zenon, <1>1, <2>1
  <2>3. m.to = p
    BY Zenon, <1>2, <2>1
  <2> QED BY Zenon, <2>2, <2>3
<1> QED BY Zenon, <1>3, <1>4 DEF Mail

\* q is n after asking for votes in the next term.
Campaigns(n, q, i, E) ==
  /\ PlainNode(q, i, E)
  /\ q.role = "Candidate" /\ q.term = n.term + 1 /\ q.vote = i /\ q.leader = n.leader
  /\ q.preVoteTerm = n.preVoteTerm /\ q.preVoteMask = {} /\ q.voteMask = {i}
  /\ q.faulted = FALSE /\ q.disk.term = n.term + 1 /\ q.disk.vote = i
  /\ \E M : Mail(M, {"RequestVote"}, i, n.term + 1, Server \ {i}, E) /\ q.out = n.out \cup M

\* o is n after an election was started.
Campaigned(n, o, i, E) ==
  \/ PlainNode(o, i, E) /\ Failed(n, o)
  \/ \E q : /\ Campaigns(n, q, i, E)
            /\ IF majorityMask(Server, {i}) THEN LedOrFailed(q, o, i, E) ELSE o = q

\* Term and vote are on disk before a vote is asked for (startElection).
LEMMA StartsElection ==
  ASSUME Server # {}, NEW n, NEW i \in Server, NEW E, PlainEntries(E), PlainNode(n, i, E),
         n.faulted = FALSE, NEW o, o = startElection(n)
  PROVE  Campaigned(n, o, i, E)
<1>1. n.id = i /\ n.commit \in Nat /\ n.term \in Nat
  BY Zenon DEF PlainNode
<1>2. PICK t \in Nat : t = n.term + 1
  BY <1>1
<1>3. PICK p : p = SaveHardState(n, t, i, n.commit)
  BY Zenon
<1>4. /\ PlainNode(p, i, E)
      /\ \/ Failed(n, p)
         \/ /\ SameMemory(n, p) /\ SameLog(n, p) /\ p.out = n.out
            /\ p.disk.term = t /\ p.disk.vote = i
  BY <1>1, <1>3, SavesHardState
<1>5. o = AskForVotes(p, t)
  BY Zenon, <1>1, <1>2, <1>3 DEF startElection
<1>6. CASE Failed(n, p)
  BY Zenon, <1>4, <1>5, <1>6 DEF AskForVotes, Failed, Campaigned
<1>7. CASE /\ SameMemory(n, p) /\ SameLog(n, p) /\ p.out = n.out
           /\ p.disk.term = t /\ p.disk.vote = i
  <2>1. PICK M : M = {LogRequest(p, "RequestVote", t, r) : r \in p.peers}
    BY Zenon
  <2>2. Mail(M, {"RequestVote"}, i, t, Server \ {i}, E)
    BY Zenon, <1>4, <2>1, Requests
  <2>3. DOMAIN p = Fields /\ p.id = i
    BY Zenon, <1>4 DEF PlainNode
  <2>4. PICK c : c = [p EXCEPT !.role = "Candidate", !.term = t, !.vote = i,
                               !.voteMask = {i}, !.preVoteMask = {}]
    BY Zenon
  <2>5. PICK q : q = [c EXCEPT !.out = @ \cup M]
    BY Zenon
  <2>6. DOMAIN c = Fields
    BY <2>3, <2>4
  <2>7. /\ q.role = "Candidate" /\ q.term = t /\ q.vote = i /\ q.leader = p.leader
        /\ q.preVoteTerm = p.preVoteTerm /\ q.preVoteMask = {} /\ q.voteMask = {i}
        /\ q.faulted = p.faulted /\ q.disk = p.disk /\ q.out = p.out \cup M
    BY <2>3, <2>4, <2>5, <2>6 DEF Fields
  <2>8. /\ DOMAIN q = Fields /\ q.id = p.id /\ q.peers = p.peers /\ q.next = p.next
        /\ q.log = p.log /\ q.base = p.base /\ q.commit = p.commit
        /\ q.votersOld = p.votersOld /\ q.votersNew = p.votersNew
        /\ q.pendingConfig = p.pendingConfig /\ q.snapshot = p.snapshot
    BY <2>3, <2>4, <2>5, <2>6 DEF Fields
  <2>9. PlainNode(q, i, E)
    BY Zenon, <1>4, <2>7, <2>8 DEF PlainNode
  <2>10. Campaigns(n, q, i, E)
    BY Zenon, <1>2, <1>7, <2>2, <2>7, <2>9 DEF Campaigns, SameMemory
  <2>11. o = LeadIfVoted(q)
    BY Zenon, <1>5, <1>7, <2>1, <2>3, <2>4, <2>5 DEF AskForVotes, SameMemory, Send
  <2>12. quorumMask(q, q.voteMask) <=> majorityMask(Server, {i})
    BY Zenon, <2>7, <2>9, Quorums
  <2>13. Saved(q) /\ q.faulted = FALSE
    BY Zenon, <1>7, <2>7 DEF Saved, SameMemory
  <2>14. CASE majorityMask(Server, {i})
    <3>1. o = becomeLeader(q)
      BY Zenon, <2>11, <2>12, <2>14 DEF LeadIfVoted
    <3>2. LedOrFailed(q, o, i, E)
      BY Zenon, <2>9, <2>13, <3>1, BecomesLeader
    <3> QED BY Zenon, <2>10, <2>14, <3>2 DEF Campaigned
  <2>15. CASE ~majorityMask(Server, {i})
    <3>1. o = q
      BY Zenon, <2>11, <2>12, <2>15 DEF LeadIfVoted
    <3> QED BY Zenon, <2>10, <2>15, <3>1 DEF Campaigned
  <2> QED BY Zenon, <2>14, <2>15
<1> QED BY Zenon, <1>4, <1>6, <1>7

\* q is n after asking for pre-votes for the next term.
Canvasses(n, q, i, E) ==
  /\ PlainNode(q, i, E)
  /\ q.role = n.role /\ q.term = n.term /\ q.vote = n.vote /\ q.leader = Nil
  /\ q.preVoteTerm = n.term + 1 /\ q.preVoteMask = {i} /\ q.voteMask = n.voteMask
  /\ q.faulted = FALSE /\ q.disk = n.disk
  /\ \E M : Mail(M, {"PreVote"}, i, n.term + 1, Server \ {i}, E) /\ q.out = n.out \cup M

\* o is n after it has asked its peers for pre-votes; alone in its cluster, it has
\* them all and asks for votes at once.
PreVoteStarted(n, o, i, E) ==
  \E q : /\ Canvasses(n, q, i, E)
         /\ IF majorityMask(Server, {i}) THEN Campaigned(q, o, i, E) ELSE o = q

\* An election timer that fires starts with a round of pre-votes (startPreVote).
LEMMA StartsPreVote ==
  ASSUME Server # {}, NEW n, NEW i \in Server, NEW E, PlainEntries(E), PlainNode(n, i, E),
         n.faulted = FALSE, NEW o, o = startPreVote(n)
  PROVE  PreVoteStarted(n, o, i, E)
<1>1. DOMAIN n = Fields /\ n.id = i /\ n.term \in Nat
  BY Zenon DEF PlainNode
<1>2. PICK t \in Nat : t = n.term + 1
  BY <1>1
<1>3. PICK M : M = {LogRequest(n, "PreVote", t, r) : r \in n.peers}
  BY Zenon
<1>4. Mail(M, {"PreVote"}, i, t, Server \ {i}, E)
  BY ZenonT(60), <1>3, Requests
<1>5. PICK c : c = [n EXCEPT !.preVoteTerm = t, !.leader = Nil, !.preVoteMask = {i}]
  BY Zenon
<1>6. PICK q : q = [c EXCEPT !.out = @ \cup M]
  BY Zenon
<1>7. DOMAIN c = Fields
  BY <1>1, <1>5
<1>8. /\ q.role = n.role /\ q.term = n.term /\ q.vote = n.vote /\ q.leader = Nil
      /\ q.preVoteTerm = t /\ q.preVoteMask = {i} /\ q.voteMask = n.voteMask
      /\ q.faulted = n.faulted /\ q.disk = n.disk /\ q.out = n.out \cup M
  BY <1>1, <1>5, <1>6, <1>7 DEF Fields
<1>9. /\ DOMAIN q = Fields /\ q.id = n.id /\ q.peers = n.peers /\ q.next = n.next
      /\ q.log = n.log /\ q.base = n.base /\ q.commit = n.commit
      /\ q.votersOld = n.votersOld /\ q.votersNew = n.votersNew
      /\ q.pendingConfig = n.pendingConfig /\ q.snapshot = n.snapshot
  BY <1>1, <1>5, <1>6, <1>7 DEF Fields
<1>10. PlainNode(q, i, E)
  BY Zenon, <1>8, <1>9 DEF PlainNode
<1>11. Canvasses(n, q, i, E)
  BY Zenon, <1>2, <1>4, <1>8, <1>10 DEF Canvasses
<1>12. o = ElectIfPreVoted(q)
  BY Zenon, <1>1, <1>2, <1>3, <1>5, <1>6 DEF startPreVote, Send
<1>13. quorumMask(q, q.preVoteMask) <=> majorityMask(Server, {i})
  BY Zenon, <1>8, <1>10, Quorums
<1>14. majorityMask(Server, {i}) => Campaigned(q, o, i, E)
  BY Zenon, <1>8, <1>10, <1>12, <1>13, StartsElection DEF ElectIfPreVoted
<1>15. ~majorityMask(Server, {i}) => o = q
  BY Zenon, <1>12, <1>13 DEF ElectIfPreVoted
<1> QED BY Zenon, <1>11, <1>14, <1>15 DEF PreVoteStarted

-----------------------------------------------------------------------------
(***************************************************************************)
(* Messages: the prologue of Step, and votes.                              *)
(***************************************************************************)

Newer(n, m) == m.type \notin {"PreVote", "PreVoteResponse"} /\ m.term > n.term

\* p is n after a message of a newer term was seen.
Entered(n, p, t, i, E) ==
  /\ PlainNode(p, i, E)
  /\ p.role = "Follower" /\ p.term = t /\ p.vote = Nil /\ p.leader = Nil
  /\ p.preVoteTerm = n.preVoteTerm /\ p.preVoteMask = n.preVoteMask
  /\ p.voteMask = n.voteMask /\ p.faulted = FALSE
  /\ p.disk.term = t /\ p.disk.vote = Nil /\ p.out = n.out

\* A newer term is on disk before anything else happens (Step).
LEMMA Observes ==
  ASSUME NEW n, NEW i, NEW E, PlainNode(n, i, E), n.faulted = FALSE,
         NEW m, PlainMessage(m, E), NEW p, p = Observe(n, m)
  PROVE  /\ ~Newer(n, m) => p = n
         /\ Newer(n, m) => \/ PlainNode(p, i, E) /\ Failed(n, p)
                           \/ Entered(n, p, m.term, i, E)
<1>1. CASE ~Newer(n, m)
  BY Zenon, <1>1 DEF Observe, Newer
<1>2. CASE Newer(n, m)
  <2>1. m.term \in Nat /\ n.commit \in Nat
    BY Zenon DEF PlainMessage, PlainNode
  <2>2. PICK a : a = SaveHardState(n, m.term, Nil, n.commit)
    BY Zenon
  <2>3. /\ PlainNode(a, i, E)
        /\ \/ Failed(n, a)
           \/ /\ SameMemory(n, a) /\ SameLog(n, a) /\ a.out = n.out
              /\ a.disk.term = m.term /\ a.disk.vote = Nil
    BY <2>1, <2>2, SavesHardState
  <2>4. p = EnterTerm(a, m.term)
    BY Zenon, <1>2, <2>2 DEF Observe, Newer
  <2>5. CASE Failed(n, a)
    BY Zenon, <1>2, <2>3, <2>4, <2>5 DEF EnterTerm, Failed
  <2>6. CASE /\ SameMemory(n, a) /\ SameLog(n, a) /\ a.out = n.out
             /\ a.disk.term = m.term /\ a.disk.vote = Nil
    <3>1. a.faulted = FALSE /\ DOMAIN a = Fields
      BY Zenon, <2>3, <2>6 DEF SameMemory, PlainNode
    <3>2. p = [a EXCEPT !.role = "Follower", !.term = m.term, !.vote = Nil, !.leader = Nil,
                        !.readReady = FALSE]
      BY Zenon, <2>4, <3>1 DEF EnterTerm
    <3>3. /\ p.role = "Follower" /\ p.term = m.term /\ p.vote = Nil /\ p.leader = Nil
          /\ p.preVoteTerm = a.preVoteTerm /\ p.preVoteMask = a.preVoteMask
          /\ p.voteMask = a.voteMask /\ p.faulted = a.faulted
          /\ p.disk = a.disk /\ p.out = a.out
      BY <3>1, <3>2 DEF Fields
    <3>4. PlainNode(p, i, E)
      BY <2>1, <2>3, <3>1, <3>2 DEF PlainNode, Fields
    <3> QED BY Zenon, <1>2, <2>6, <3>1, <3>3, <3>4 DEF Entered, SameMemory
  <2> QED BY Zenon, <2>3, <2>5, <2>6
<1> QED BY Zenon, <1>1, <1>2

\* o is n after sending r.
Answered(n, o, r, i, E) ==
  /\ PlainNode(o, i, E) /\ SameState(n, o) /\ o.out = n.out \cup {r}
  /\ PlainMessage(r, E) /\ r.from = i

\* Sending a message changes nothing of the election state (send).
LEMMA Answers ==
  ASSUME NEW n, NEW i, NEW E, PlainNode(n, i, E), NEW r, PlainMessage(r, E), r.from = i,
         NEW o, o = Send(n, {r})
  PROVE  Answered(n, o, r, i, E)
<1>1. o = [n EXCEPT !.out = @ \cup {r}]
  BY Zenon DEF Send
<1>2. DOMAIN n = Fields
  BY Zenon DEF PlainNode
<1>3. SameState(n, o) /\ o.out = n.out \cup {r}
  BY <1>1, <1>2 DEF SameState, SameMemory, Fields
<1>4. PlainNode(o, i, E)
  BY ZenonT(60), <1>1, <1>2 DEF PlainNode, Fields
<1> QED BY Zenon, <1>3, <1>4 DEF Answered

\* The answer to a vote or a pre-vote is a message.
LEMMA ResponsePlain ==
  ASSUME NEW n, NEW i \in Server, NEW E, PlainNode(n, i, E), NEW m, PlainMessage(m, E),
         m.to = i, NEW type \in {"PreVoteResponse", "RequestVoteResponse"}, NEW t \in Nat,
         NEW reject \in BOOLEAN, NEW r, r = Response(n, type, m, t, reject)
  PROVE  /\ PlainMessage(r, E) /\ r.type = type /\ r.from = i /\ r.to = m.from
         /\ r.term = t /\ r.reject = reject
<1>1. n.id = i /\ m.from \in Server /\ m.from # i
  BY Zenon DEF PlainNode, PlainMessage
<1>2. /\ r.type = type /\ r.from = i /\ r.to = m.from /\ r.term = t /\ r.reject = reject
  BY <1>1 DEF Response
<1> QED BY <1>1, <1>2 DEF PlainMessage

\* A pre-vote changes nothing, and is granted only to a newer term while no leader is
\* known (onPreVote).
LEMMA OnPreVote ==
  ASSUME NEW n, NEW i \in Server, NEW E, PlainNode(n, i, E), NEW m, PlainMessage(m, E),
         m.to = i, NEW o, o = onPreVote(n, m)
  PROVE  \E r : /\ Answered(n, o, r, i, E)
                /\ r.type = "PreVoteResponse" /\ r.to = m.from /\ r.term = m.term
                /\ ~r.reject => m.term >= n.term + 1 /\ n.leader = Nil
<1>1. PICK reject \in BOOLEAN :
        reject = ~(isVoter(n, m.from) /\ m.term >= n.term + 1 /\ UpToDate(n, m) /\ n.leader = Nil)
  BY Zenon
<1>2. PICK r : r = Response(n, "PreVoteResponse", m, m.term, reject)
  BY Zenon
<1>3. o = Send(n, {r})
  BY Zenon, <1>1, <1>2 DEF onPreVote
<1>4. /\ PlainMessage(r, E) /\ r.type = "PreVoteResponse" /\ r.from = i /\ r.to = m.from
      /\ r.term = m.term /\ r.reject = reject
  <2>1. m.term \in Nat
    BY Zenon DEF PlainMessage
  <2> QED BY <1>2, <2>1, ResponsePlain
<1>5. Answered(n, o, r, i, E)
  BY Zenon, <1>3, <1>4, Answers
<1> QED BY Zenon, <1>1, <1>4, <1>5

\* o is n after counting a pre-vote.
PreVoteCounted(n, o, m, i, E) ==
  /\ n.role # "Leader" /\ m.term = n.term + 1 /\ m.term = n.preVoteTerm /\ ~m.reject
  /\ \E q : /\ PlainNode(q, i, E)
            /\ q.role = n.role /\ q.term = n.term /\ q.vote = n.vote /\ q.leader = n.leader
            /\ q.preVoteTerm = n.preVoteTerm /\ q.preVoteMask = n.preVoteMask \cup {m.from}
            /\ q.voteMask = n.voteMask /\ q.faulted = FALSE /\ q.disk = n.disk /\ q.out = n.out
            /\ IF majorityMask(Server, q.preVoteMask) THEN Campaigned(q, o, i, E) ELSE o = q

\* A pre-vote counts for the round it was asked in (onPreVoteResponse).
LEMMA OnPreVoteResponse ==
  ASSUME Server # {}, NEW n, NEW i \in Server, NEW E, PlainEntries(E), PlainNode(n, i, E),
         n.faulted = FALSE, NEW m, PlainMessage(m, E), NEW o, o = onPreVoteResponse(n, m)
  PROVE  o = n \/ PreVoteCounted(n, o, m, i, E)
<1>1. CASE o = n
  BY Zenon, <1>1
<1>2. CASE /\ n.role # "Leader" /\ m.term = n.term + 1 /\ m.term = n.preVoteTerm /\ ~m.reject
           /\ o = ElectIfPreVoted([n EXCEPT !.preVoteMask = @ \cup {m.from}])
  <2>1. PICK q : q = [n EXCEPT !.preVoteMask = @ \cup {m.from}]
    BY Zenon
  <2>2. DOMAIN n = Fields
    BY Zenon DEF PlainNode
  <2>3. /\ q.role = n.role /\ q.term = n.term /\ q.vote = n.vote /\ q.leader = n.leader
        /\ q.preVoteTerm = n.preVoteTerm /\ q.preVoteMask = n.preVoteMask \cup {m.from}
        /\ q.voteMask = n.voteMask /\ q.faulted = n.faulted /\ q.disk = n.disk /\ q.out = n.out
    BY <2>1, <2>2 DEF Fields
  <2>4. PlainNode(q, i, E)
    BY <2>1, <2>2 DEF PlainNode, Fields
  <2>5. quorumMask(q, q.preVoteMask) <=> majorityMask(Server, q.preVoteMask)
    BY Zenon, <2>4, Quorums
  <2>6. majorityMask(Server, q.preVoteMask) => Campaigned(q, o, i, E)
    BY Zenon, <1>2, <2>1, <2>3, <2>4, <2>5, StartsElection DEF ElectIfPreVoted
  <2>7. ~majorityMask(Server, q.preVoteMask) => o = q
    BY Zenon, <1>2, <2>1, <2>5 DEF ElectIfPreVoted
  <2>8. PreVoteCounted(n, o, m, i, E)
    BY Zenon, <1>2, <2>3, <2>4, <2>6, <2>7 DEF PreVoteCounted
  <2> QED BY Zenon, <1>2, <2>8
<1> QED BY Zenon, <1>1, <1>2 DEF onPreVoteResponse

\* o is n after a vote for m's sender became durable and was answered by r.
Voted(n, o, m, r, i, E) ==
  /\ PlainNode(o, i, E)
  /\ o.role = n.role /\ o.term = n.term /\ o.vote = m.from /\ o.leader = n.leader
  /\ o.preVoteTerm = n.preVoteTerm /\ o.preVoteMask = n.preVoteMask
  /\ o.voteMask = n.voteMask /\ o.faulted = FALSE
  /\ o.disk.term = n.term /\ o.disk.vote = m.from
  /\ o.out = n.out \cup {r} /\ PlainMessage(r, E)

\* o is n after it refused to vote for m's sender.
VoteRefused(n, o, m, i, E) ==
  \E r : /\ Answered(n, o, r, i, E) /\ r.type = "RequestVoteResponse"
         /\ r.to = m.from /\ r.term = n.term /\ r.reject = TRUE

\* o is n after it voted for m's sender, or failed to.
VoteGranted(n, o, m, i, E) ==
  /\ m.term = n.term /\ n.vote \in {Nil, m.from}
  /\ \/ PlainNode(o, i, E) /\ Failed(n, o)
     \/ \E r : /\ Voted(n, o, m, r, i, E) /\ r.type = "RequestVoteResponse"
               /\ r.from = i /\ r.to = m.from /\ r.term = n.term /\ r.reject = FALSE

\* A vote is durable before it is granted (onVote).
LEMMA OnVote ==
  ASSUME NEW n, NEW i \in Server, NEW E, PlainNode(n, i, E), n.faulted = FALSE,
         NEW m, PlainMessage(m, E), m.to = i, NEW o, o = onVote(n, m)
  PROVE  VoteRefused(n, o, m, i, E) \/ VoteGranted(n, o, m, i, E)
<1>0. n.term \in Nat /\ n.commit \in Nat
  BY Zenon DEF PlainNode
<1>1. CASE ~CanVote(n, m)
  <2>1. PICK r : r = Response(n, "RequestVoteResponse", m, n.term, TRUE)
    BY Zenon
  <2>2. o = Send(n, {r})
    BY Zenon, <1>1, <2>1 DEF onVote, VoteResponse
  <2>3. /\ PlainMessage(r, E) /\ r.type = "RequestVoteResponse" /\ r.from = i
        /\ r.to = m.from /\ r.term = n.term /\ r.reject = TRUE
    <3>1. PICK reject \in BOOLEAN : reject = TRUE
      BY Zenon
    <3>2. r = Response(n, "RequestVoteResponse", m, n.term, reject)
      BY Zenon, <2>1, <3>1
    <3>3. /\ PlainMessage(r, E) /\ r.type = "RequestVoteResponse" /\ r.from = i
          /\ r.to = m.from /\ r.term = n.term /\ r.reject = reject
      BY <1>0, <3>2, ResponsePlain
    <3> QED BY Zenon, <3>1, <3>3
  <2>4. Answered(n, o, r, i, E)
    BY Zenon, <2>2, <2>3, Answers
  <2> QED BY Zenon, <2>3, <2>4 DEF VoteRefused
<1>2. CASE CanVote(n, m)
  <2>1. m.term = n.term /\ n.vote \in {Nil, m.from}
    BY Zenon, <1>2 DEF CanVote
  <2>2. PICK a : a = SaveHardState(n, n.term, m.from, n.commit)
    BY Zenon
  <2>3. /\ PlainNode(a, i, E)
        /\ \/ Failed(n, a)
           \/ /\ SameMemory(n, a) /\ SameLog(n, a) /\ a.out = n.out
              /\ a.disk.term = n.term /\ a.disk.vote = m.from
    BY <1>0, <2>2, SavesHardState
  <2>4. o = Vote(a, m)
    BY Zenon, <1>2, <2>2 DEF onVote
  <2>5. CASE Failed(n, a)
    BY Zenon, <2>1, <2>3, <2>4, <2>5 DEF Vote, Failed, VoteGranted
  <2>6. CASE /\ SameMemory(n, a) /\ SameLog(n, a) /\ a.out = n.out
             /\ a.disk.term = n.term /\ a.disk.vote = m.from
    <3>1. a.faulted = FALSE /\ DOMAIN a = Fields
      BY Zenon, <2>3, <2>6 DEF SameMemory, PlainNode
    <3>2. PICK b : b = [a EXCEPT !.vote = m.from]
      BY Zenon
    <3>3. /\ b.role = a.role /\ b.term = a.term /\ b.vote = m.from /\ b.leader = a.leader
          /\ b.preVoteTerm = a.preVoteTerm /\ b.preVoteMask = a.preVoteMask
          /\ b.voteMask = a.voteMask /\ b.faulted = a.faulted
          /\ b.disk = a.disk /\ b.out = a.out
      BY <3>1, <3>2 DEF Fields
    <3>4. PlainNode(b, i, E)
      BY <2>3, <3>1, <3>2 DEF PlainNode, Fields
    <3>5. b.term = n.term
      BY Zenon, <2>6, <3>3 DEF SameMemory
    <3>6. PICK r : r = Response(b, "RequestVoteResponse", m, b.term, FALSE)
      BY Zenon
    <3>7. o = Send(b, {r})
      BY Zenon, <2>4, <3>1, <3>2, <3>6 DEF Vote, VoteResponse
    <3>8. /\ PlainMessage(r, E) /\ r.type = "RequestVoteResponse" /\ r.from = i
          /\ r.to = m.from /\ r.term = n.term /\ r.reject = FALSE
      <4>1. b.id = i /\ m.from \in Server /\ m.from # i
        BY Zenon, <3>4 DEF PlainNode, PlainMessage
      <4>2. /\ r.type = "RequestVoteResponse" /\ r.from = i
            /\ r.to = m.from /\ r.term = n.term /\ r.reject = FALSE
        BY <3>5, <3>6, <4>1 DEF Response
      <4> QED BY ZenonT(60), <1>0, <4>1, <4>2 DEF PlainMessage
    <3>9. Answered(b, o, r, i, E)
      BY Zenon, <3>4, <3>7, <3>8, Answers
    <3>10. Voted(n, o, m, r, i, E)
      BY Zenon, <2>6, <3>1, <3>3, <3>5, <3>8, <3>9
         DEF Voted, Answered, SameState, SameMemory
    <3> QED BY Zenon, <2>1, <3>8, <3>10 DEF VoteGranted
  <2> QED BY Zenon, <2>3, <2>5, <2>6
<1> QED BY Zenon, <1>1, <1>2

\* o is n after counting a vote.
VoteCounted(n, o, m, i, E) ==
  /\ n.role = "Candidate" /\ m.term = n.term /\ ~m.reject
  /\ \E q : /\ PlainNode(q, i, E)
            /\ q.role = n.role /\ q.term = n.term /\ q.vote = n.vote /\ q.leader = n.leader
            /\ q.preVoteTerm = n.preVoteTerm /\ q.preVoteMask = n.preVoteMask
            /\ q.voteMask = n.voteMask \cup {m.from} /\ q.faulted = FALSE
            /\ q.disk = n.disk /\ q.out = n.out
            /\ IF majorityMask(Server, q.voteMask) THEN LedOrFailed(q, o, i, E) ELSE o = q

\* A vote counts for the term it was cast in (onVoteResponse).
LEMMA OnVoteResponse ==
  ASSUME Server # {}, NEW n, NEW i \in Server, NEW E, PlainEntries(E), PlainNode(n, i, E),
         Saved(n), n.faulted = FALSE, NEW m, PlainMessage(m, E), NEW o, o = onVoteResponse(n, m)
  PROVE  o = n \/ VoteCounted(n, o, m, i, E)
<1>1. CASE o = n
  BY Zenon, <1>1
<1>2. CASE /\ n.role = "Candidate" /\ m.term = n.term /\ ~m.reject
           /\ o = LeadIfVoted([n EXCEPT !.voteMask = @ \cup {m.from}])
  <2>1. PICK q : q = [n EXCEPT !.voteMask = @ \cup {m.from}]
    BY Zenon
  <2>2. DOMAIN n = Fields
    BY Zenon DEF PlainNode
  <2>3. /\ q.role = n.role /\ q.term = n.term /\ q.vote = n.vote /\ q.leader = n.leader
        /\ q.preVoteTerm = n.preVoteTerm /\ q.preVoteMask = n.preVoteMask
        /\ q.voteMask = n.voteMask \cup {m.from}
        /\ q.faulted = n.faulted /\ q.disk = n.disk /\ q.out = n.out
    BY <2>1, <2>2 DEF Fields
  <2>4. PlainNode(q, i, E)
    BY <2>1, <2>2 DEF PlainNode, Fields
  <2>5. quorumMask(q, q.voteMask) <=> majorityMask(Server, q.voteMask)
    BY Zenon, <2>4, Quorums
  <2>6. Saved(q) /\ q.faulted = FALSE
    BY Zenon, <2>3 DEF Saved
  <2>7. majorityMask(Server, q.voteMask) => LedOrFailed(q, o, i, E)
    BY Zenon, <1>2, <2>1, <2>4, <2>5, <2>6, BecomesLeader DEF LeadIfVoted
  <2>8. ~majorityMask(Server, q.voteMask) => o = q
    BY Zenon, <1>2, <2>1, <2>5 DEF LeadIfVoted
  <2>9. VoteCounted(n, o, m, i, E)
    BY Zenon, <1>2, <2>3, <2>4, <2>6, <2>7, <2>8 DEF VoteCounted
  <2> QED BY Zenon, <1>2, <2>9
<1> QED BY Zenon, <1>1, <1>2 DEF onVoteResponse

\* o is n after the leader it knows told it to take over.
TookOver(n, o, m, i, E) ==
  /\ n.role = "Follower" /\ m.term = n.term /\ m.from = n.leader
  /\ Campaigned(n, o, i, E)

\* Only the leader a follower knows can make it start an election at once (onTimeoutNow).
LEMMA OnTimeoutNow ==
  ASSUME Server # {}, NEW n, NEW i \in Server, NEW E, PlainEntries(E), PlainNode(n, i, E),
         n.faulted = FALSE, NEW m, NEW o, o = onTimeoutNow(n, m)
  PROVE  o = n \/ TookOver(n, o, m, i, E)
BY Zenon, StartsElection DEF onTimeoutNow, TookOver

-----------------------------------------------------------------------------
(***************************************************************************)
(* Replication at a follower.                                              *)
(***************************************************************************)

\* o is n, with k in its log.
Kept(n, o, k) == Quiet(n, o) /\ o.base = n.base /\ o.commit = n.commit /\ k <= LastIndex(o)

\* What is left of a log that is cut is a log (UpTo).
LEMMA PrefixPlain ==
  ASSUME NEW n, NEW i, NEW E, PlainNode(n, i, E), NEW k \in Nat, HasIndex(n, k)
  PROVE  UpTo(n, k) \in Seq(E) /\ n.base + Len(UpTo(n, k)) = k
<1>1. n.log \in Seq(E) /\ n.base \in Nat
  BY Zenon DEF PlainNode
<1>2. PICK len \in Nat : len = Len(n.log)
  BY <1>1
<1>3. PICK c \in Nat : c = k - n.base /\ c <= len
  BY <1>1, <1>2 DEF HasIndex, LastIndex
<1>4. UpTo(n, k) = SubSeq(n.log, 1, c)
  BY Zenon, <1>3 DEF UpTo
<1> QED BY <1>1, <1>2, <1>3, <1>4

\* A conflicting suffix is cut (onAppend).
LEMMA Cuts ==
  ASSUME NEW n, NEW i, NEW E, PlainEntries(E), PlainNode(n, i, E), NEW e,
         NEW j \in Nat, HasIndex(n, j), NEW k \in Nat, k = j + 1, NEW o, o = Cut(n, k, e)
  PROVE  /\ PlainNode(o, i, E) /\ Quiet(n, o) /\ o.base = n.base /\ o.commit = n.commit
         /\ LastIndex(o) \in Nat /\ j <= LastIndex(o)
<1>1. CASE o = n
  <2>1. LastIndex(n) \in Nat /\ j <= LastIndex(n)
    BY Zenon, LastIndexType DEF HasIndex
  <2> QED BY Zenon, <1>1, <2>1 DEF Quiet, SameState, SameMemory
<1>2. CASE o = rebuildPendingConfig([n EXCEPT !.log = UpTo(n, k - 1)])
  <2>1. k - 1 = j
    OBVIOUS
  <2>2. PICK log : log = UpTo(n, j)
    BY Zenon
  <2>3. log \in Seq(E) /\ n.base + Len(log) = j
    BY Zenon, <2>2, PrefixPlain
  <2>4. PICK p : p = [n EXCEPT !.log = log]
    BY Zenon
  <2>5. /\ PlainNode(p, i, E) /\ Quiet(n, p) /\ p.base = n.base /\ p.commit = n.commit
        /\ p.log = log
    BY <2>3, <2>4 DEF PlainNode, Fields, Quiet, SameState, SameMemory
  <2>6. o = rebuildPendingConfig(p)
    BY Zenon, <1>2, <2>1, <2>2, <2>4
  <2>7. PlainNode(o, i, E) /\ Quiet(p, o) /\ SameLog(p, o)
    BY Zenon, <2>5, <2>6, NothingPending
  <2>8. LastIndex(o) = j
    BY Zenon, <2>3, <2>5, <2>7 DEF LastIndex, SameLog
  <2>9. j <= j
    OBVIOUS
  <2> QED BY Zenon, <2>5, <2>7, <2>8, <2>9 DEF Quiet, SameState, SameMemory, SameLog
<1> QED BY Zenon, <1>1, <1>2 DEF Cut

\* A new entry is stored before it is in the log (onAppend).
LEMMA Adds ==
  ASSUME NEW n, NEW i, NEW E, PlainEntries(E), PlainNode(n, i, E), n.faulted = FALSE,
         NEW e \in E, NEW j \in Nat, j <= LastIndex(n), NEW k \in Nat, k = j + 1,
         NEW o, o = Add(n, k, e)
  PROVE  PlainNode(o, i, E) /\ (Failed(n, o) \/ Kept(n, o, k))
<1>1. CASE k # LastIndex(n) + 1
  <2>1. LastIndex(n) \in Nat
    BY Zenon, LastIndexType
  <2>2. k <= LastIndex(n)
    BY <1>1, <2>1
  <2>3. o = n
    BY Zenon, <1>1 DEF Add
  <2> QED BY Zenon, <2>2, <2>3 DEF Kept, Quiet, SameState, SameMemory
<1>2. CASE k = LastIndex(n) + 1
  <2>1. PICK p : p = StoreAppend(n, k, e)
    BY Zenon
  <2>2. PlainNode(p, i, E) /\ (Failed(n, p) \/ (Quiet(n, p) /\ SameLog(n, p)))
    BY Zenon, <2>1, StoresEntry
  <2>3. o = AddStored(p, k, e)
    BY Zenon, <1>2, <2>1 DEF Add
  <2>4. CASE Failed(n, p)
    BY Zenon, <2>2, <2>3, <2>4 DEF AddStored, Failed
  <2>5. CASE Quiet(n, p) /\ SameLog(n, p)
    <3>1. p.faulted = FALSE /\ DOMAIN p = Fields /\ ~IsConfig(e)
      BY Zenon, <2>2, <2>5 DEF Quiet, SameState, SameMemory, PlainNode, PlainEntries, IsConfig
    <3>2. o = [p EXCEPT !.log = Append(@, e)]
      BY Zenon, <2>3, <3>1 DEF AddStored
    <3>3. p.log \in Seq(E) /\ p.base \in Nat
      BY Zenon, <2>2 DEF PlainNode
    <3>4. PICK log : log = Append(p.log, e)
      BY Zenon
    <3>5. log \in Seq(E) /\ Len(log) = Len(p.log) + 1 /\ Len(p.log) \in Nat
      BY <3>3, <3>4
    <3>6. o = [p EXCEPT !.log = log]
      BY Zenon, <3>2, <3>4
    <3>7. PlainNode(o, i, E)
      <4>1. /\ DOMAIN o = Fields /\ o.log = log /\ o.id = p.id /\ o.peers = p.peers
            /\ o.term = p.term /\ o.base = p.base /\ o.commit = p.commit
            /\ o.next = p.next /\ o.snapshot = p.snapshot /\ o.disk = p.disk
            /\ o.votersOld = p.votersOld /\ o.votersNew = p.votersNew
            /\ o.pendingConfig = p.pendingConfig
        BY <3>1, <3>6 DEF Fields
      <4> QED BY Zenon, <2>2, <3>5, <4>1 DEF PlainNode
    <3>8. Quiet(p, o) /\ o.base = p.base /\ o.commit = p.commit /\ o.log = log
      BY <3>1, <3>6 DEF Quiet, SameState, SameMemory, Fields
    <3>9. k = LastIndex(p) + 1
      BY Zenon, <1>2, <2>5 DEF LastIndex, SameLog
    <3>10. k <= LastIndex(o)
      BY <3>3, <3>5, <3>8, <3>9 DEF LastIndex
    <3> QED BY Zenon, <2>5, <3>7, <3>8, <3>10 DEF Kept, Quiet, SameState, SameMemory, SameLog
  <2> QED BY Zenon, <2>2, <2>4, <2>5
<1> QED BY Zenon, <1>1, <1>2

\* The entry of an Append is stored, or the node fail-stops (onAppend).
LEMMA StoresAt ==
  ASSUME NEW n, NEW i, NEW E, PlainEntries(E), PlainNode(n, i, E), n.faulted = FALSE,
         NEW e \in E, NEW j \in Nat, HasIndex(n, j), NEW k \in Nat, k = j + 1,
         NEW o, o = StoreEntry(n, k, e)
  PROVE  PlainNode(o, i, E) /\ (Failed(n, o) \/ Kept(n, o, k))
<1>1. PICK p : p = Cut(n, k, e)
  BY Zenon
<1>2. /\ PlainNode(p, i, E) /\ Quiet(n, p) /\ p.base = n.base /\ p.commit = n.commit
      /\ LastIndex(p) \in Nat /\ j <= LastIndex(p)
  BY <1>1, Cuts
<1>3. p.faulted = FALSE
  BY Zenon, <1>2 DEF Quiet, SameState, SameMemory
<1>4. o = Add(p, k, e)
  BY Zenon, <1>1 DEF StoreEntry
<1>5. PlainNode(o, i, E) /\ (Failed(p, o) \/ Kept(p, o, k))
  BY Zenon, <1>2, <1>3, <1>4, Adds
<1> QED BY Zenon, <1>2, <1>5 DEF Kept, Failed, Quiet, SameState, SameMemory

\* A follower commits no further than its log is known to match (onAppend).
LEMMA CommitsWith ==
  ASSUME NEW n, NEW i, NEW E, PlainEntries(E), PlainNode(n, i, E), Saved(n),
         n.faulted = FALSE, NEW m, m.commit \in Nat, NEW k \in Nat, k = Matched(m),
         k <= LastIndex(n), NEW o, o = CommitWith(n, m)
  PROVE  PlainNode(o, i, E) /\ (Failed(n, o) \/ Quiet(n, o))
<1>1. CASE o = n
  BY Zenon, <1>1 DEF Quiet, SameState, SameMemory
<1>2. CASE m.commit > n.commit /\ k > n.commit /\ o = CommitTo(n, Min({m.commit, k}))
  <2>1. PICK c : c = Min({m.commit, k})
    BY Zenon
  <2>2. c \in {m.commit, k} /\ c <= k
    BY Zenon, <2>1, MinOfTwo
  <2>3. n.base \in Nat /\ n.commit \in Nat /\ n.base <= n.commit
    BY Zenon DEF PlainNode
  <2>4. PICK last \in Nat : last = LastIndex(n)
    BY Zenon, LastIndexType
  <2>5. c \in Nat /\ n.base <= c /\ c <= last
    BY <1>2, <2>2, <2>3, <2>4
  <2>6. o = CommitTo(n, c)
    BY Zenon, <1>2, <2>1
  <2> QED BY Zenon, <2>4, <2>5, <2>6, CommitsTo
<1> QED BY Zenon, <1>1, <1>2 DEF CommitWith

\* o is n after following m's sender, answered by r.
Followed(n, o, m, r, i, E) ==
  /\ PlainNode(o, i, E)
  /\ o.role = "Follower" /\ o.term = n.term /\ o.vote = n.vote /\ o.leader = m.from
  /\ o.preVoteTerm = n.preVoteTerm /\ o.preVoteMask = n.preVoteMask
  /\ o.voteMask = n.voteMask /\ o.faulted = FALSE
  /\ o.disk.term = n.disk.term /\ o.disk.vote = n.disk.vote
  /\ o.out = n.out \cup {r} /\ PlainMessage(r, E)

\* o is n after it refused m, with an answer of this type.
Refused(n, o, m, type, i, E) ==
  \E r : /\ Answered(n, o, r, i, E) /\ r.type = type /\ r.to = m.from /\ r.term = n.term

\* o is n after it accepted m, with an answer of this type, or failed to.
Accepted(n, o, m, type, i, E) ==
  /\ ~(m.term < n.term)
  /\ \/ PlainNode(o, i, E) /\ Failed(n, o)
     \/ \E r : /\ Followed(n, o, m, r, i, E) /\ r.type = type
               /\ r.from = i /\ r.to = m.from /\ r.term = n.term

\* An Append is stored and committed, or the node fail-stops (onAppend).
LEMMA Follows ==
  ASSUME NEW n, NEW i, NEW E, PlainEntries(E), PlainNode(n, i, E), Saved(n),
         n.faulted = FALSE, NEW m, PlainMessage(m, E), m.type = "Append",
         HasIndex(n, m.logIndex), NEW o, o = Follow(n, m)
  PROVE  /\ PlainNode(o, i, E) /\ (Failed(n, o) \/ Quiet(n, o))
         /\ Matched(m) \in Nat
<1>1. m.logIndex \in Nat /\ m.commit \in Nat /\ m.entries \in Batch(E)
  BY Zenon DEF PlainMessage
<1>2. PICK j \in Nat : j = m.logIndex
  BY Zenon, <1>1
<1>3. CASE m.entries = <<>>
  <2>1. PICK k \in Nat : k = Matched(m) /\ k = j
    BY <1>2, <1>3 DEF Matched
  <2>2. k <= LastIndex(n)
    BY Zenon, <1>2, <2>1 DEF HasIndex
  <2>3. o = CommitWith(n, m)
    BY Zenon, <1>3 DEF Follow
  <2>4. PlainNode(o, i, E) /\ (Failed(n, o) \/ Quiet(n, o))
    BY Zenon, <1>1, <2>1, <2>2, <2>3, CommitsWith
  <2> QED BY Zenon, <2>1, <2>4
<1>4. CASE m.entries \in {<<e>> : e \in E}
  <2>1. PICK e \in E : m.entries = <<e>>
    BY Zenon, <1>4
  <2>2. m.entries # <<>> /\ m.entries[1] = e /\ Len(m.entries) = 1
    BY <2>1
  <2>3. PICK k \in Nat : k = Matched(m) /\ k = j + 1
    BY <1>2, <2>2 DEF Matched
  <2>4. PICK p : p = StoreEntry(n, k, e)
    BY Zenon
  <2>5. HasIndex(n, j)
    BY Zenon, <1>2
  <2>6. PlainNode(p, i, E) /\ (Failed(n, p) \/ Kept(n, p, k))
    BY Zenon, <2>3, <2>4, <2>5, StoresAt
  <2>7. o = CommitWith(p, m)
    BY Zenon, <2>2, <2>3, <2>4 DEF Follow
  <2>8. CASE Failed(n, p)
    BY Zenon, <2>3, <2>6, <2>7, <2>8 DEF CommitWith, Failed
  <2>9. CASE Kept(n, p, k)
    <3>1. k <= LastIndex(p) /\ Saved(p) /\ p.faulted = FALSE /\ Quiet(n, p)
      BY Zenon, <2>9 DEF Kept, Saved, Quiet, SameState, SameMemory
    <3>2. PlainNode(o, i, E) /\ (Failed(p, o) \/ Quiet(p, o))
      BY Zenon, <1>1, <2>3, <2>6, <2>7, <3>1, CommitsWith
    <3> QED BY Zenon, <2>3, <3>1, <3>2 DEF Failed, Quiet, SameState, SameMemory
  <2> QED BY Zenon, <2>6, <2>8, <2>9
<1> QED BY Zenon, <1>1, <1>3, <1>4 DEF Batch

\* An Append that is accepted makes its sender the leader; one that is rejected changes
\* nothing; both are answered, unless a write fails (onAppend).
LEMMA OnAppend ==
  ASSUME NEW n, NEW i \in Server, NEW E, PlainEntries(E), PlainNode(n, i, E), Saved(n),
         n.faulted = FALSE, NEW m, PlainMessage(m, E), m.type = "Append", m.to = i,
         NEW o, o = onAppend(n, m)
  PROVE  \/ Refused(n, o, m, "AppendResponse", i, E)
         \/ Accepted(n, o, m, "AppendResponse", i, E)
<1>1. CASE AppendRejected(n, m)
  <2>1. PICK r : r = MatchResponse(n, "AppendResponse", m, TRUE, LastIndex(n), m.context)
    BY Zenon
  <2>2. o = Send(n, {r})
    BY Zenon, <1>1, <2>1 DEF onAppend, AppendResponse
  <2>3. LastIndex(n) \in Nat
    BY Zenon, LastIndexType
  <2>5. /\ PlainMessage(r, E) /\ r.type = "AppendResponse" /\ r.from = i
        /\ r.to = m.from /\ r.term = n.term
    <3>1. n.id = i /\ n.term \in Nat /\ m.from \in Server /\ m.from # i
      BY Zenon DEF PlainNode, PlainMessage
    <3>2. /\ r.type = "AppendResponse" /\ r.from = i /\ r.to = m.from /\ r.term = n.term
          /\ r.match = LastIndex(n)
      BY <2>1, <3>1 DEF MatchResponse
    <3> QED BY <2>3, <3>1, <3>2 DEF PlainMessage
  <2>6. Answered(n, o, r, i, E)
    BY Zenon, <2>2, <2>5, Answers
  <2> QED BY Zenon, <2>5, <2>6 DEF Refused
<1>2. CASE ~AppendRejected(n, m)
  <2>1. ~(m.term < n.term) /\ HasIndex(n, m.logIndex)
    BY Zenon, <1>2 DEF AppendRejected
  <2>2. PICK a : a = [n EXCEPT !.role = "Follower", !.leader = m.from]
    BY Zenon
  <2>3. /\ PlainNode(a, i, E) /\ SameLog(n, a)
        /\ a.role = "Follower" /\ a.term = n.term /\ a.vote = n.vote /\ a.leader = m.from
        /\ a.preVoteTerm = n.preVoteTerm /\ a.preVoteMask = n.preVoteMask
        /\ a.voteMask = n.voteMask /\ a.faulted = FALSE /\ a.disk = n.disk /\ a.out = n.out
    <3>1. DOMAIN n = Fields
      BY Zenon DEF PlainNode
    <3>2. PlainNode(a, i, E)
      BY <2>2, <3>1 DEF PlainNode, Fields
    <3>3. /\ SameLog(n, a)
          /\ a.role = "Follower" /\ a.term = n.term /\ a.vote = n.vote /\ a.leader = m.from
          /\ a.preVoteTerm = n.preVoteTerm /\ a.preVoteMask = n.preVoteMask
          /\ a.voteMask = n.voteMask /\ a.faulted = n.faulted /\ a.disk = n.disk
          /\ a.out = n.out
      BY <2>2, <3>1 DEF SameLog, Fields
    <3> QED BY Zenon, <3>2, <3>3
  <2>4. Saved(a) /\ HasIndex(a, m.logIndex)
    BY Zenon, <2>1, <2>3 DEF Saved, HasIndex, LastIndex, SameLog
  <2>5. PICK b : b = Follow(a, m)
    BY Zenon
  <2>6. /\ PlainNode(b, i, E) /\ (Failed(a, b) \/ Quiet(a, b))
        /\ Matched(m) \in Nat
    BY Zenon, <2>3, <2>4, <2>5, Follows
  <2>7. o = AppendResponse(b, m, FALSE, Matched(m))
    BY Zenon, <1>2, <2>2, <2>5 DEF onAppend
  <2>8. CASE Failed(a, b)
    <3>1. o = b
      BY Zenon, <2>7, <2>8 DEF AppendResponse, Failed
    <3> QED BY Zenon, <2>1, <2>3, <2>6, <2>8, <3>1 DEF Failed, Accepted
  <2>9. CASE Quiet(a, b)
    <3>1. b.faulted = FALSE /\ b.term = n.term
      BY Zenon, <2>3, <2>9 DEF Quiet, SameState, SameMemory
    <3>2. PICK r : r = MatchResponse(b, "AppendResponse", m, FALSE, Matched(m), m.context)
      BY Zenon
    <3>3. o = Send(b, {r})
      BY Zenon, <2>7, <3>1, <3>2 DEF AppendResponse
    <3>5. /\ PlainMessage(r, E) /\ r.type = "AppendResponse" /\ r.from = i
          /\ r.to = m.from /\ r.term = b.term
      <4>1. b.id = i /\ b.term \in Nat /\ m.from \in Server /\ m.from # i
        BY Zenon, <2>6 DEF PlainNode, PlainMessage
      <4>2. /\ r.type = "AppendResponse" /\ r.from = i /\ r.to = m.from /\ r.term = b.term
            /\ r.match = Matched(m)
        BY <3>2, <4>1 DEF MatchResponse
      <4> QED BY <2>6, <4>1, <4>2 DEF PlainMessage
    <3>6. Answered(b, o, r, i, E)
      BY Zenon, <2>6, <3>3, <3>5, Answers
    <3>7. Followed(n, o, m, r, i, E)
      BY Zenon, <2>3, <2>9, <3>1, <3>5, <3>6
         DEF Followed, Answered, Quiet, SameState, SameMemory
    <3> QED BY Zenon, <2>1, <3>1, <3>5, <3>7 DEF Accepted
  <2> QED BY Zenon, <2>6, <2>8, <2>9
<1> QED BY Zenon, <1>1, <1>2

-----------------------------------------------------------------------------
(***************************************************************************)
(* Replication at a leader.                                                *)
(***************************************************************************)

\* o is n after Appends or snapshots to some peers.
Sent(n, o, i, E) == \E S \in SUBSET (Server \ {i}) : Replicated(n, o, i, S, E)

\* Sending to nobody.
LEMMA SentNothing ==
  ASSUME NEW n, NEW i, NEW E, NEW o, PlainNode(o, i, E), Quiet(n, o)
  PROVE  Sent(n, o, i, E)
<1>1. Mail({}, Replication, i, n.term, {}, E)
  BY Zenon DEF Mail
<1>2. o.out = n.out \cup {}
  BY Zenon DEF Quiet
<1>3. Replicated(n, o, i, {}, E)
  BY Zenon, <1>1, <1>2 DEF Replicated, Quiet
<1> QED BY Zenon, <1>3 DEF Sent

\* Sending twice is sending to more peers.
LEMMA SentTwice ==
  ASSUME NEW n, NEW p, NEW o, NEW i, NEW E, Sent(n, p, i, E), Sent(p, o, i, E)
  PROVE  Sent(n, o, i, E)
<1>1. PICK S, M :
        /\ S \in SUBSET (Server \ {i})
        /\ Mail(M, Replication, i, n.term, S, E) /\ p.out = n.out \cup M /\ SameState(n, p)
  BY Zenon DEF Sent, Replicated
<1>2. PICK R, L :
        /\ R \in SUBSET (Server \ {i})
        /\ Mail(L, Replication, i, p.term, R, E) /\ o.out = p.out \cup L /\ SameState(p, o)
        /\ PlainNode(o, i, E)
  BY Zenon DEF Sent, Replicated
<1>3. p.term = n.term
  BY Zenon, <1>1 DEF SameState, SameMemory
<1>4. Mail(M \cup L, Replication, i, n.term, S \cup R, E)
  BY Zenon, <1>1, <1>2, <1>3 DEF Mail
<1>5. o.out = n.out \cup (M \cup L) /\ SameState(n, o)
  BY Zenon, <1>1, <1>2 DEF SameState, SameMemory
<1>6. Replicated(n, o, i, S \cup R, E)
  BY Zenon, <1>2, <1>4, <1>5 DEF Replicated
<1> QED BY Zenon, <1>1, <1>2, <1>6 DEF Sent

\* A nonempty set of numbers that is bounded has a greatest element.
LEMMA MaxOf ==
  ASSUME NEW n \in Nat, NEW S \in SUBSET (0 .. n), S # {}
  PROVE  Max(S) \in S
<1> DEFINE T == {m \in Nat : \A R \in SUBSET (0 .. m) : R # {} => \E x \in R : \A y \in R : x >= y}
<1>1. 0 \in T
  <2> SUFFICES ASSUME NEW R \in SUBSET (0 .. 0), R # {}
               PROVE  \E x \in R : \A y \in R : x >= y
    BY Zenon
  <2>1. \A y \in 0 .. 0 : y = 0
    OBVIOUS
  <2>2. \A y \in R : y = 0
    BY Zenon, <2>1
  <2>3. 0 \in R
    BY Zenon, <2>2
  <2> QED BY <2>2, <2>3
<1>2. ASSUME NEW m \in T PROVE m + 1 \in T
  <2> SUFFICES ASSUME NEW R \in SUBSET (0 .. m + 1), R # {}
               PROVE  \E x \in R : \A y \in R : x >= y
    OBVIOUS
  <2>1. CASE m + 1 \in R
    BY <2>1
  <2>2. CASE m + 1 \notin R
    <3>1. R \in SUBSET (0 .. m)
      BY <2>2
    <3> QED BY Zenon, <3>1
  <2> QED BY Zenon, <2>1, <2>2
<1>3. \A m \in Nat : m \in T
  <2> HIDE DEF T
  <2>1. T \in SUBSET Nat
    BY Zenon DEF T
  <2> QED BY Zenon, <1>1, <1>2, <2>1, SetInduction
<1>4. \E x \in S : \A y \in S : x >= y
  BY Zenon, <1>3
<1> QED BY Zenon, <1>4 DEF Max

\* What a quorum holds is committed, or the node fail-stops (onAppendResponse).
LEMMA CommitsMatched ==
  ASSUME NEW n, NEW i, NEW E, PlainEntries(E), PlainNode(n, i, E), Saved(n),
         n.faulted = FALSE, NEW o, o = CommitMatched(n)
  PROVE  PlainNode(o, i, E) /\ (Failed(n, o) \/ Quiet(n, o))
<1>1. PICK last \in Nat : last = LastIndex(n)
  BY Zenon, LastIndexType
<1>2. n.base \in Nat /\ n.commit \in Nat /\ n.base <= n.commit
  BY Zenon DEF PlainNode
<1>3. PICK S : S = Committable(n)
  BY Zenon
<1>4. S \subseteq n.commit + 1 .. last
  BY Zenon, <1>1, <1>3 DEF Committable
<1>5. CASE S = {}
  <2>1. o = n
    BY Zenon, <1>3, <1>5 DEF CommitMatched, CommitHighest
  <2> QED BY Zenon, <2>1 DEF Quiet, SameState, SameMemory
<1>6. CASE S # {}
  <2>1. PICK c : c = Max(S)
    BY Zenon
  <2>2. S \in SUBSET (0 .. last)
    BY <1>2, <1>4
  <2>3. c \in S
    BY Zenon, <1>6, <2>1, <2>2, MaxOf
  <2>4. c \in Nat /\ n.base <= c /\ c <= last
    BY <1>2, <1>4, <2>3
  <2>5. o = CommitTo(n, c)
    BY Zenon, <1>3, <1>6, <2>1 DEF CommitMatched, CommitHighest
  <2> QED BY Zenon, <1>1, <2>4, <2>5, CommitsTo
<1> QED BY Zenon, <1>5, <1>6

\* An acknowledgement of a read changes nothing of the election state
\* (onAppendResponse).
LEMMA AcknowledgesRead ==
  ASSUME NEW n, NEW i, NEW E, PlainNode(n, i, E), NEW m, NEW o, o = AcknowledgeRead(n, m)
  PROVE  PlainNode(o, i, E) /\ Quiet(n, o) /\ SameLog(n, o)
<1>0. ASSUME NEW p, PlainNode(p, i, E), NEW q,
             q = [p EXCEPT !.readIndex = p.commit, !.readReady = TRUE]
      PROVE  PlainNode(q, i, E) /\ Quiet(p, q) /\ SameLog(p, q)
  BY <1>0 DEF PlainNode, Fields, Quiet, SameState, SameMemory, SameLog
<1>1. CASE o = n
  BY Zenon, <1>1 DEF Quiet, SameState, SameMemory, SameLog
<1>2. CASE o = ReadyIfAcknowledged([n EXCEPT !.readAckMask = @ \cup {m.from}])
  <2>1. PICK p : p = [n EXCEPT !.readAckMask = @ \cup {m.from}]
    BY Zenon
  <2>2. PlainNode(p, i, E) /\ Quiet(n, p) /\ SameLog(n, p)
    BY <2>1 DEF PlainNode, Fields, Quiet, SameState, SameMemory, SameLog
  <2>3. CASE o = p
    BY Zenon, <2>2, <2>3
  <2>4. CASE o = [p EXCEPT !.readIndex = p.commit, !.readReady = TRUE]
    <3>1. PlainNode(o, i, E) /\ Quiet(p, o) /\ SameLog(p, o)
      BY Zenon, <1>0, <2>2, <2>4
    <3> QED BY Zenon, <2>2, <3>1 DEF Quiet, SameState, SameMemory, SameLog
  <2> QED BY Zenon, <1>2, <2>1, <2>3, <2>4 DEF ReadyIfAcknowledged
<1> QED BY Zenon, <1>1, <1>2 DEF AcknowledgeRead

\* Where replication to a peer stands is no part of the election state (onAppendResponse).
LEMMA Moves ==
  ASSUME NEW n, NEW i, NEW E, PlainNode(n, i, E), NEW p \in Server, NEW match \in Nat,
         NEW o, o = Match(n, p, match) \/ o = BackedOff(n, p)
  PROVE  PlainNode(o, i, E) /\ Quiet(n, o) /\ SameLog(n, o)
<1>1. DOMAIN n = Fields /\ n.next \in [Server -> Nat] /\ n.next[p] \in Nat
  BY Zenon DEF PlainNode
<1>2. CASE o = Match(n, p, match)
  <2>1. PICK next : next = [n.next EXCEPT ![p] = match + 1]
    BY Zenon
  <2>2. PICK matched : matched = [n.match EXCEPT ![p] = match]
    BY Zenon
  <2>3. next \in [Server -> Nat]
    BY <1>1, <2>1
  <2>4. o = [n EXCEPT !.match = matched, !.next = next]
    BY <1>1, <1>2, <2>1, <2>2 DEF Match, Fields
  <2> QED BY <1>1, <2>3, <2>4
        DEF PlainNode, Fields, Quiet, SameState, SameMemory, SameLog
<1>3. CASE o = BackedOff(n, p)
  <2>1. PICK next : next = [n.next EXCEPT ![p] = IF @ > 1 THEN @ - 1 ELSE @]
    BY Zenon
  <2>2. next \in [Server -> Nat]
    BY <1>1, <2>1
  <2>3. o = [n EXCEPT !.next = next]
    BY <1>1, <1>3, <2>1 DEF BackedOff, Fields
  <2> QED BY <1>1, <2>2, <2>3
        DEF PlainNode, Fields, Quiet, SameState, SameMemory, SameLog
<1> QED BY Zenon, <1>2, <1>3

\* An Append to one peer (appendTo).
LEMMA AppendsTo ==
  ASSUME NEW n, NEW i \in Server, NEW E, PlainEntries(E), PlainNode(n, i, E),
         NEW p \in Server, p # i, NEW o, o = appendTo(n, p)
  PROVE  Sent(n, o, i, E)
<1>1. {p} \in SUBSET (Server \ {i})
  BY Zenon
<1>2. o = appendToContext(n, {p}, 0)
  BY Zenon DEF appendTo
<1>3. Replicated(n, o, i, {p}, E)
  BY Zenon, <1>1, <1>2, Replicates
<1> QED BY Zenon, <1>1, <1>3 DEF Sent

\* A leader sends a peer what it still misses (onAppendResponse,
\* onInstallSnapshotResponse).
LEMMA SendsRest ==
  ASSUME NEW n, NEW i \in Server, NEW E, PlainEntries(E), PlainNode(n, i, E),
         NEW p \in Server, p # i, NEW o, o = SendRest(n, p)
  PROVE  Sent(n, o, i, E)
<1>1. CASE o = n
  <2>1. Quiet(n, o)
    BY Zenon, <1>1 DEF Quiet, SameState, SameMemory
  <2> QED BY Zenon, <1>1, <2>1, SentNothing
<1>2. CASE o = appendTo(n, p)
  BY Zenon, <1>2, AppendsTo
<1> QED BY Zenon, <1>1, <1>2 DEF SendRest

\* A leader tells the voters of a new commit index (onAppendResponse).
LEMMA TellsCommit ==
  ASSUME Server # {}, NEW n, NEW i \in Server, NEW E, PlainEntries(E), PlainNode(n, i, E),
         NEW before, NEW o, o = TellCommit(n, before)
  PROVE  Sent(n, o, i, E)
<1>1. CASE o = n
  <2>1. Quiet(n, o)
    BY Zenon, <1>1 DEF Quiet, SameState, SameMemory
  <2> QED BY Zenon, <1>1, <2>1, SentNothing
<1>2. CASE o = broadcastAppend(n)
  <2>1. Replicated(n, o, i, Server \ {i}, E)
    BY Zenon, <1>2, Broadcasts
  <2> QED BY Zenon, <2>1 DEF Sent
<1> QED BY Zenon, <1>1, <1>2 DEF TellCommit

\* A leader that counts an acknowledgement commits and sends, or fail-stops
\* (onAppendResponse).
LEMMA CountsMatch ==
  ASSUME Server # {}, NEW n, NEW i \in Server, NEW E, PlainEntries(E), PlainNode(n, i, E),
         Saved(n), n.faulted = FALSE, NEW p \in Server, p # i, NEW match \in Nat,
         NEW o, o = SendRest(TellCommit(CommitMatched(Match(n, p, match)), n.commit), p)
  PROVE  Sent(n, o, i, E) \/ (PlainNode(o, i, E) /\ Failed(n, o))
<1>1. PICK a : a = Match(n, p, match)
  BY Zenon
<1>2. PlainNode(a, i, E) /\ Quiet(n, a) /\ SameLog(n, a)
  BY Zenon, <1>1, Moves
<1>3. Saved(a) /\ a.faulted = FALSE
  BY Zenon, <1>2 DEF Saved, Quiet, SameState, SameMemory
<1>4. PICK b : b = CommitMatched(a)
  BY Zenon
<1>5. PlainNode(b, i, E) /\ (Failed(a, b) \/ Quiet(a, b))
  BY Zenon, <1>2, <1>3, <1>4, CommitsMatched
<1>6. PICK c : c = TellCommit(b, n.commit)
  BY Zenon
<1>7. o = SendRest(c, p)
  BY Zenon, <1>1, <1>4, <1>6
<1>8. CASE Failed(a, b)
  <2>1. b.role # "Leader"
    BY <1>8 DEF Failed
  <2>2. o = b
    BY Zenon, <1>6, <1>7, <2>1 DEF TellCommit, SendRest
  <2> QED BY Zenon, <1>2, <1>5, <1>8, <2>2 DEF Failed, Quiet, SameState, SameMemory
<1>9. CASE Quiet(a, b)
  <2>1. Quiet(n, b)
    BY Zenon, <1>2, <1>9 DEF Quiet, SameState, SameMemory
  <2>2. Sent(n, b, i, E)
    BY Zenon, <1>5, <2>1, SentNothing
  <2>3. Sent(b, c, i, E)
    BY Zenon, <1>5, <1>6, TellsCommit
  <2>4. PlainNode(c, i, E)
    BY Zenon, <2>3 DEF Sent, Replicated
  <2>5. Sent(c, o, i, E)
    BY Zenon, <1>7, <2>4, SendsRest
  <2> QED BY Zenon, <2>2, <2>3, <2>5, SentTwice
<1> QED BY Zenon, <1>5, <1>8, <1>9

\* An AppendResponse concerns a leader only, and changes nothing of its election state
\* unless a write fails (onAppendResponse).
LEMMA OnAppendResponse ==
  ASSUME Server # {}, NEW n, NEW i \in Server, NEW E, PlainEntries(E), PlainNode(n, i, E),
         Saved(n), n.faulted = FALSE, NEW m, PlainMessage(m, E), m.type = "AppendResponse",
         m.to = i, NEW o, o = onAppendResponse(n, m)
  PROVE  \/ PlainNode(o, i, E) /\ Quiet(n, o)
         \/ n.role = "Leader" /\ (Sent(n, o, i, E) \/ (PlainNode(o, i, E) /\ Failed(n, o)))
<1>1. PICK p : p = m.from
  BY Zenon
<1>2. p \in Server /\ p # i /\ m.match \in Nat
  BY <1>1 DEF PlainMessage
<1>3. PICK a : a = AcknowledgeRead(n, m)
  BY Zenon
<1>4. PlainNode(a, i, E) /\ Quiet(n, a) /\ SameLog(n, a)
  BY Zenon, <1>3, AcknowledgesRead
<1>5. Saved(a) /\ a.faulted = FALSE
  BY Zenon, <1>4 DEF Saved, Quiet, SameState, SameMemory
<1>6. o = Replicate(a, m)
  BY Zenon, <1>3 DEF onAppendResponse
<1>7. Sent(n, a, i, E)
  BY Zenon, <1>4, SentNothing
<1>8. CASE o = a
  BY Zenon, <1>4, <1>8
<1>9. CASE a.role = "Leader" /\ o = appendTo(BackedOff(a, p), p)
  <2>1. PICK b : b = BackedOff(a, p)
    BY Zenon
  <2>2. PlainNode(b, i, E) /\ Quiet(a, b)
    BY Zenon, <1>2, <1>4, <2>1, Moves
  <2>3. Sent(a, b, i, E)
    BY Zenon, <2>2, SentNothing
  <2>4. Sent(b, o, i, E)
    BY Zenon, <1>2, <1>9, <2>1, <2>2, AppendsTo
  <2>5. n.role = "Leader"
    BY Zenon, <1>4, <1>9 DEF Quiet, SameState, SameMemory
  <2> QED BY Zenon, <1>7, <2>3, <2>4, <2>5, SentTwice
<1>10. CASE /\ a.role = "Leader"
            /\ o = SendRest(TellCommit(CommitMatched(Match(a, p, m.match)), a.commit), p)
  <2>1. Sent(a, o, i, E) \/ (PlainNode(o, i, E) /\ Failed(a, o))
    BY Zenon, <1>2, <1>4, <1>5, <1>10, CountsMatch
  <2>2. n.role = "Leader"
    BY Zenon, <1>4, <1>10 DEF Quiet, SameState, SameMemory
  <2>3. Failed(a, o) => Failed(n, o)
    BY Zenon, <1>4 DEF Failed, Quiet, SameState, SameMemory
  <2> QED BY Zenon, <1>7, <2>1, <2>2, <2>3, SentTwice
<1> QED BY Zenon, <1>1, <1>6, <1>8, <1>9, <1>10 DEF Replicate

\* The answer to a snapshot concerns a leader only, and changes nothing of its election
\* state (onInstallSnapshotResponse).
LEMMA OnInstallSnapshotResponse ==
  ASSUME NEW n, NEW i \in Server, NEW E, PlainEntries(E), PlainNode(n, i, E),
         NEW m, PlainMessage(m, E), m.type = "InstallSnapshotResponse",
         m.to = i, NEW o, o = onInstallSnapshotResponse(n, m)
  PROVE  \/ PlainNode(o, i, E) /\ Quiet(n, o)
         \/ n.role = "Leader" /\ Sent(n, o, i, E)
<1>1. PICK p : p = m.from
  BY Zenon
<1>2. p \in Server /\ p # i /\ m.match \in Nat
  BY <1>1 DEF PlainMessage
<1>3. CASE o = n
  BY Zenon, <1>3 DEF Quiet, SameState, SameMemory
<1>4. CASE n.role = "Leader" /\ o = SendRest(Advance(n, p, m.match), p)
  <2>1. PICK a : a = Advance(n, p, m.match)
    BY Zenon
  <2>2. a = n \/ a = Match(n, p, m.match)
    BY Zenon, <2>1 DEF Advance
  <2>3. PlainNode(a, i, E) /\ Quiet(n, a)
    <3>1. CASE a = n
      BY Zenon, <3>1 DEF Quiet, SameState, SameMemory
    <3>2. CASE a = Match(n, p, m.match)
      BY Zenon, <1>2, <3>2, Moves
    <3> QED BY Zenon, <2>2, <3>1, <3>2
  <2>4. Sent(n, a, i, E)
    BY Zenon, <2>3, SentNothing
  <2>5. Sent(a, o, i, E)
    BY Zenon, <1>2, <1>4, <2>1, <2>3, SendsRest
  <2> QED BY Zenon, <1>4, <2>4, <2>5, SentTwice
<1> QED BY Zenon, <1>1, <1>3, <1>4 DEF onInstallSnapshotResponse

\* o is n after telling p to start an election at once.
Nudged(n, o, p, i, E) ==
  \E r : Answered(n, o, r, i, E) /\ r.type = "TimeoutNow" /\ r.to = p /\ r.term = n.term

\* A transfer brings the target up to date first, and then tells it to take over
\* (TransferLeadership).
LEMMA Transfers ==
  ASSUME NEW n, NEW i \in Server, NEW E, PlainEntries(E), PlainNode(n, i, E),
         NEW p \in Server, p # i, NEW o, o = TransferLeadership(n, p)
  PROVE  \/ Sent(n, o, i, E)
         \/ Nudged(n, o, p, i, E)
<1>1. CASE o = appendTo(n, p)
  BY Zenon, <1>1, AppendsTo
<1>2. CASE o = Send(n, {[type |-> "TimeoutNow", from |-> n.id, to |-> p, term |-> n.term]})
  <2>1. PICK r : r = [type |-> "TimeoutNow", from |-> n.id, to |-> p, term |-> n.term]
    BY Zenon
  <2>2. n.id = i /\ n.term \in Nat
    BY Zenon DEF PlainNode
  <2>3. r.type = "TimeoutNow" /\ r.from = i /\ r.to = p /\ r.term = n.term
    BY <2>1, <2>2
  <2>4. PlainMessage(r, E)
    BY <2>2, <2>3 DEF PlainMessage
  <2>5. Answered(n, o, r, i, E)
    BY Zenon, <1>2, <2>1, <2>3, <2>4, Answers
  <2> QED BY Zenon, <2>3, <2>5 DEF Nudged
<1> QED BY Zenon, <1>1, <1>2 DEF TransferLeadership

\* A read sends every peer an Append (StartReadIndex).
LEMMA StartsRead ==
  ASSUME NEW n, NEW i \in Server, NEW E, PlainEntries(E), PlainNode(n, i, E),
         NEW context, NEW o, o = StartReadIndex(n, context)
  PROVE  Sent(n, o, i, E)
<1>1. PICK a : a = [n EXCEPT !.readContext = context, !.readAckMask = {n.id}, !.readReady = FALSE]
  BY Zenon
<1>2. PlainNode(a, i, E) /\ Quiet(n, a)
  BY <1>1 DEF PlainNode, Fields, Quiet, SameState, SameMemory
<1>3. PICK b : b = ReadyIfAcknowledged(a)
  BY Zenon
<1>4. PlainNode(b, i, E) /\ Quiet(n, b)
  <2>1. CASE b = a
    BY Zenon, <1>2, <2>1
  <2>2. CASE b = [a EXCEPT !.readIndex = a.commit, !.readReady = TRUE]
    <3>1. PlainNode(b, i, E) /\ Quiet(a, b)
      BY <1>2, <2>2 DEF PlainNode, Fields, Quiet, SameState, SameMemory
    <3> QED BY Zenon, <1>2, <3>1 DEF Quiet, SameState, SameMemory
  <2> QED BY Zenon, <1>3, <2>1, <2>2 DEF ReadyIfAcknowledged
<1>5. n.peers = Server \ {i} /\ b.peers = Server \ {i}
  BY Zenon, <1>4 DEF PlainNode
<1>6. n.peers = a.peers
  BY Zenon, <1>2, <1>5 DEF PlainNode
<1>7. o = appendToContext(b, Server \ {i}, context)
  BY Zenon, <1>1, <1>3, <1>5 DEF StartReadIndex
<1>8. Replicated(b, o, i, Server \ {i}, E)
  BY Zenon, <1>4, <1>7, Replicates
<1>9. Sent(b, o, i, E) /\ Sent(n, b, i, E)
  BY Zenon, <1>4, <1>8, SentNothing DEF Sent
<1> QED BY Zenon, <1>9, SentTwice

\* A proposal is sent to every peer once it is stored, or the node fail-stops (Propose).
LEMMA Proposes ==
  ASSUME Server # {}, NEW n, NEW i \in Server, NEW E, PlainEntries(E), PlainNode(n, i, E),
         Saved(n), n.faulted = FALSE, NEW val, Normal(n.term, val) \in E,
         NEW o, o = Propose(n, val)
  PROVE  Sent(n, o, i, E) \/ (PlainNode(o, i, E) /\ Failed(n, o))
<1>1. PICK p : p = appendLocal(n, Normal(n.term, val))
  BY Zenon
<1>2. PlainNode(p, i, E) /\ (Failed(n, p) \/ Quiet(n, p))
  BY Zenon, <1>1, AppendsLocal
<1>3. o = Announce(p)
  BY Zenon, <1>1 DEF Propose
<1>4. \/ PlainNode(o, i, E) /\ Failed(n, o)
      \/ Replicated(n, o, i, Server \ {i}, E)
  BY Zenon, <1>2, <1>3, Announces
<1> QED BY Zenon, <1>4 DEF Sent

\* Applying changes nothing of the election state (ApplyEntries).
LEMMA Applies ==
  ASSUME NEW n, NEW i, NEW E, PlainNode(n, i, E), NEW o, o = ApplyEntries(n)
  PROVE  PlainNode(o, i, E) /\ Quiet(n, o)
BY DEF ApplyEntries, PlainNode, Fields, Quiet, SameState, SameMemory

-----------------------------------------------------------------------------
(***************************************************************************)
(* Snapshots.                                                              *)
(***************************************************************************)

\* The greater of two numbers (max in node.go).
LEMMA MaxOfTwo ==
  ASSUME NEW a \in Nat, NEW b \in Nat
  PROVE  Max({a, b}) \in {a, b} /\ a <= Max({a, b}) /\ b <= Max({a, b})
<1>1. \E x \in {a, b} : \A y \in {a, b} : x >= y
  OBVIOUS
<1>2. Max({a, b}) \in {a, b} /\ \A y \in {a, b} : Max({a, b}) >= y
  BY Zenon, <1>1 DEF Max
<1>3. PICK c : c = Max({a, b})
  BY Zenon
<1>4. c \in {a, b} /\ c >= a /\ c >= b
  BY Zenon, <1>2, <1>3
<1>5. a <= c /\ b <= c
  BY <1>4
<1> QED BY Zenon, <1>3, <1>4, <1>5

\* A plain node, but for its commit index.
LooseNode(n, i, E) ==
  /\ DOMAIN n = Fields
  /\ n.id = i /\ n.peers = Server \ {i}
  /\ n.term \in Nat /\ n.log \in Seq(E)
  /\ n.base \in Nat /\ n.commit \in Nat
  /\ n.next \in [Server -> Nat]
  /\ n.votersOld = Server /\ n.votersNew = {} /\ n.pendingConfig = 0
  /\ PlainSnapshot(n.snapshot)
  /\ PlainDisk(n.disk, E)

\* o is n with a log that starts after snap.
Rebased(n, o, snap, i, E) ==
  LooseNode(o, i, E) /\ Quiet(n, o) /\ o.base = snap.index /\ o.commit = n.commit

\* The log starts after the snapshot (Compact, onInstallSnapshot).
LEMMA Rebases ==
  ASSUME NEW n, NEW i, NEW E, PlainNode(n, i, E), n.faulted = FALSE,
         NEW snap, PlainSnapshot(snap), NEW o, o = Rebase(n, snap)
  PROVE  Rebased(n, o, snap, i, E)
<1>1. DOMAIN n = Fields /\ n.log \in Seq(E) /\ n.base \in Nat /\ snap.index \in Nat
  BY Zenon DEF PlainNode, PlainSnapshot
<1>2. PICK log : log = Compacted(n, snap).log
  BY Zenon
<1>3. log = IF HasIndex(n, snap.index) /\ TermAt(n, snap.index) = snap.term
              THEN After(n, snap.index) ELSE <<>>
  BY <1>1, <1>2 DEF Compacted, Fields
<1>4. <<>> \in Seq(E)
  OBVIOUS
<1>5. log \in Seq(E)
  BY Zenon, <1>1, <1>3, <1>4, SuffixPlain
<1>6. o = [n EXCEPT !.log = log, !.base = snap.index, !.baseTerm = snap.term, !.snapshot = snap]
  BY Zenon, <1>2 DEF Rebase
<1>7. /\ DOMAIN o = Fields /\ o.log = log /\ o.base = snap.index /\ o.snapshot = snap
      /\ o.id = n.id /\ o.peers = n.peers /\ o.commit = n.commit /\ o.next = n.next
      /\ o.votersOld = n.votersOld /\ o.votersNew = n.votersNew
      /\ o.pendingConfig = n.pendingConfig /\ o.disk = n.disk
  BY <1>1, <1>6 DEF Fields
<1>8. Quiet(n, o)
  BY <1>1, <1>6 DEF Quiet, SameState, SameMemory, Fields
<1>9. n.term \in Nat /\ o.term = n.term
  BY Zenon, <1>8 DEF PlainNode, Quiet, SameState, SameMemory
<1> QED BY Zenon, <1>1, <1>5, <1>7, <1>8, <1>9 DEF Rebased, LooseNode, PlainNode

\* A snapshot is durable before the log in memory is compacted (SaveSnapshotAndCompact).
LEMMA TakesSnapshot ==
  ASSUME NEW n, NEW i, NEW E, PlainNode(n, i, E), n.faulted = FALSE,
         NEW snap, PlainSnapshot(snap), NEW o, o = TakeSnapshot(n, snap)
  PROVE  \/ PlainNode(o, i, E) /\ Failed(n, o)
         \/ Rebased(n, o, snap, i, E)
<1>1. PICK p : p = SaveSnapshotAndCompact(n, snap)
  BY Zenon
<1>2. PlainNode(p, i, E) /\ (Failed(n, p) \/ (Quiet(n, p) /\ SameLog(n, p)))
  BY Zenon, <1>1, SavesSnapshot
<1>3. o = Rebase(p, snap)
  BY Zenon, <1>1 DEF TakeSnapshot
<1>4. CASE Failed(n, p)
  BY Zenon, <1>2, <1>3, <1>4 DEF Rebase, Failed
<1>5. CASE Quiet(n, p) /\ SameLog(n, p)
  <2>1. p.faulted = FALSE
    BY Zenon, <1>5 DEF Quiet, SameState, SameMemory
  <2>2. Rebased(p, o, snap, i, E)
    BY Zenon, <1>2, <1>3, <2>1, Rebases
  <2> QED BY Zenon, <1>5, <2>2 DEF Rebased, Quiet, SameState, SameMemory, SameLog
<1> QED BY Zenon, <1>2, <1>4, <1>5

\* Compaction changes nothing of the election state, or the node fail-stops (Compact).
LEMMA Compacts ==
  ASSUME NEW n, NEW i, NEW E, PlainNode(n, i, E), n.faulted = FALSE,
         NEW k \in Nat, k <= n.commit, NEW state, NEW o, o = Compact(n, k, state)
  PROVE  PlainNode(o, i, E) /\ (Failed(n, o) \/ Quiet(n, o))
<1>1. PICK snap : snap = SnapshotAt(n, k, state)
  BY Zenon
<1>2. snap.index = k /\ snap.old = n.votersOld /\ snap.new = n.votersNew
  BY <1>1 DEF SnapshotAt
<1>3. PlainSnapshot(snap)
  BY Zenon, <1>2 DEF PlainSnapshot, PlainNode
<1>4. o = TakeSnapshot(n, snap)
  BY Zenon, <1>1 DEF Compact
<1>5. \/ PlainNode(o, i, E) /\ Failed(n, o)
      \/ Rebased(n, o, snap, i, E)
  BY Zenon, <1>3, <1>4, TakesSnapshot
<1> QED BY Zenon, <1>2, <1>5 DEF Rebased, LooseNode, PlainNode

\* A snapshot from the leader replaces what it covers, or the node fail-stops
\* (onInstallSnapshot).
LEMMA InstallsSnapshot ==
  ASSUME NEW n, NEW i, NEW E, PlainNode(n, i, E), n.faulted = FALSE,
         NEW s, PlainSnapshot(s), s.old = Server, NEW o, o = InstallSnapshot(n, s)
  PROVE  PlainNode(o, i, E) /\ (Failed(n, o) \/ Quiet(n, o))
<1>1. CASE o = n
  BY Zenon, <1>1 DEF Quiet, SameState, SameMemory
<1>2. CASE o = AdoptSnapshot(TakeSnapshot(n, s), s)
  <2>1. PICK p : p = TakeSnapshot(n, s)
    BY Zenon
  <2>2. \/ PlainNode(p, i, E) /\ Failed(n, p)
        \/ Rebased(n, p, s, i, E)
    BY Zenon, <2>1, TakesSnapshot
  <2>3. o = AdoptSnapshot(p, s)
    BY Zenon, <1>2, <2>1
  <2>4. CASE PlainNode(p, i, E) /\ Failed(n, p)
    BY Zenon, <2>3, <2>4 DEF AdoptSnapshot, Failed
  <2>5. CASE Rebased(n, p, s, i, E)
    <3>0. LooseNode(p, i, E) /\ Quiet(n, p) /\ p.base = s.index
      BY Zenon, <2>5 DEF Rebased
    <3>1. p.faulted = FALSE /\ DOMAIN p = Fields /\ p.commit \in Nat /\ s.index \in Nat
      BY Zenon, <3>0 DEF Quiet, SameState, SameMemory, LooseNode, PlainSnapshot
    <3>2. PICK c : c = Max({p.commit, s.index})
      BY Zenon
    <3>3. c \in {p.commit, s.index} /\ s.index <= c
      BY Zenon, <3>1, <3>2, MaxOfTwo
    <3>4. PICK a : a = Max({p.applied, s.index})
      BY Zenon
    <3>5. o = [p EXCEPT !.votersOld = s.old, !.votersNew = s.new, !.commit = c, !.applied = a]
      BY Zenon, <2>3, <3>1, <3>2, <3>4 DEF AdoptSnapshot
    <3>6. /\ DOMAIN o = Fields /\ o.log = p.log /\ o.base = p.base /\ o.snapshot = p.snapshot
          /\ o.id = p.id /\ o.peers = p.peers /\ o.commit = c /\ o.next = p.next
          /\ o.votersOld = s.old /\ o.votersNew = s.new
          /\ o.pendingConfig = p.pendingConfig /\ o.disk = p.disk
      BY <3>1, <3>5 DEF Fields
    <3>7. Quiet(p, o)
      BY <3>1, <3>5 DEF Quiet, SameState, SameMemory, Fields
    <3>8. o.term = p.term /\ c \in Nat /\ s.new = {}
      BY Zenon, <3>1, <3>3, <3>7 DEF Quiet, SameState, SameMemory, PlainSnapshot
    <3>9. PlainNode(o, i, E)
      BY Zenon, <3>0, <3>3, <3>6, <3>8 DEF LooseNode, PlainNode
    <3> QED BY Zenon, <3>0, <3>7, <3>9 DEF Quiet, SameState, SameMemory
  <2> QED BY Zenon, <2>2, <2>4, <2>5
<1> QED BY Zenon, <1>1, <1>2 DEF InstallSnapshot

\* A snapshot that is accepted makes its sender the leader; one that is rejected changes
\* nothing; both are answered, unless a write fails (onInstallSnapshot).
LEMMA OnInstallSnapshot ==
  ASSUME NEW n, NEW i \in Server, NEW E, PlainNode(n, i, E),
         n.faulted = FALSE, NEW m, PlainMessage(m, E), m.type = "InstallSnapshot", m.to = i,
         NEW o, o = onInstallSnapshot(n, m)
  PROVE  \/ Refused(n, o, m, "InstallSnapshotResponse", i, E)
         \/ Accepted(n, o, m, "InstallSnapshotResponse", i, E)
<1>0. m.from \in Server /\ m.from # i /\ PlainSnapshot(m.snap)
  BY Zenon DEF PlainMessage
<1>1. ASSUME NEW p, PlainNode(p, i, E), NEW reject, NEW q, q = SnapshotResponse(p, m, reject)
      PROVE  \E r : /\ Answered(p, q, r, i, E) /\ r.type = "InstallSnapshotResponse"
                    /\ r.to = m.from /\ r.term = p.term
  <2>1. PICK r : r = MatchResponse(p, "InstallSnapshotResponse", m, reject, p.base, 0)
    BY Zenon
  <2>2. q = Send(p, {r})
    BY Zenon, <1>1, <2>1 DEF SnapshotResponse
  <2>3. p.id = i /\ p.term \in Nat /\ p.base \in Nat
    BY Zenon, <1>1 DEF PlainNode
  <2>4. /\ r.type = "InstallSnapshotResponse" /\ r.from = i /\ r.to = m.from /\ r.term = p.term
        /\ r.match = p.base
    BY <2>1, <2>3 DEF MatchResponse
  <2>5. PlainMessage(r, E)
    BY <1>0, <2>3, <2>4 DEF PlainMessage
  <2>6. Answered(p, q, r, i, E)
    BY Zenon, <1>1, <2>2, <2>4, <2>5, Answers
  <2> QED BY Zenon, <2>4, <2>6
<1>2. CASE SnapshotRejected(n, m)
  <2>1. o = SnapshotResponse(n, m, TRUE)
    BY Zenon, <1>2 DEF onInstallSnapshot
  <2>2. PICK reject : o = SnapshotResponse(n, m, reject)
    BY Zenon, <2>1
  <2> QED BY ZenonT(60), <1>1, <2>2 DEF Refused
<1>3. CASE ~SnapshotRejected(n, m)
  <2>1. ~(m.term < n.term) /\ m.snap.old = Server
    BY Zenon, <1>0, <1>3 DEF SnapshotRejected, PlainSnapshot
  <2>2. PICK b : b = InstallSnapshot(n, m.snap)
    BY Zenon
  <2>3. PlainNode(b, i, E) /\ (Failed(n, b) \/ Quiet(n, b))
    BY Zenon, <1>0, <2>1, <2>2, InstallsSnapshot
  <2>4. o = AcceptSnapshot(b, m)
    BY Zenon, <1>3, <2>2 DEF onInstallSnapshot
  <2>5. CASE Failed(n, b)
    <3>1. o = b
      BY Zenon, <2>4, <2>5 DEF AcceptSnapshot, Failed
    <3> QED BY Zenon, <2>1, <2>3, <2>5, <3>1 DEF Accepted
  <2>6. CASE Quiet(n, b)
    <3>1. b.faulted = FALSE /\ b.term = n.term /\ DOMAIN b = Fields
      BY Zenon, <2>3, <2>6 DEF Quiet, SameState, SameMemory, PlainNode
    <3>2. PICK a : a = [b EXCEPT !.role = "Follower", !.leader = m.from]
      BY Zenon
    <3>3. PlainNode(a, i, E)
      BY <2>3, <3>1, <3>2 DEF PlainNode, Fields
    <3>4. /\ a.role = "Follower" /\ a.term = b.term /\ a.vote = b.vote /\ a.leader = m.from
          /\ a.preVoteTerm = b.preVoteTerm /\ a.preVoteMask = b.preVoteMask
          /\ a.voteMask = b.voteMask /\ a.faulted = b.faulted /\ a.disk = b.disk
          /\ a.out = b.out
      BY <3>1, <3>2 DEF Fields
    <3>5. PICK reject : o = SnapshotResponse(a, m, reject)
      BY Zenon, <2>4, <3>1, <3>2 DEF AcceptSnapshot
    <3>6. PICK r : /\ Answered(a, o, r, i, E) /\ r.type = "InstallSnapshotResponse"
                   /\ r.to = m.from /\ r.term = a.term
      BY Zenon, <1>1, <3>3, <3>5
    <3>7. r.from = i /\ r.term = n.term
      BY Zenon, <3>1, <3>4, <3>6 DEF Answered
    <3>8. Followed(n, o, m, r, i, E)
      BY ZenonT(60), <2>6, <3>1, <3>4, <3>6
         DEF Followed, Answered, Quiet, SameState, SameMemory
    <3> QED BY Zenon, <2>1, <3>6, <3>7, <3>8 DEF Accepted
  <2> QED BY Zenon, <2>3, <2>5, <2>6
<1> QED BY Zenon, <1>2, <1>3

-----------------------------------------------------------------------------
(***************************************************************************)
(* Restart.                                                                *)
(***************************************************************************)

\* o is a node that knows what disk d says of term and vote, and nothing else.
Recovered(o, d, i, E) ==
  /\ PlainNode(o, i, E)
  /\ o.role = "Follower" /\ o.term = d.term /\ o.vote = d.vote /\ o.leader = Nil
  /\ o.preVoteTerm = 0 /\ o.preVoteMask = {} /\ o.voteMask = {}
  /\ o.faulted \in BOOLEAN /\ o.out = {}
  /\ o.disk.term = d.term /\ o.disk.vote = d.vote

\* Opening a store completes a compaction, and keeps term and vote (raftstore.Open).
LEMMA Opens ==
  ASSUME NEW d, NEW E, PlainDisk(d, E), ~OpenRefuses(d), NEW o, o = Opened(d)
  PROVE  PlainDisk(o, E) /\ o.term = d.term /\ o.vote = d.vote /\ o.base = o.snap.index
<1>1. /\ DOMAIN d = DiskFields /\ d.log \in Seq(E) /\ d.base \in Nat /\ d.snap.index \in Nat
      /\ d.term \in Nat /\ d.commit \in Nat /\ PlainSnapshot(d.snap)
  BY Zenon DEF PlainDisk, PlainSnapshot
<1>2. d.base <= d.snap.index
  <2>1. ~(d.base > d.snap.index)
    BY Zenon DEF OpenRefuses
  <2> QED BY <1>1, <2>1
<1>3. CASE d.snap.index > d.base
  <2>1. PICK log : log = IF HasIndex(d, d.snap.index) /\ TermAt(d, d.snap.index) = d.snap.term
                           THEN After(d, d.snap.index) ELSE <<>>
    BY Zenon
  <2>2. <<>> \in Seq(E)
    OBVIOUS
  <2>3. log \in Seq(E)
    BY Zenon, <1>1, <2>1, <2>2, SuffixPlain
  <2>4. o = [d EXCEPT !.base = d.snap.index, !.baseTerm = d.snap.term, !.log = log]
    BY Zenon, <1>3, <2>1 DEF Opened, Compacted
  <2>5. /\ DOMAIN o = DiskFields /\ o.term = d.term /\ o.vote = d.vote /\ o.commit = d.commit
        /\ o.base = d.snap.index /\ o.log = log /\ o.snap = d.snap
    BY <1>1, <2>4 DEF DiskFields
  <2> QED BY Zenon, <1>1, <2>3, <2>5 DEF PlainDisk
<1>4. CASE ~(d.snap.index > d.base)
  <2>1. o = d
    BY Zenon, <1>4 DEF Opened
  <2>2. d.base = d.snap.index
    BY <1>1, <1>2, <1>4
  <2> QED BY Zenon, <2>1, <2>2
<1> QED BY Zenon, <1>3, <1>4

\* The node before recovery replays configurations.
LEMMA Rebuilds ==
  ASSUME NEW i, NEW E, NEW d, PlainDisk(d, E), d.base = d.snap.index,
         NEW o, o = Recover(i, d)
  PROVE  Recovered(o, d, i, E)
<1>1. /\ d.log \in Seq(E) /\ d.base \in Nat /\ d.snap.index \in Nat
      /\ d.term \in Nat /\ d.commit \in Nat /\ PlainSnapshot(d.snap)
  BY Zenon DEF PlainDisk, PlainSnapshot
<1>2. PICK n : n = NewNodeWithStore(i, d)
  BY Zenon
<1>3. /\ DOMAIN n = Fields /\ n.id = i /\ n.peers = Server \ {i} /\ n.role = "Follower"
      /\ n.leader = Nil /\ n.voteMask = {} /\ n.preVoteMask = {} /\ n.preVoteTerm = 0
      /\ n.next = [p \in Server |-> 0] /\ n.faulted = FALSE
      /\ n.votersOld = Server /\ n.votersNew = {} /\ n.pendingConfig = 0
      /\ n.out = {} /\ n.disk = d
  BY Zenon, <1>2 DEF NewNodeWithStore, Fields
<1>4. PICK c : c = Max({d.commit, d.snap.index})
  BY Zenon
<1>5. c \in {d.commit, d.snap.index} /\ d.snap.index <= c
  BY Zenon, <1>1, <1>4, MaxOfTwo
<1>6. PICK old : old = IF d.snap.index = 0 THEN n.votersOld ELSE d.snap.old
  BY Zenon
<1>7. PICK new : new = IF d.snap.index = 0 THEN n.votersNew ELSE d.snap.new
  BY Zenon
<1>8. old = Server /\ new = {}
  BY Zenon, <1>1, <1>3, <1>6, <1>7 DEF PlainSnapshot
<1>9. o = [n EXCEPT !.term = d.term, !.vote = d.vote, !.commit = c, !.log = d.log,
                    !.base = d.base, !.baseTerm = d.baseTerm, !.snapshot = d.snap,
                    !.applied = d.snap.index, !.votersOld = old, !.votersNew = new]
  BY Zenon, <1>2, <1>4, <1>6, <1>7 DEF Recover
<1>10. /\ o.id = i /\ o.peers = Server \ {i} /\ o.role = "Follower" /\ o.leader = Nil
       /\ o.voteMask = {} /\ o.preVoteMask = {} /\ o.preVoteTerm = 0
  BY <1>3, <1>9 DEF Fields
<1>11. /\ o.next = [p \in Server |-> 0] /\ o.faulted = FALSE
       /\ o.pendingConfig = 0 /\ o.out = {} /\ o.disk = d
  BY <1>3, <1>9 DEF Fields
<1>12. /\ o.term = d.term /\ o.vote = d.vote /\ o.commit = c /\ o.log = d.log
       /\ o.base = d.base /\ o.snapshot = d.snap /\ o.votersOld = old /\ o.votersNew = new
  BY <1>3, <1>9 DEF Fields
<1>13. PlainNode(o, i, E)
  <2>1. c \in Nat /\ o.next \in [Server -> Nat]
    BY <1>1, <1>5, <1>11
  <2>2. DOMAIN o = Fields
    BY Zenon, <1>3, <1>9
  <2>3. o.base \in Nat /\ o.commit \in Nat /\ o.base <= o.commit
    BY Zenon, <1>1, <1>5, <1>12, <2>1
  <2>4. /\ o.term \in Nat /\ o.log \in Seq(E) /\ PlainSnapshot(o.snapshot)
        /\ PlainDisk(o.disk, E) /\ o.votersOld = Server /\ o.votersNew = {}
    BY Zenon, <1>1, <1>8, <1>11, <1>12
  <2> QED BY Zenon, <1>10, <1>11, <2>1, <2>2, <2>3, <2>4 DEF PlainNode
<1>14. o.faulted \in BOOLEAN
  BY Zenon, <1>11
<1> QED BY Zenon, <1>10, <1>11, <1>12, <1>13, <1>14 DEF Recovered

\* A node whose log cannot be opened does nothing (NewRecoveredNodeWithSnapshot).
LEMMA StaysUnopened ==
  ASSUME NEW i, NEW E, NEW d, PlainDisk(d, E), NEW o, o = Unopened(i, d)
  PROVE  Recovered(o, d, i, E)
<1>1. d.term \in Nat
  BY Zenon DEF PlainDisk
<1>2. PICK n : n = [NewNodeWithStore(i, d) EXCEPT !.term = d.term, !.vote = d.vote]
  BY Zenon
<1>3. /\ DOMAIN n = Fields /\ n.id = i /\ n.peers = Server \ {i} /\ n.role = "Follower"
      /\ n.term = d.term /\ n.vote = d.vote /\ n.log = <<>> /\ n.base = 0 /\ n.commit = 0
      /\ n.voteMask = {} /\ n.preVoteMask = {} /\ n.preVoteTerm = 0
      /\ n.next = [p \in Server |-> 0] /\ n.snapshot = NoSnapshot
      /\ n.votersOld = Server /\ n.votersNew = {} /\ n.pendingConfig = 0 /\ n.disk = d
  BY <1>2 DEF NewNodeWithStore, Fields
<1>4. PlainSnapshot(NoSnapshot)
  BY DEF PlainSnapshot, NoSnapshot
<1>5. /\ [p \in Server |-> 0] \in [Server -> Nat] /\ <<>> \in Seq(E) /\ 0 <= 0 /\ 0 \in Nat
  OBVIOUS
<1>6. PlainNode(n, i, E)
  BY Zenon, <1>1, <1>3, <1>4, <1>5 DEF PlainNode
<1>7. o = failStorage(n)
  BY Zenon, <1>2 DEF Unopened
<1>8. PlainNode(o, i, E) /\ Failed(n, o)
  BY Zenon, <1>6, <1>7, FailStops
<1>9. o.faulted \in BOOLEAN
  BY Zenon, <1>8 DEF Failed
<1> QED BY Zenon, <1>3, <1>8, <1>9 DEF Recovered, Failed

\* The voters that recovery begins with are those it ends with (restoreConfigurationState).
LEMMA RestoresNothing ==
  ASSUME NEW n, NEW i, NEW E, PlainEntries(E), PlainNode(n, i, E),
         NEW o, o = restoreConfigurationState(n)
  PROVE  PlainNode(o, i, E) /\ Quiet(n, o)
<1>1. PICK base \in Nat, last \in Nat : base = n.base /\ last = LastIndex(n) /\ base <= last
  <2>1. n.base \in Nat
    BY Zenon DEF PlainNode
  <2> QED BY Zenon, <2>1, LastIndexType
<1>2. PICK a : a = [old |-> n.votersOld, new |-> n.votersNew, pending |-> 0, ok |-> TRUE]
  BY Zenon
<1> DEFINE F(f) == [k \in base .. last |->
                      IF k = base THEN a
                      ELSE RestoreConfiguration(f[k - 1], EntryAt(n, k), k, n.commit)]
           idle == [k \in base .. last |-> a]
           r == CHOOSE f : f = F(f)
           masks == {EntryAt(n, k).old \cup EntryAt(n, k).new : k \in base + 1 .. last}
<1>3. ASSUME NEW k \in base + 1 .. last
      PROVE  /\ RestoreConfiguration(a, EntryAt(n, k), k, n.commit) = a
             /\ EntryAt(n, k).old \cup EntryAt(n, k).new = {}
  <2>1. k \in Nat /\ n.base < k /\ k <= LastIndex(n)
    BY <1>1
  <2>2. EntryAt(n, k) \in E /\ ~IsConfig(EntryAt(n, k))
    BY Zenon, <2>1, EntryPlain
  <2>3. PICK e : e = EntryAt(n, k)
    BY Zenon
  <2>4. e.kind # "Joint" /\ e.kind # "Final" /\ e.old = {} /\ e.new = {}
    BY Zenon, <2>2, <2>3 DEF PlainEntries
  <2>5. ValidAt(a, e) /\ ~IsConfig(e)
    BY Zenon, <2>4 DEF ValidAt, IsConfig
  <2>6. RestoreConfiguration(a, e, k, n.commit) = a
    BY Zenon, <2>5 DEF RestoreConfiguration
  <2> QED BY Zenon, <2>3, <2>4, <2>6
<1>4. idle = F(idle)
  <2>1. ASSUME NEW k \in base .. last
        PROVE  a = IF k = base THEN a
                   ELSE RestoreConfiguration(idle[k - 1], EntryAt(n, k), k, n.commit)
    <3>1. CASE k = base
      BY Zenon, <3>1
    <3>2. CASE k # base
      <4>1. k \in base + 1 .. last /\ k - 1 \in base .. last
        BY <1>1, <3>2
      <4>2. idle[k - 1] = a
        BY Zenon, <4>1
      <4> QED BY Zenon, <1>3, <4>1, <4>2
    <3> QED BY Zenon, <3>1, <3>2
  <2> QED BY Zenon, <2>1
<1>5. r = F(r)
  BY Zenon, <1>4
<1>6. o = Restored(n, r[last], masks)
  BY <1>1, <1>2 DEF restoreConfigurationState
<1> HIDE DEF r
<1>7. r[base] = a
  <2>1. base \in base .. last
    BY <1>1
  <2> QED BY Zenon, <1>5, <2>1
<1>8. ASSUME NEW k \in base + 1 .. last, r[k - 1] = a
      PROVE  r[k] = a
  <2>1. k \in base .. last /\ k # base
    BY <1>1
  <2>2. r[k] = RestoreConfiguration(r[k - 1], EntryAt(n, k), k, n.commit)
    BY Zenon, <1>5, <2>1
  <2> QED BY Zenon, <1>3, <1>8, <2>2
<1>9. r[last] = a
  <2> HIDE DEF F, idle, masks
  <2>1. \A k \in base + 1 .. last : r[k - 1] = a => r[k] = a
    BY Zenon, <1>8
  <2>2. PICK f : f = r
    BY Zenon
  <2>3. f[base] = a /\ \A k \in base + 1 .. last : f[k - 1] = a => f[k] = a
    BY Zenon, <1>7, <2>1, <2>2
  <2>4. base <= last
    BY Zenon, <1>1
  <2>5. f[last] = a
    BY <2>3, <2>4, IdleLoop
  <2> QED BY Zenon, <2>2, <2>5
<1>10. UNION masks = {}
  BY Zenon, <1>3
<1> HIDE DEF masks
<1>11. a.ok = TRUE /\ a.old = Server /\ a.new = {} /\ a.pending = 0
  <2>1. n.votersOld = Server /\ n.votersNew = {}
    BY Zenon DEF PlainNode
  <2> QED BY <1>2, <2>1
<1>12. PICK p : p = [n EXCEPT !.votersOld = a.old, !.votersNew = a.new, !.pendingConfig = a.pending]
  BY Zenon
<1>13. o = ensurePeers(p, {})
  BY Zenon, <1>6, <1>9, <1>10, <1>11, <1>12 DEF Restored
<1>14. PlainNode(p, i, E) /\ Quiet(n, p)
  BY <1>11, <1>12 DEF PlainNode, Fields, Quiet, SameState, SameMemory
<1>15. PlainNode(o, i, E) /\ Quiet(p, o)
  <2>1. {} \in SUBSET Server
    OBVIOUS
  <2> QED BY Zenon, <1>13, <1>14, <2>1, PeersKnown
<1> QED BY Zenon, <1>14, <1>15 DEF Quiet, SameState, SameMemory

\* A node restarts with the term and the vote of its disk, whatever else is on it
\* (NewRecoveredNode).
LEMMA Recovers ==
  ASSUME NEW i, NEW E, PlainEntries(E), NEW d, PlainDisk(d, E), NEW o,
         o = NewRecoveredNode(i, d)
  PROVE  Recovered(o, d, i, E)
<1>1. CASE OpenRefuses(d)
  BY Zenon, <1>1, StaysUnopened DEF NewRecoveredNode
<1>2. CASE ~OpenRefuses(d)
  <2>1. PICK e : e = Opened(d)
    BY Zenon
  <2>2. PlainDisk(e, E) /\ e.term = d.term /\ e.vote = d.vote /\ e.base = e.snap.index
    BY Zenon, <1>2, <2>1, Opens
  <2>3. PICK n : n = Recover(i, e)
    BY Zenon
  <2>4. Recovered(n, e, i, E)
    BY Zenon, <2>2, <2>3, Rebuilds
  <2>5. o = RecoverConfiguration(n) /\ PlainNode(n, i, E)
    BY Zenon, <1>2, <2>1, <2>3, <2>4 DEF NewRecoveredNode, Recovered
  <2>6. CASE o = failStorage(n)
    <3>1. PlainNode(o, i, E) /\ Failed(n, o)
      BY Zenon, <2>5, <2>6, FailStops
    <3>2. o.faulted \in BOOLEAN
      BY Zenon, <3>1 DEF Failed
    <3> QED BY Zenon, <2>2, <2>4, <3>1, <3>2 DEF Recovered, Failed
  <2>7. CASE o = restoreConfigurationState(ensurePeers(n, n.votersOld \cup n.votersNew))
    <3>1. n.votersOld \cup n.votersNew \in SUBSET Server
      BY Zenon, <2>5 DEF PlainNode
    <3>2. PICK p : p = ensurePeers(n, n.votersOld \cup n.votersNew)
      BY Zenon
    <3>3. PlainNode(p, i, E) /\ Quiet(n, p)
      BY Zenon, <2>5, <3>1, <3>2, PeersKnown
    <3>4. PlainNode(o, i, E) /\ Quiet(p, o)
      BY Zenon, <2>7, <3>2, <3>3, RestoresNothing
    <3> QED BY Zenon, <2>2, <2>4, <3>3, <3>4
          DEF Recovered, Quiet, SameState, SameMemory
  <2> QED BY Zenon, <2>5, <2>6, <2>7 DEF RecoverConfiguration
<1> QED BY Zenon, <1>1, <1>2

=============================================================================
