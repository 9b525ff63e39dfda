------------------------- MODULE RaftElectionProofs -------------------------
(****************************************************************************)
(* Election safety of RaftElection, and pre-vote, for every finite set of   *)
(* servers and every bound on terms.                                        *)
(****************************************************************************)
EXTENDS RaftElection, FiniteSetTheorems, TLAPS

-----------------------------------------------------------------------------
(****************************************************************************)
(* Majorities, and type correctness.                                        *)
(****************************************************************************)

\* Two majorities of the voters share a voter (majorityMask, raft/node.go).
LEMMA MajoritiesIntersect ==
  ASSUME NEW Q \in SUBSET Server, NEW R \in SUBSET Server,
         majorityMask(Q), majorityMask(R)
  PROVE  Q \cap R # {}
<1>1. Server \cap Q = Q /\ Server \cap R = R
  BY Zenon
<1>2. /\ IsFiniteSet(Q) /\ Cardinality(Q) \in Nat
      /\ IsFiniteSet(R) /\ Cardinality(R) \in Nat
      /\ Cardinality(Server) \in Nat
  BY Zenon, ServerAssumption, FS_Subset, FS_CardinalityType
<1>3. Cardinality(Q) + Cardinality(R) > Cardinality(Server)
  <2>1. /\ Cardinality(Q) >= Cardinality(Server) \div 2 + 1
        /\ Cardinality(R) >= Cardinality(Server) \div 2 + 1
    BY <1>1, Zenon DEF majorityMask
  <2> QED BY <1>2, <2>1
<1> QED BY Zenon, <1>2, <1>3, ServerAssumption, FS_MajoritiesIntersect

\* A set of voters that contains a majority is a majority (majorityMask).
LEMMA MajorityMonotone ==
  ASSUME NEW Q \in SUBSET Server, NEW R \in SUBSET Server, Q \subseteq R,
         majorityMask(Q)
  PROVE  majorityMask(R)
<1>1. Server \cap Q = Q /\ Server \cap R = R
  BY Zenon
<1>2. IsFiniteSet(R)
  BY Zenon, ServerAssumption, FS_Subset
<1>3. Cardinality(Q) <= Cardinality(R)
  BY Zenon, <1>2, FS_Subset
<1>4. Cardinality(Q) \in Nat /\ Cardinality(R) \in Nat /\ Cardinality(Server) \in Nat
  BY Zenon, <1>2, ServerAssumption, FS_Subset, FS_CardinalityType
<1>5. Cardinality(Q) >= Cardinality(Server) \div 2 + 1
  BY <1>1, Zenon DEF majorityMask
<1>6. Cardinality(R) >= Cardinality(Server) \div 2 + 1
  BY <1>3, <1>4, <1>5
<1> QED BY <1>1, <1>6, Zenon DEF majorityMask

-----------------------------------------------------------------------------
(***************************************************************************)
(* Type correctness.                                                       *)
(***************************************************************************)

\* The messages a node sends to a set of peers are messages (send).
LEMMA MsgsToType ==
  ASSUME NEW type \in MessageTypes, NEW i \in Server, NEW t \in Nat
  PROVE  MsgsTo(type, i, Peers(i), t) \subseteq Message
<1>1. ASSUME NEW p \in Peers(i)
      PROVE  Msg(type, i, p, t, FALSE) \in Message
  BY Zenon DEF Peers, Msg, Message
<1> QED BY Zenon, <1>1 DEF MsgsTo

\* Failing storage keeps the types, when the hard state it leaves has its type.
LEMMA FailStorageType ==
  ASSUME TypeOK, NEW i \in Server, NEW h \in HardState, failStorage(i, h)
  PROVE  /\ role' \in [Server -> Role] /\ leader' \in [Server -> Server \cup {Nil}]
         /\ term' \in [Server -> Nat] /\ votedFor' \in [Server -> Server \cup {Nil}]
         /\ hard' \in [Server -> HardState] /\ faulted' \in [Server -> BOOLEAN]
         /\ net' \subseteq Message
BY Zenon DEF TypeOK, failStorage, Become, persistHardState, HardState, Role

\* becomeLeader keeps the types.
LEMMA BecomeLeaderType ==
  ASSUME TypeOK, NEW i \in Server, NEW h \in HardState, NEW sent \in SUBSET Message,
         becomeLeader(i, h, sent)
  PROVE  /\ role' \in [Server -> Role] /\ leader' \in [Server -> Server \cup {Nil}]
         /\ term' \in [Server -> Nat] /\ votedFor' \in [Server -> Server \cup {Nil}]
         /\ hard' \in [Server -> HardState] /\ faulted' \in [Server -> BOOLEAN]
         /\ net' \subseteq Message
<1>1. MsgsTo("Append", i, Peers(i), h.term) \subseteq Message
  BY Zenon, MsgsToType DEF HardState, MessageTypes
<1>2. CASE failStorage(i, h)
  BY Zenon, <1>2, FailStorageType
<1>3. CASE /\ Become(i, "Leader", i)
           /\ persistHardState(i, h)
           /\ net' = net \cup sent \cup MsgsTo("Append", i, Peers(i), h.term)
           /\ UNCHANGED faulted
  BY Zenon, <1>1, <1>3 DEF TypeOK, Become, persistHardState, HardState, Role
<1> QED BY Zenon, <1>2, <1>3 DEF becomeLeader

\* startElection keeps the types.
LEMMA StartElectionType ==
  ASSUME TypeOK, NEW i \in Server, NEW l \in Server \cup {Nil},
         NEW mask \in SUBSET Server, NEW sent \in SUBSET Message,
         startElection(i, l, mask, sent), preVoteTerm' \in [Server -> Nat]
  PROVE  TypeOK'
<1> DEFINE h == Hard(term[i] + 1, i)
           requests == sent \cup MsgsTo("RequestVote", i, Peers(i), h.term)
<1>1. h \in HardState /\ h.term \in Nat
  BY DEF TypeOK, Hard, HardState
<1>2. requests \subseteq Message
  BY Zenon, <1>1, MsgsToType DEF MessageTypes
<1>3. hard[i] \in HardState
  BY Zenon DEF TypeOK
<1>4. CASE failStorage(i, hard[i]) /\ preVoteMask' = [preVoteMask EXCEPT ![i] = mask]
           /\ UNCHANGED voteMask
  BY Zenon, <1>3, <1>4, FailStorageType DEF TypeOK
<1>5. CASE /\ voteMask' = [voteMask EXCEPT ![i] = {i}]
           /\ preVoteMask' = [preVoteMask EXCEPT ![i] = {}]
           /\ majorityMask({i})
           /\ becomeLeader(i, h, requests)
  <2>1. requests \in SUBSET Message
    BY Zenon, <1>2
  <2> HIDE DEF h, requests
  <2> QED BY Zenon, <1>1, <1>5, <2>1, BecomeLeaderType DEF TypeOK
<1>6. CASE /\ voteMask' = [voteMask EXCEPT ![i] = {i}]
           /\ preVoteMask' = [preVoteMask EXCEPT ![i] = {}]
           /\ Become(i, "Candidate", l)
           /\ persistHardState(i, h)
           /\ net' = net \cup requests
           /\ UNCHANGED faulted
  <2> HIDE DEF h, requests
  <2> QED BY Zenon, <1>1, <1>2, <1>6 DEF TypeOK, Become, persistHardState, Role, HardState
<1> QED BY Zenon, <1>4, <1>5, <1>6 DEF startElection

\* The prologue of Step leaves values of the right types.
LEMMA AfterType ==
  ASSUME TypeOK, NEW i \in Server, NEW m \in Message
  PROVE  /\ HardAfter(i, m) \in HardState
         /\ TermAfter(i, m) \in Nat
         /\ VoteAfter(i, m) \in Server \cup {Nil}
         /\ RoleAfter(i, m) \in Role
         /\ LeaderAfter(i, m) \in Server \cup {Nil}
BY Zenon DEF TypeOK, HardAfter, TermAfter, VoteAfter, RoleAfter, LeaderAfter, Hard, HardState,
       Message, Role

\* One message of the right type keeps the network well typed (send).
LEMMA MsgType ==
  ASSUME NEW type \in MessageTypes, NEW i \in Server, NEW j \in Server, NEW t \in Nat,
         NEW r \in BOOLEAN
  PROVE  Msg(type, i, j, t, r) \in Message
BY Zenon DEF Msg, Message

\* Handling one message keeps the types (Step).
LEMMA StepType ==
  ASSUME TypeOK, NEW i \in Server, NEW m \in net, Step(i, m)
  PROVE  TypeOK'
<1>1. /\ m \in Message /\ m.from \in Server /\ m.term \in Nat
      /\ hard[i] \in HardState /\ leader[i] \in Server \cup {Nil}
  BY Zenon DEF TypeOK, Message
<1>2. /\ HardAfter(i, m) \in HardState /\ TermAfter(i, m) \in Nat
      /\ RoleAfter(i, m) \in Role /\ LeaderAfter(i, m) \in Server \cup {Nil}
  BY Zenon, <1>1, AfterType
<1>3. ASSUME NEW b \in BOOLEAN, onPreVote(i, m, b)
      PROVE  TypeOK'
  <2>1. Msg("PreVoteResponse", i, m.from, m.term, FALSE) \in Message
    BY Zenon, <1>1, MsgType DEF MessageTypes, PreVoteTypes
  <2> QED BY Zenon, <1>3, <2>1 DEF onPreVote, TypeOK, volatile
<1>4. ASSUME NEW b \in BOOLEAN, onVote(i, m, b)
      PROVE  TypeOK'
  <2> DEFINE grant == /\ m.term = TermAfter(i, m)
                      /\ VoteAfter(i, m) \in {Nil, m.from}
                      /\ b
             h == IF grant THEN Hard(m.term, m.from) ELSE HardAfter(i, m)
             reply == Msg("RequestVoteResponse", i, m.from, TermAfter(i, m), ~grant)
  <2>1. h \in HardState
    BY Zenon, <1>1, <1>2 DEF Hard, HardState
  <2>2. reply \in Message
    BY Zenon, <1>1, <1>2, MsgType DEF MessageTypes
  <2>3. CASE failStorage(i, hard[i])
    BY Zenon, <1>1, <1>4, <2>3, FailStorageType DEF TypeOK, onVote
  <2>4. CASE failStorage(i, HardAfter(i, m))
    BY Zenon, <1>2, <1>4, <2>4, FailStorageType DEF TypeOK, onVote
  <2>5. CASE /\ Become(i, RoleAfter(i, m), LeaderAfter(i, m))
             /\ persistHardState(i, h)
             /\ net' = net \cup {reply}
             /\ UNCHANGED <<faulted, preVoteTerm, preVoteMask, voteMask>>
    <3> HIDE DEF h, reply
    <3> QED BY Zenon, <1>2, <2>1, <2>2, <2>5 DEF TypeOK, Become, persistHardState, HardState
  <2> QED BY Zenon, <1>4, <2>3, <2>4, <2>5 DEF onVote
<1>5. ASSUME NEW b \in BOOLEAN, onAppend(i, m, b)
      PROVE  TypeOK'
  <2> DEFINE reply == Msg("AppendResponse", i, m.from, TermAfter(i, m), FALSE)
  <2>1. reply \in Message
    BY Zenon, <1>1, <1>2, MsgType DEF MessageTypes
  <2>2. CASE failStorage(i, hard[i])
    BY Zenon, <1>1, <1>5, <2>2, FailStorageType DEF TypeOK, onAppend
  <2>3. CASE failStorage(i, HardAfter(i, m))
    BY Zenon, <1>2, <1>5, <2>3, FailStorageType DEF TypeOK, onAppend
  <2>4. CASE /\ \/ Become(i, "Follower", m.from)
                \/ Become(i, RoleAfter(i, m), LeaderAfter(i, m))
             /\ persistHardState(i, HardAfter(i, m))
             /\ net' = net \cup {reply}
             /\ UNCHANGED <<faulted, preVoteTerm, preVoteMask, voteMask>>
    <3> HIDE DEF reply
    <3>1. PICK r \in Role, l \in Server \cup {Nil} : Become(i, r, l)
      BY Zenon, <1>1, <1>2, <2>4 DEF Role
    <3> QED BY Zenon, <1>2, <2>1, <2>4, <3>1 DEF TypeOK, Become, persistHardState, HardState
  <2> QED BY Zenon, <1>5, <2>2, <2>3, <2>4 DEF onAppend
<1>6. ASSUME onPreVoteResponse(i, m)
      PROVE  TypeOK'
  <2> DEFINE mask == preVoteMask[i] \cup {m.from}
  <2>1. mask \in SUBSET Server
    BY Zenon, <1>1 DEF TypeOK
  <2>2. CASE startElection(i, leader[i], mask, {})
    <3>1. preVoteTerm' \in [Server -> Nat]
      BY Zenon, <1>6 DEF TypeOK, onPreVoteResponse
    <3> HIDE DEF mask
    <3> QED BY <1>1, <2>1, <2>2, <3>1, StartElectionType
  <2>3. CASE ~startElection(i, leader[i], mask, {})
    BY Zenon, <1>6, <2>1, <2>3 DEF TypeOK, onPreVoteResponse
  <2> QED BY Zenon, <2>2, <2>3
<1>7. ASSUME onVoteResponse(i, m)
      PROVE  TypeOK'
  <2>1. voteMask' \in [Server -> SUBSET Server]
    BY Zenon, <1>1, <1>7 DEF TypeOK, onVoteResponse
  <2>2. CASE becomeLeader(i, hard[i], {})
    BY <1>1, <1>7, <2>1, <2>2, BecomeLeaderType DEF TypeOK, onVoteResponse
  <2>3. CASE ~becomeLeader(i, hard[i], {})
    BY <1>7, <2>1, <2>3 DEF TypeOK, onVoteResponse
  <2> QED BY Zenon, <2>2, <2>3
<1>8. ASSUME onNewerTerm(i, m)
      PROVE  TypeOK'
  <2>1. CASE failStorage(i, hard[i])
    BY Zenon, <1>1, <1>8, <2>1, FailStorageType DEF TypeOK, onNewerTerm
  <2>2. CASE ~failStorage(i, hard[i])
    BY <1>2, <1>8, <2>2 DEF TypeOK, onNewerTerm, Become, persistHardState, HardState, Role
  <2> QED BY Zenon, <2>1, <2>2
<1>9. ASSUME onTimeoutNow(i, m)
      PROVE  TypeOK'
  <2>1. /\ startElection(i, leader[i], preVoteMask[i], {})
        /\ preVoteTerm' \in [Server -> Nat]
        /\ preVoteMask[i] \in SUBSET Server
    BY Zenon, <1>9 DEF TypeOK, onTimeoutNow
  <2>2. {} \in SUBSET Message
    BY Zenon
  <2> QED BY <1>1, <2>1, <2>2, StartElectionType, Zenon
<1> QED BY Zenon, <1>3, <1>4, <1>5, <1>6, <1>7, <1>8, <1>9 DEF Step

\* Every step keeps the types.
LEMMA NextType == TypeOK /\ [Next]_vars => TypeOK'
<1> SUFFICES ASSUME TypeOK, [Next]_vars
             PROVE  TypeOK'
  BY Zenon
<1>1. ASSUME NEW i \in Server, startPreVote(i)
      PROVE  TypeOK'
  <2> DEFINE sent == MsgsTo("PreVote", i, Peers(i), term[i] + 1)
  <2>1. term[i] + 1 \in Nat
    BY DEF TypeOK
  <2>2. sent \subseteq Message
    BY Zenon, <2>1, MsgsToType DEF MessageTypes, PreVoteTypes
  <2>3. preVoteTerm' \in [Server -> Nat]
    BY Zenon, <1>1, <2>1 DEF TypeOK, startPreVote
  <2>4. CASE startElection(i, Nil, {i}, sent)
    <3>1. sent \in SUBSET Message
      BY Zenon, <2>2
    <3> HIDE DEF sent
    <3> QED BY Zenon, <2>3, <2>4, <3>1, StartElectionType
  <2>5. CASE /\ preVoteMask' = [preVoteMask EXCEPT ![i] = {i}]
             /\ Become(i, role[i], Nil)
             /\ net' = net \cup sent
             /\ UNCHANGED <<term, votedFor, voteMask, faulted, hard>>
    <3> HIDE DEF sent
    <3> QED BY Zenon, <2>2, <2>3, <2>5 DEF TypeOK, Become
  <2> QED BY Zenon, <1>1, <2>4, <2>5 DEF startPreVote
<1>2. ASSUME NEW i \in Server, writeFails(i)
      PROVE  TypeOK'
  <2>1. hard[i] \in HardState
    BY Zenon DEF TypeOK
  <2> QED BY Zenon, <1>2, <2>1, FailStorageType DEF TypeOK, writeFails
<1>3. ASSUME NEW i \in Server, NEW target \in Server, TransferLeadership(i, target)
      PROVE  TypeOK'
  <2>1. Msg("TimeoutNow", i, target, term[i], FALSE) \in Message
    BY Zenon, MsgType DEF TypeOK, MessageTypes
  <2> QED BY Zenon, <1>3, <2>1 DEF TypeOK, TransferLeadership, volatile
<1>4. ASSUME NEW i \in Server, NewRecoveredNode(i)
      PROVE  TypeOK'
  BY Zenon, <1>4 DEF TypeOK, NewRecoveredNode, Become, persistHardState, HardState, Role
<1>5. ASSUME NEW i \in Server, NEW S \in SUBSET Peers(i), appendTo(i, S)
      PROVE  TypeOK'
  <2>1. MsgsTo("Append", i, S, term[i]) \subseteq MsgsTo("Append", i, Peers(i), term[i])
    BY Zenon DEF MsgsTo
  <2>2. MsgsTo("Append", i, Peers(i), term[i]) \subseteq Message
    BY Zenon, MsgsToType DEF MessageTypes, TypeOK
  <2> QED BY Zenon, <1>5, <2>1, <2>2 DEF TypeOK, appendTo, volatile
<1>6. CASE UNCHANGED vars
  BY Zenon, <1>6 DEF TypeOK, vars, volatile
<1> QED BY Zenon, <1>1, <1>2, <1>3, <1>4, <1>5, <1>6, StepType DEF Next

\* Every node's fields, its durable hard state and the network always hold
\* values of their types (all handlers of raft/node.go).
THEOREM TypeCorrect == Spec => []TypeOK
<1>1. Init => TypeOK
  BY DEF Init, TypeOK, Role, HardState, Hard
<1> QED BY <1>1, NextType, PTL DEF Spec

-----------------------------------------------------------------------------
(****************************************************************************)
(* NodeStep says what a step of node i may do as far as votes are           *)
(* concerned. Every action is such a step, and such a step keeps            *)
(* ElectionInv.                                                             *)
(****************************************************************************)

OthersKeep(i) ==
  \A k \in Server \ {i} :
    /\ role'[k] = role[k] /\ term'[k] = term[k] /\ votedFor'[k] = votedFor[k]
    /\ hard'[k] = hard[k] /\ voteMask'[k] = voteMask[k]

HardStep(i) ==
  /\ hard'[i].term = term'[i] /\ hard'[i].vote = votedFor'[i]
  /\ \/ hard'[i].term > hard[i].term
     \/ /\ hard'[i].term = hard[i].term
        /\ hard[i].vote = Nil \/ hard'[i].vote = hard[i].vote

NetStep(i) ==
  /\ net \subseteq net'
  /\ \A m \in net' \ net :
       /\ IsVote(m) => m.from = i /\ m.term = term'[i] /\ VotedFor(m) = votedFor'[i]
       /\ m.type = "Append" => /\ m.from = i /\ m.term = term'[i]
                               /\ role'[i] = "Leader" /\ Peers(i) # {}

MaskStep(i) ==
  /\ role'[i] # "Follower" /\ Peers(i) # {} =>
       \A j \in voteMask'[i] : HasVote(j, i, term[i])'
  /\ role'[i] = "Leader" => majorityMask(voteMask'[i])

NodeStep(i) == OthersKeep(i) /\ HardStep(i) /\ NetStep(i) /\ MaskStep(i)

\* A vote that is on the network stays there (net only grows).
LEMMA HasVoteStable ==
  ASSUME net \subseteq net', NEW j, NEW i, NEW t, HasVote(j, i, t)
  PROVE  HasVote(j, i, t)'
BY Zenon DEF HasVote

\* A node step keeps the inductive invariant and no durable vote is changed.
LEMMA NodeStepKeepsInv ==
  ASSUME TypeOK, TypeOK', ElectionInv, NEW i \in Server, NodeStep(i)
  PROVE  ElectionInv' /\ DurableVoteKept
<1> USE DEF NodeStep
<1>1. HardMatches'
  BY Zenon DEF ElectionInv, HardMatches, OthersKeep, HardStep
<1>2. DurableVoteKept
  <2>1. ASSUME NEW k \in Server
        PROVE  /\ hard'[k].term >= hard[k].term
               /\ hard'[k].term = hard[k].term /\ hard[k].vote # Nil
                    => hard'[k].vote = hard[k].vote
    <3>1. hard[k].term \in Nat
      BY Zenon DEF TypeOK, HardState
    <3>2. CASE k = i
      <4>1. hard'[i].term \in Nat
        BY Zenon DEF TypeOK, HardState
      <4> QED BY <3>1, <3>2, <4>1 DEF HardStep
    <3>3. CASE k # i
      BY <3>1, <3>3 DEF OthersKeep
    <3> QED BY Zenon, <3>2, <3>3
  <2> QED BY Zenon, <2>1 DEF DurableVoteKept
<1>3. ASSUME NEW m \in net, IsVote(m)
      PROVE  VotedFor(m) \in Server /\ m.from \in Server /\ m.term \in Nat
  BY Zenon DEF TypeOK, Message, VotedFor
<1>4. VotesDurable'
  <2> SUFFICES ASSUME NEW m \in net', IsVote(m)
               PROVE  \/ hard'[m.from].term > m.term
                      \/ hard'[m.from].term = m.term /\ hard'[m.from].vote = VotedFor(m)
    BY Zenon DEF VotesDurable
  <2>1. CASE m \in net
    <3>1. /\ VotedFor(m) \in Server /\ m.from \in Server /\ m.term \in Nat
          /\ VotedFor(m) # Nil
      BY Zenon, <1>3, <2>1, NilAssumption
    <3>2. \/ hard[m.from].term > m.term
          \/ hard[m.from].term = m.term /\ hard[m.from].vote = VotedFor(m)
      BY Zenon, <2>1 DEF ElectionInv, VotesDurable
    <3>3. hard[m.from].term \in Nat /\ hard'[m.from].term \in Nat
      BY Zenon, <3>1 DEF TypeOK, HardState
    <3> QED BY <1>2, <3>1, <3>2, <3>3 DEF DurableVoteKept
  <2>2. CASE m \notin net
    BY Zenon, <2>2 DEF NetStep, HardStep
  <2> QED BY Zenon, <2>1, <2>2
<1>5. VoteOnce'
  <2>1. ASSUME NEW m \in net' \ net, NEW o \in net, IsVote(m), IsVote(o),
               m.from = o.from, m.term = o.term
        PROVE  VotedFor(m) = VotedFor(o)
    <3>1. /\ m.from = i /\ m.term = hard'[i].term /\ VotedFor(m) = hard'[i].vote
      BY Zenon, <2>1 DEF NetStep, HardStep
    <3>2. VotedFor(o) \in Server /\ VotedFor(o) # Nil /\ o.term \in Nat
      BY Zenon, <1>3, <2>1, NilAssumption
    <3>3. \/ hard[i].term > o.term
          \/ hard[i].term = o.term /\ hard[i].vote = VotedFor(o)
      BY Zenon, <2>1, <3>1 DEF ElectionInv, VotesDurable
    <3>4. hard[i].term \in Nat /\ hard'[i].term \in Nat
      BY Zenon DEF TypeOK, HardState
    <3> QED BY <2>1, <3>1, <3>2, <3>3, <3>4 DEF HardStep
  <2>2. ASSUME NEW m \in net' \ net, NEW o \in net' \ net, IsVote(m), IsVote(o)
        PROVE  VotedFor(m) = VotedFor(o)
    BY Zenon, <2>2 DEF NetStep
  <2>3. ASSUME NEW m \in net, NEW o \in net, IsVote(m), IsVote(o),
               m.from = o.from, m.term = o.term
        PROVE  VotedFor(m) = VotedFor(o)
    BY Zenon, <2>3 DEF ElectionInv, VoteOnce
  <2> QED BY Zenon, <2>1, <2>2, <2>3 DEF VoteOnce
<1>6. MasksBacked'
  <2> SUFFICES ASSUME NEW k \in Server, role'[k] # "Follower", Peers(k) # {},
                      NEW j \in voteMask'[k]
               PROVE  HasVote(j, k, term[k])'
    BY Zenon DEF MasksBacked
  <2>1. CASE k = i
    BY Zenon, <2>1 DEF MaskStep
  <2>2. CASE k # i
    <3>1. HasVote(j, k, term[k]) /\ term'[k] = term[k]
      BY Zenon, <2>2 DEF ElectionInv, MasksBacked, OthersKeep
    <3> QED BY Zenon, <3>1 DEF NetStep, HasVote
  <2> QED BY Zenon, <2>1, <2>2
<1>7. LeadersElected'
  <2>1. ASSUME NEW k \in Server, role'[k] = "Leader"
        PROVE  majorityMask(voteMask'[k])
    BY Zenon, <2>1 DEF ElectionInv, LeadersElected, OthersKeep, MaskStep
  <2>2. ASSUME NEW m \in net', m.type = "Append"
        PROVE  Elected(m.from, m.term)'
    <3>1. CASE m \in net
      BY Zenon, <2>2, <3>1, HasVoteStable DEF ElectionInv, LeadersElected, Elected, NetStep
    <3>2. CASE m \notin net
      <4>1. /\ m.from = i /\ m.term = term'[i] /\ role'[i] = "Leader" /\ Peers(i) # {}
        BY Zenon, <2>2, <3>2 DEF NetStep
      <4>2. \A j \in voteMask'[i] : HasVote(j, i, term[i])'
        BY Zenon, <4>1 DEF MaskStep
      <4>3. majorityMask(voteMask'[i]) /\ voteMask'[i] \in SUBSET Server
        BY Zenon, <2>1, <4>1 DEF TypeOK
      <4> QED BY <4>1, <4>2, <4>3 DEF Elected, HasVote
    <3> QED BY Zenon, <3>1, <3>2
  <2> QED BY Zenon, <2>1, <2>2 DEF LeadersElected
<1> QED BY Zenon, <1>1, <1>2, <1>4, <1>5, <1>6, <1>7 DEF ElectionInv

\* Failing storage is a node step: nothing is sent and the node leads nothing.
LEMMA FailStorageStep ==
  ASSUME TypeOK, ElectionInv, NEW i \in Server, NEW h \in HardState,
         h = hard[i] \/ h.term > hard[i].term,
         \A k \in Server \ {i} : voteMask'[k] = voteMask[k],
         failStorage(i, h)
  PROVE  NodeStep(i)
<1>1. OthersKeep(i)
  BY Zenon DEF OthersKeep, failStorage, Become, persistHardState, TypeOK
<1>2. HardStep(i)
  BY Zenon DEF HardStep, failStorage, persistHardState, TypeOK
<1>3. NetStep(i)
  BY Zenon DEF NetStep, failStorage
<1>4. MaskStep(i)
  BY Zenon DEF MaskStep, failStorage, Become, TypeOK
<1> QED BY Zenon, <1>1, <1>2, <1>3, <1>4 DEF NodeStep

\* What MsgsTo sends (the loops over Peers in raft/node.go).
LEMMA MsgsToFields ==
  ASSUME NEW type, NEW i, NEW t, NEW m \in MsgsTo(type, i, Peers(i), t)
  PROVE  /\ m.type = type /\ m.from = i /\ m.term = t /\ ~m.reject
         /\ m.to \in Peers(i)
BY DEF MsgsTo, Msg

\* A candidate that has counted a majority of votes becomes leader by a node
\* step (becomeLeader in the RequestVoteResponse case of Step).
LEMMA BecomeLeaderStep ==
  ASSUME TypeOK, ElectionInv, NEW i \in Server,
         \A k \in Server \ {i} : voteMask'[k] = voteMask[k],
         Peers(i) # {} => \A j \in voteMask'[i] : HasVote(j, i, term[i]),
         majorityMask(voteMask'[i]),
         becomeLeader(i, hard[i], {})
  PROVE  NodeStep(i)
<1>1. hard[i] \in HardState
  BY Zenon DEF TypeOK
<1>2. CASE failStorage(i, hard[i])
  BY Zenon, <1>1, <1>2, FailStorageStep
<1>3. CASE /\ Become(i, "Leader", i)
           /\ persistHardState(i, hard[i])
           /\ net' = net \cup MsgsTo("Append", i, Peers(i), hard[i].term)
  <2>1. /\ term'[i] = hard[i].term /\ votedFor'[i] = hard[i].vote /\ hard'[i] = hard[i]
        /\ role'[i] = "Leader" /\ term'[i] = term[i]
    BY Zenon, <1>3 DEF Become, persistHardState, TypeOK, ElectionInv, HardMatches
  <2>2. OthersKeep(i)
    BY Zenon, <1>3 DEF OthersKeep, Become, persistHardState, TypeOK
  <2>3. HardStep(i)
    BY Zenon, <2>1 DEF HardStep
  <2>4. NetStep(i)
    <3>1. ASSUME NEW m \in MsgsTo("Append", i, Peers(i), hard[i].term)
          PROVE  /\ ~IsVote(m) /\ m.from = i /\ m.term = hard[i].term /\ Peers(i) # {}
      <4>1. m.type = "Append" /\ m.from = i /\ m.term = hard[i].term /\ m.to \in Peers(i)
        BY DEF MsgsTo, Msg
      <4> QED BY Zenon, <4>1 DEF IsVote
    <3> QED BY Zenon, <1>3, <2>1, <3>1 DEF NetStep
  <2>5. MaskStep(i)
    BY Zenon, <1>3, <2>1 DEF MaskStep, HasVote
  <2> QED BY Zenon, <2>2, <2>3, <2>4, <2>5 DEF NodeStep
<1> QED BY Zenon, <1>2, <1>3 DEF becomeLeader

\* Starting an election is a node step: the vote for oneself is durable before
\* the requests that announce it (startElection).
LEMMA StartElectionStep ==
  ASSUME TypeOK, TypeOK', ElectionInv, NEW i \in Server, NEW l, NEW mask,
         NEW sent \in SUBSET Message,
         \A m \in sent : m.type = "PreVote",
         startElection(i, l, mask, sent)
  PROVE  NodeStep(i)
<1> DEFINE h == Hard(term[i] + 1, i)
           requests == MsgsTo("RequestVote", i, Peers(i), h.term)
<1>1. /\ h \in HardState /\ h.term = term[i] + 1 /\ h.vote = i
      /\ hard[i] \in HardState /\ hard[i].term = term[i] /\ term[i] \in Nat
  BY DEF TypeOK, ElectionInv, HardMatches, Hard, HardState
<1>2. CASE failStorage(i, hard[i]) /\ UNCHANGED voteMask
  BY Zenon, <1>1, <1>2, FailStorageStep
<1>3. CASE /\ voteMask' = [voteMask EXCEPT ![i] = {i}]
           /\ \/ majorityMask({i}) /\ becomeLeader(i, h, sent \cup requests)
              \/ /\ Become(i, "Candidate", l)
                 /\ persistHardState(i, h)
                 /\ net' = net \cup sent \cup requests
  <2>1. /\ voteMask'[i] = {i}
        /\ \A k \in Server \ {i} : voteMask'[k] = voteMask[k]
    BY <1>3 DEF TypeOK
  <2>2. ASSUME NEW m \in requests
        PROVE  /\ m.type = "RequestVote" /\ IsVote(m) /\ VotedFor(m) = i
               /\ m.from = i /\ m.term = h.term
    BY MsgsToFields DEF IsVote, VotedFor
  <2>3. Peers(i) # {} => requests # {}
    BY Zenon DEF MsgsTo
  <2>4. ASSUME NEW m \in sent
        PROVE  ~IsVote(m) /\ m.type # "Append"
    BY Zenon DEF IsVote
  <2> HIDE DEF h, requests
  <2>5. CASE failStorage(i, h)
    <3>1. h.term > hard[i].term
      BY <1>1
    <3> QED BY Zenon, <1>1, <2>1, <2>5, <3>1, FailStorageStep
  <2>6. CASE /\ \/ majorityMask({i}) /\ Become(i, "Leader", i)
                   /\ net' = net \cup sent \cup requests \cup MsgsTo("Append", i, Peers(i), h.term)
                \/ Become(i, "Candidate", l) /\ net' = net \cup sent \cup requests
             /\ persistHardState(i, h)
    <3>1. /\ term'[i] = h.term /\ votedFor'[i] = i /\ hard'[i] = h
          /\ role'[i] = "Leader" => majorityMask({i})
      BY Zenon, <1>1, <2>6 DEF Become, persistHardState, TypeOK
    <3>2. OthersKeep(i)
      BY <2>1, <2>6 DEF OthersKeep, Become, persistHardState, TypeOK
    <3>3. HardStep(i)
      BY <1>1, <3>1 DEF HardStep
    <3>4. NetStep(i)
      <4>1. ASSUME NEW m \in MsgsTo("Append", i, Peers(i), h.term)
            PROVE  /\ ~IsVote(m) /\ m.from = i /\ m.term = h.term /\ Peers(i) # {}
        BY MsgsToFields DEF IsVote
      <4>2. CASE Become(i, "Candidate", l) /\ net' = net \cup sent \cup requests
        BY Zenon, <2>2, <2>4, <3>1, <4>2 DEF NetStep
      <4>3. CASE /\ Become(i, "Leader", i)
                 /\ net' = net \cup sent \cup requests \cup MsgsTo("Append", i, Peers(i), h.term)
        <5>1. role'[i] = "Leader"
          BY Zenon, <4>3 DEF Become, TypeOK
        <5> QED BY Zenon, <2>2, <2>4, <3>1, <4>1, <4>3, <5>1 DEF NetStep
      <4> QED BY Zenon, <2>6, <4>2, <4>3
    <3>5. MaskStep(i)
      <4>1. requests \subseteq net'
        BY Zenon, <2>6
      <4>2. Peers(i) # {} => HasVote(i, i, term[i])'
        BY Zenon, <2>2, <2>3, <3>1, <4>1 DEF HasVote
      <4> QED BY Zenon, <2>1, <3>1, <4>2 DEF MaskStep
    <3> QED BY Zenon, <3>2, <3>3, <3>4, <3>5 DEF NodeStep
  <2> QED BY Zenon, <1>3, <2>5, <2>6 DEF becomeLeader
<1> QED BY Zenon, <1>2, <1>3 DEF startElection

\* Handling one message is a node step (Step).
LEMMA StepStep ==
  ASSUME TypeOK, TypeOK', ElectionInv, NEW i \in Server, NEW m \in net, Step(i, m)
  PROVE  NodeStep(i)
<1>1. /\ m \in Message /\ m.from \in Server /\ m.term \in Nat /\ m.from # Nil
      /\ hard[i] \in HardState /\ hard[i].term = term[i] /\ hard[i].vote = votedFor[i]
      /\ term[i] \in Nat
  BY NilAssumption DEF TypeOK, Message, ElectionInv, HardMatches
<1>2. /\ HardAfter(i, m) \in HardState
      /\ HardAfter(i, m).term = TermAfter(i, m) /\ HardAfter(i, m).vote = VoteAfter(i, m)
      /\ TermAfter(i, m) \in Nat
      /\ HardAfter(i, m) = hard[i] \/ HardAfter(i, m).term > hard[i].term
  BY Zenon, <1>1, AfterType DEF HardAfter, TermAfter, VoteAfter, Newer, Hard
\* What onVote, onAppend and onNewerTerm have in common: the prologue.
<1>3. ASSUME OthersKeep(i), net \subseteq net',
             hard'[i].term = term'[i], hard'[i].vote = votedFor'[i],
             voteMask'[i] = voteMask[i],
             \/ hard'[i] = HardAfter(i, m)
             \/ hard'[i].term = TermAfter(i, m) /\ VoteAfter(i, m) \in {Nil, hard'[i].vote},
             \A o \in net' \ net :
               /\ IsVote(o) => o.from = i /\ o.term = term'[i] /\ VotedFor(o) = votedFor'[i]
               /\ o.type # "Append",
             role'[i] = "Follower" \/ (role'[i] = role[i] /\ term'[i] = term[i])
      PROVE  NodeStep(i)
  <2>1. HardStep(i)
    <3>1. \/ hard'[i].term > hard[i].term
          \/ /\ hard'[i].term = hard[i].term
             /\ hard[i].vote = Nil \/ hard'[i].vote = hard[i].vote
      BY Zenon, <1>1, <1>2, <1>3 DEF HardAfter, TermAfter, VoteAfter, Newer, Hard
    <3> QED BY Zenon, <1>3, <3>1 DEF HardStep
  <2>2. NetStep(i)
    BY Zenon, <1>3 DEF NetStep
  <2>3. MaskStep(i)
    <3>1. CASE role'[i] = "Follower"
      BY SMTT(20), <3>1 DEF MaskStep
    <3>2. CASE role'[i] = role[i] /\ term'[i] = term[i]
      BY <1>3, <3>2 DEF MaskStep, HasVote, ElectionInv, MasksBacked, LeadersElected
    <3> QED BY Zenon, <1>3, <3>1, <3>2
  <2> QED BY Zenon, <1>3, <2>1, <2>2, <2>3 DEF NodeStep
<1>4. ASSUME NEW b \in BOOLEAN, onPreVote(i, m, b)
      PROVE  NodeStep(i)
  <2> DEFINE reply == Msg("PreVoteResponse", i, m.from, m.term, FALSE)
  <2>1. UNCHANGED <<role, term, votedFor, voteMask, hard>> /\ net' = net \cup {reply}
    BY Zenon, <1>4 DEF onPreVote, volatile
  <2>2. ~IsVote(reply) /\ reply.type # "Append"
    BY Zenon DEF IsVote, Msg
  <2> HIDE DEF reply
  <2>3. NetStep(i)
    BY Zenon, <2>1, <2>2 DEF NetStep
  <2>4. MaskStep(i)
    BY <2>1 DEF MaskStep, HasVote, ElectionInv, MasksBacked, LeadersElected
  <2> QED BY Zenon, <1>1, <2>1, <2>3, <2>4 DEF NodeStep, OthersKeep, HardStep
<1>5. ASSUME NEW b \in BOOLEAN, onVote(i, m, b)
      PROVE  NodeStep(i)
  <2> DEFINE grant == /\ m.term = TermAfter(i, m)
                      /\ VoteAfter(i, m) \in {Nil, m.from}
                      /\ b
             h == IF grant THEN Hard(m.term, m.from) ELSE HardAfter(i, m)
             reply == Msg("RequestVoteResponse", i, m.from, TermAfter(i, m), ~grant)
  <2>1. CASE failStorage(i, hard[i])
    BY SMTT(20), <1>1, <1>5, <2>1, FailStorageStep DEF onVote
  <2>2. CASE failStorage(i, HardAfter(i, m))
    BY Zenon, <1>2, <1>5, <2>2, FailStorageStep DEF onVote
  <2>3. CASE /\ Become(i, RoleAfter(i, m), LeaderAfter(i, m))
             /\ persistHardState(i, h)
             /\ net' = net \cup {reply}
    <3>1. /\ h \in HardState /\ h.term = TermAfter(i, m)
          /\ \/ h = HardAfter(i, m)
             \/ h.term = TermAfter(i, m) /\ VoteAfter(i, m) \in {Nil, h.vote}
      BY Zenon, <1>1, <1>2 DEF Hard, HardState
    <3>2. /\ IsVote(reply) => reply.from = i /\ reply.term = h.term /\ VotedFor(reply) = h.vote
          /\ reply.type # "Append"
      BY Zenon, <3>1 DEF IsVote, VotedFor, Msg, Hard
    <3>3. \/ RoleAfter(i, m) = "Follower"
          \/ RoleAfter(i, m) = role[i] /\ h.term = term[i]
      BY Zenon, <3>1 DEF RoleAfter, TermAfter
    <3>4. UNCHANGED voteMask
      BY Zenon, <1>5 DEF onVote
    <3> HIDE DEF h, reply
    <3>5. /\ term'[i] = h.term /\ votedFor'[i] = h.vote /\ hard'[i] = h
          /\ role'[i] = RoleAfter(i, m) /\ voteMask'[i] = voteMask[i]
      BY Zenon, <2>3, <3>4 DEF Become, persistHardState, TypeOK
    <3>6. OthersKeep(i)
      BY <2>3, <3>4 DEF OthersKeep, Become, persistHardState, TypeOK
    <3>7. \A o \in net' \ net : o = reply
      BY Zenon, <2>3
    <3>8. net \subseteq net'
      BY Zenon, <2>3
    <3> QED BY Zenon, <1>3, <3>1, <3>2, <3>3, <3>5, <3>6, <3>7, <3>8
  <2> QED BY Zenon, <1>5, <2>1, <2>2, <2>3 DEF onVote
<1>6. ASSUME NEW b \in BOOLEAN, onAppend(i, m, b)
      PROVE  NodeStep(i)
  <2> DEFINE reply == Msg("AppendResponse", i, m.from, TermAfter(i, m), FALSE)
  <2>1. CASE failStorage(i, hard[i])
    BY Zenon, <1>1, <1>6, <2>1, FailStorageStep DEF onAppend
  <2>2. CASE failStorage(i, HardAfter(i, m))
    BY Zenon, <1>2, <1>6, <2>2, FailStorageStep DEF onAppend
  <2>3. CASE /\ \/ Become(i, "Follower", m.from)
                \/ Become(i, RoleAfter(i, m), LeaderAfter(i, m))
             /\ persistHardState(i, HardAfter(i, m))
             /\ net' = net \cup {reply}
    <3>1. ~IsVote(reply) /\ reply.type # "Append"
      BY Zenon DEF IsVote, Msg
    <3>2. \/ RoleAfter(i, m) = "Follower"
          \/ RoleAfter(i, m) = role[i] /\ HardAfter(i, m).term = term[i]
      BY Zenon, <1>2 DEF RoleAfter, TermAfter
    <3>3. UNCHANGED voteMask
      BY Zenon, <1>6 DEF onAppend
    <3> HIDE DEF reply
    <3>4. /\ term'[i] = HardAfter(i, m).term /\ votedFor'[i] = HardAfter(i, m).vote
          /\ hard'[i] = HardAfter(i, m) /\ voteMask'[i] = voteMask[i]
          /\ role'[i] = "Follower" \/ role'[i] = RoleAfter(i, m)
      BY Zenon, <2>3, <3>3 DEF Become, persistHardState, TypeOK
    <3>5. OthersKeep(i)
      BY <2>3, <3>3 DEF OthersKeep, Become, persistHardState, TypeOK
    <3>6. \A o \in net' \ net : o = reply
      BY Zenon, <2>3
    <3>7. net \subseteq net'
      BY Zenon, <2>3
    <3> QED BY Zenon, <1>3, <3>1, <3>2, <3>4, <3>5, <3>6, <3>7
  <2> QED BY Zenon, <1>6, <2>1, <2>2, <2>3 DEF onAppend
<1>7. ASSUME onPreVoteResponse(i, m)
      PROVE  NodeStep(i)
  <2>1. CASE startElection(i, leader[i], preVoteMask[i] \cup {m.from}, {})
    BY <2>1, StartElectionStep
  <2>2. CASE UNCHANGED <<role, term, votedFor, leader, voteMask, faulted, hard, net>>
    <3>1. MaskStep(i)
      BY Zenon, <2>2 DEF MaskStep, HasVote, ElectionInv, MasksBacked, LeadersElected
    <3> QED BY SMTT(20), <1>1, <2>2, <3>1 DEF NodeStep, OthersKeep, HardStep, NetStep
  <2> QED BY Zenon, <1>7, <2>1, <2>2 DEF onPreVoteResponse
<1>8. ASSUME onVoteResponse(i, m)
      PROVE  NodeStep(i)
  <2>1. /\ voteMask'[i] = voteMask[i] \cup {m.from}
        /\ \A k \in Server \ {i} : voteMask'[k] = voteMask[k]
        /\ role[i] = "Candidate"
    BY SMTT(20), <1>8 DEF onVoteResponse, TypeOK
  <2>2. IsVote(m) /\ m.term = term[i] /\ VotedFor(m) = i
    BY Zenon, <1>8 DEF onVoteResponse, IsVote, VotedFor, Step
  <2>3. ASSUME Peers(i) # {}, NEW j \in voteMask'[i]
        PROVE  HasVote(j, i, term[i])
    BY SMTT(20), <2>1, <2>2, <2>3 DEF HasVote, ElectionInv, MasksBacked
  <2>4. CASE majorityMask(voteMask[i] \cup {m.from}) /\ becomeLeader(i, hard[i], {})
    BY SMTT(20), <2>1, <2>3, <2>4, BecomeLeaderStep
  <2>5. CASE UNCHANGED <<role, term, votedFor, leader, faulted, hard, net>>
    <3>1. MaskStep(i)
      BY Zenon, <2>1, <2>3, <2>5 DEF MaskStep, HasVote
    <3> QED BY Zenon, <1>1, <2>1, <2>5, <3>1 DEF NodeStep, OthersKeep, HardStep, NetStep
  <2> QED BY Zenon, <1>8, <2>4, <2>5 DEF onVoteResponse
<1>9. ASSUME onNewerTerm(i, m)
      PROVE  NodeStep(i)
  <2>1. CASE failStorage(i, hard[i])
    BY Zenon, <1>1, <1>9, <2>1, FailStorageStep DEF onNewerTerm
  <2>2. CASE Become(i, "Follower", Nil) /\ persistHardState(i, HardAfter(i, m)) /\ UNCHANGED net
    <3>1. UNCHANGED voteMask
      BY Zenon, <1>9 DEF onNewerTerm
    <3>2. /\ term'[i] = HardAfter(i, m).term /\ votedFor'[i] = HardAfter(i, m).vote
          /\ hard'[i] = HardAfter(i, m) /\ voteMask'[i] = voteMask[i]
          /\ role'[i] = "Follower"
      BY Zenon, <2>2, <3>1 DEF Become, persistHardState, TypeOK
    <3>3. OthersKeep(i)
      BY <2>2, <3>1 DEF OthersKeep, Become, persistHardState, TypeOK
    <3> QED BY Zenon, <1>3, <2>2, <3>2, <3>3
  <2> QED BY Zenon, <1>9, <2>1, <2>2 DEF onNewerTerm
<1>10. ASSUME onTimeoutNow(i, m)
       PROVE  NodeStep(i)
  BY <1>10, StartElectionStep DEF onTimeoutNow
<1> QED BY Zenon, <1>4, <1>5, <1>6, <1>7, <1>8, <1>9, <1>10 DEF Step

\* Every step keeps the inductive invariant and changes no durable vote.
LEMMA NextElection ==
  TypeOK /\ ElectionInv /\ [Next]_vars => ElectionInv' /\ (UNCHANGED vars \/ DurableVoteKept)
<1> SUFFICES ASSUME TypeOK, ElectionInv, [Next]_vars
             PROVE  ElectionInv' /\ (UNCHANGED vars \/ DurableVoteKept)
  BY Zenon
<1>1. TypeOK'
  BY SMTT(20), NextType
<1>2. ASSUME NEW i \in Server, startPreVote(i)
      PROVE  NodeStep(i)
  <2> DEFINE sent == MsgsTo("PreVote", i, Peers(i), term[i] + 1)
  <2>1. \A m \in sent : m.type = "PreVote"
    BY DEF MsgsTo, Msg
  <2>2. sent \in SUBSET Message
    BY MsgsToType DEF MessageTypes, PreVoteTypes, TypeOK
  <2> HIDE DEF sent
  <2>3. CASE startElection(i, Nil, {i}, sent)
    BY Zenon, <1>1, <2>1, <2>2, <2>3, StartElectionStep
  <2>4. CASE /\ Become(i, role[i], Nil) /\ net' = net \cup sent
             /\ UNCHANGED <<term, votedFor, voteMask, faulted, hard>>
    <3>1. role' = role
      BY Zenon, <2>4 DEF Become, TypeOK
    <3>2. NetStep(i)
      BY Zenon, <2>1, <2>4 DEF NetStep, IsVote
    <3>3. MaskStep(i)
      BY <2>4, <3>1 DEF MaskStep, HasVote, ElectionInv, MasksBacked, LeadersElected
    <3>4. HardStep(i)
      BY Zenon, <2>4 DEF HardStep, ElectionInv, HardMatches
    <3> QED BY Zenon, <2>4, <3>1, <3>2, <3>3, <3>4 DEF NodeStep, OthersKeep
  <2> QED BY Zenon, <1>2, <2>3, <2>4 DEF startPreVote, sent
<1>3. ASSUME NEW i \in Server, writeFails(i)
      PROVE  NodeStep(i)
  <2>1. hard[i] \in HardState
    BY Zenon DEF TypeOK
  <2> QED BY Zenon, <1>3, <2>1, FailStorageStep DEF writeFails
<1>4. ASSUME NEW i \in Server, NEW target \in Server, TransferLeadership(i, target)
      PROVE  NodeStep(i)
  <2> DEFINE order == Msg("TimeoutNow", i, target, term[i], FALSE)
  <2>1. UNCHANGED <<role, term, votedFor, voteMask, hard>> /\ net' = net \cup {order}
    BY Zenon, <1>4 DEF TransferLeadership, volatile
  <2>2. ~IsVote(order) /\ order.type # "Append"
    BY Zenon DEF IsVote, Msg
  <2> HIDE DEF order
  <2>3. NetStep(i)
    BY Zenon, <2>1, <2>2 DEF NetStep
  <2>4. MaskStep(i)
    BY <2>1 DEF MaskStep, HasVote, ElectionInv, MasksBacked, LeadersElected
  <2>5. HardStep(i)
    BY Zenon, <2>1 DEF HardStep, ElectionInv, HardMatches
  <2> QED BY Zenon, <2>1, <2>3, <2>4, <2>5 DEF NodeStep, OthersKeep
<1>5. ASSUME NEW i \in Server, NewRecoveredNode(i)
      PROVE  NodeStep(i)
  <2>1. OthersKeep(i)
    BY Zenon, <1>5 DEF NewRecoveredNode, OthersKeep, Become, persistHardState, TypeOK
  <2>2. HardStep(i)
    BY SMTT(20), <1>5 DEF NewRecoveredNode, HardStep, persistHardState, TypeOK
  <2>3. NetStep(i)
    BY Zenon, <1>5 DEF NewRecoveredNode, NetStep
  <2>4. MaskStep(i)
    BY Zenon, <1>5 DEF NewRecoveredNode, MaskStep, Become, TypeOK
  <2> QED BY Zenon, <2>1, <2>2, <2>3, <2>4 DEF NodeStep
<1>6. ASSUME NEW i \in Server, NEW m \in net, Step(i, m)
      PROVE  NodeStep(i)
  BY SMTT(20), <1>1, <1>6, StepStep
<1>7. ASSUME NEW i \in Server, NEW S \in SUBSET Peers(i), appendTo(i, S)
      PROVE  NodeStep(i)
  <2>1. /\ UNCHANGED <<role, term, votedFor, voteMask, hard>> /\ role[i] = "Leader"
        /\ net' = net \cup MsgsTo("Append", i, S, term[i])
    BY Zenon, <1>7 DEF appendTo, volatile
  <2>2. ASSUME NEW m \in MsgsTo("Append", i, S, term[i])
        PROVE  /\ ~IsVote(m) /\ m.type = "Append" /\ m.from = i /\ m.term = term[i]
               /\ Peers(i) # {}
    <3>1. m \in MsgsTo("Append", i, Peers(i), term[i])
      BY Zenon DEF MsgsTo
    <3>2. m.type = "Append" /\ m.from = i /\ m.term = term[i] /\ m.to \in Peers(i)
      BY <3>1 DEF MsgsTo, Msg
    <3> QED BY Zenon, <3>2 DEF IsVote
  <2>3. NetStep(i)
    BY Zenon, <2>1, <2>2 DEF NetStep
  <2>4. MaskStep(i)
    BY <2>1 DEF MaskStep, HasVote, ElectionInv, MasksBacked, LeadersElected
  <2>5. HardStep(i)
    BY Zenon, <2>1 DEF HardStep, ElectionInv, HardMatches
  <2> QED BY Zenon, <2>1, <2>3, <2>4, <2>5 DEF NodeStep, OthersKeep
<1>8. CASE UNCHANGED vars
  BY <1>8 DEF vars, volatile, ElectionInv, HardMatches, VotesDurable, VoteOnce, MasksBacked,
              LeadersElected, HasVote, Elected
<1>9. CASE Next
  <2>1. PICK i \in Server : NodeStep(i)
    BY Zenon, <1>2, <1>3, <1>4, <1>5, <1>6, <1>7, <1>9 DEF Next
  <2> QED BY Zenon, <1>1, <2>1, NodeStepKeepsInv
<1> QED BY Zenon, <1>8, <1>9

\* A node that leads a term, in a cluster of more than one, was elected in it.
LEMMA LeadsElected ==
  ASSUME TypeOK, ElectionInv, NEW i \in Server, NEW t, Leads(i, t), Peers(i) # {}
  PROVE  Elected(i, t)
<1>1. CASE role[i] = "Leader" /\ term[i] = t
  <2>1. /\ voteMask[i] \in SUBSET Server /\ majorityMask(voteMask[i])
        /\ \A j \in voteMask[i] : HasVote(j, i, t)
    BY Zenon, <1>1 DEF TypeOK, ElectionInv, LeadersElected, MasksBacked
  <2> QED BY Zenon, <2>1 DEF Elected
<1>2. CASE \E m \in net : m.type = "Append" /\ m.from = i /\ m.term = t
  BY Zenon, <1>2 DEF ElectionInv, LeadersElected
<1> QED BY Zenon, <1>1, <1>2 DEF Leads

\* The inductive invariant implies that a term has one leader.
LEMMA InvImpliesSafety == TypeOK /\ ElectionInv => ElectionSafety
<1> SUFFICES ASSUME TypeOK, ElectionInv, NEW t \in 0 .. MaxTerm, NEW i \in Server,
                    NEW j \in Server, Leads(i, t), Leads(j, t), i # j
             PROVE  FALSE
  BY Zenon DEF ElectionSafety
<1>1. Peers(i) # {} /\ Peers(j) # {}
  BY Zenon DEF Peers
<1>2. PICK Q \in SUBSET Server : majorityMask(Q) /\ \A k \in Q : HasVote(k, i, t)
  BY Zenon, <1>1, LeadsElected DEF Elected
<1>3. PICK R \in SUBSET Server : majorityMask(R) /\ \A k \in R : HasVote(k, j, t)
  BY Zenon, <1>1, LeadsElected DEF Elected
<1>4. PICK k \in Server : k \in Q /\ k \in R
  BY Zenon, <1>2, <1>3, MajoritiesIntersect
<1>5. HasVote(k, i, t) /\ HasVote(k, j, t)
  BY Zenon, <1>2, <1>3, <1>4
<1> QED BY Zenon, <1>5 DEF HasVote, ElectionInv, VoteOnce

\* The inductive invariant of elections holds throughout.
LEMMA ElectionInvHolds == Spec => [](TypeOK /\ ElectionInv)
<1>1. Init => TypeOK /\ ElectionInv
  <2>1. Init => TypeOK
    BY DEF Init, TypeOK, Role, HardState, Hard
  <2>2. Init => ElectionInv
    BY DEF Init, ElectionInv, HardMatches, VotesDurable, VoteOnce, MasksBacked,
           LeadersElected, Hard
  <2> QED BY Zenon, <2>1, <2>2
<1>2. (TypeOK /\ ElectionInv) /\ [Next]_vars => (TypeOK /\ ElectionInv)'
  BY Zenon, NextType, NextElection
<1> QED BY <1>1, <1>2, PTL DEF Spec

\* No two nodes ever act as leader of the same term (onVote, startElection,
\* becomeLeader): for any number of servers and terms, any loss, duplication
\* and reordering, any crash and any failed write.
THEOREM ElectionSafe == Spec => []ElectionSafety
BY ElectionInvHolds, InvImpliesSafety, PTL

\* No node ever votes for two candidates in one term, crashes and failed writes
\* included (onVote, startElection).
THEOREM VotesOnce == Spec => []VoteOnce
<1>1. ElectionInv => VoteOnce
  BY Zenon DEF ElectionInv
<1> QED BY <1>1, ElectionInvHolds, PTL

\* No handler asks the store for a lower term or another vote in the same term,
\* the writes raftwal.SaveHardState refuses.
THEOREM HardStateKept == Spec => HardStateNeverRegresses
<1>1. TypeOK /\ ElectionInv /\ [Next]_vars => [DurableVoteKept]_vars
  BY Zenon, NextElection
<1> QED BY <1>1, ElectionInvHolds, PTL DEF Spec, HardStateNeverRegresses

-----------------------------------------------------------------------------
(****************************************************************************)
(* Pre-vote.  OpenStep says what a step of node i may do as far as terms    *)
(* and pre-votes are concerned.                                             *)
(****************************************************************************)

OpenStep(i) ==
  /\ net \subseteq net' /\ net' \subseteq Message
  /\ \A k \in Server \ {i} :
       /\ hard'[k] = hard[k] /\ term'[k] = term[k]
       /\ preVoteMask'[k] = preVoteMask[k] /\ preVoteTerm'[k] = preVoteTerm[k]
  /\ preVoteMask'[i] \subseteq PreVoters(i, preVoteTerm[i])'
  /\ hard'[i].term = term'[i]
  /\ \/ term'[i] = term[i]
     \/ Opened(term[i])'
     \/ \E m \in net : m.type \notin PreVoteTypes /\ m.term = term'[i]
  /\ \A m \in net' \ net : m.type \in PreVoteTypes \/ m.term = term'[i]

\* A term that was opened stays opened (net only grows).
LEMMA OpenedStable ==
  ASSUME net \subseteq net', net' \subseteq Message, NEW t, Opened(t)
  PROVE  Opened(t)'
<1>1. PICK c \in Server : majorityMask(PreVoters(c, t)) \/ Transferred(c, t)
  BY Zenon DEF Opened
<1>2. CASE majorityMask(PreVoters(c, t))
  <2>1. PreVoters(c, t) \subseteq PreVoters(c, t)'
    BY Zenon DEF PreVoters
  <2>2. PreVoters(c, t)' \subseteq Server
    BY Zenon DEF PreVoters, Message
  <2>3. majorityMask(PreVoters(c, t)')
    BY Zenon, <1>2, <2>1, <2>2, MajorityMonotone
  <2> QED BY Zenon, <2>3 DEF Opened, majorityMask
<1>3. CASE Transferred(c, t)
  BY Zenon, <1>3 DEF Opened, Transferred
<1> QED BY Zenon, <1>1, <1>2, <1>3

\* Such a step keeps the inductive invariant of pre-votes.
LEMMA OpenStepKeepsInv ==
  ASSUME TypeOK, PreVoteInv, NEW i \in Server, OpenStep(i)
  PROVE  PreVoteInv'
<1>1. ASSUME NEW k \in Server
      PROVE  (preVoteMask[k] \subseteq PreVoters(k, preVoteTerm[k]))'
  <2>1. CASE k = i
    BY Zenon, <2>1 DEF OpenStep
  <2>2. CASE k # i
    <3>1. /\ preVoteMask'[k] = preVoteMask[k] /\ preVoteTerm'[k] = preVoteTerm[k]
          /\ net \subseteq net' /\ preVoteMask[k] \subseteq PreVoters(k, preVoteTerm[k])
      BY Zenon, <2>2 DEF OpenStep, PreVoteInv
    <3> QED BY <3>1 DEF PreVoters
  <2> QED BY Zenon, <2>1, <2>2
<1>2. ASSUME NEW t, t > 0, t \in Nat, Opened(t)
      PROVE  Opened(t)'
  BY Zenon, <1>2, OpenedStable DEF OpenStep
<1>3. ASSUME NEW m \in net, m.type \notin PreVoteTypes, m.term > 0
      PROVE  Opened(m.term)'
  BY Zenon, <1>2, <1>3 DEF PreVoteInv, TypeOK, Message
<1>4. ASSUME NEW k \in Server
      PROVE  (hard[k].term = term[k] /\ (term[k] > 0 => Opened(term[k])))'
  <2>1. ASSUME term'[k] = term[k], term[k] > 0
        PROVE  Opened(term[k])'
    <3> DEFINE t == term[k]
    <3>1. Opened(t) /\ t \in Nat
      BY Zenon, <2>1 DEF PreVoteInv, TypeOK
    <3>2. PICK c \in Server : majorityMask(PreVoters(c, t)) \/ Transferred(c, t)
      BY Zenon, <3>1 DEF Opened
    <3>3. CASE Transferred(c, t)
      BY Zenon, <2>1, <3>3 DEF Transferred, Opened, OpenStep
    <3>4. CASE majorityMask(PreVoters(c, t))
      <4>1. PreVoters(c, term[k]) \subseteq PreVoters(c, term[k])'
        BY <2>1 DEF PreVoters, OpenStep
      <4>2. PreVoters(c, term[k])' \subseteq Server
        BY Zenon DEF PreVoters, Message, OpenStep
      <4>3. majorityMask(PreVoters(c, term[k])')
        BY Zenon, <3>4, <4>1, <4>2, MajorityMonotone
      <4> QED BY Zenon, <4>3 DEF Opened, majorityMask
    <3> QED BY Zenon, <3>2, <3>3, <3>4
  <2>2. CASE k # i
    BY Zenon, <2>1, <2>2 DEF OpenStep, PreVoteInv
  <2>3. CASE k = i /\ term'[i] = term[i]
    BY Zenon, <2>1, <2>3 DEF OpenStep
  <2>4. CASE k = i /\ Opened(term[i])'
    BY Zenon, <2>4 DEF OpenStep
  <2>5. CASE k = i /\ \E m \in net : m.type \notin PreVoteTypes /\ m.term = term'[i]
    <3>1. PICK m \in net : m.type \notin PreVoteTypes /\ m.term = term'[i]
      BY Zenon, <2>5
    <3>2. term'[i] > 0 => Opened(m.term)'
      BY Zenon, <1>3, <3>1
    <3>3. term'[i] > 0 => Opened(term[i])'
      BY Zenon, <3>1, <3>2 DEF Opened, Transferred, PreVoters
    <3> QED BY Zenon, <2>5, <3>3 DEF OpenStep
  <2> QED BY Zenon, <2>2, <2>3, <2>4, <2>5 DEF OpenStep
<1>5. ASSUME NEW m \in net', m.type \notin PreVoteTypes, m.term > 0
      PROVE  Opened(m.term)'
  <2>1. CASE m \in net
    BY Zenon, <1>3, <1>5, <2>1
  <2>2. CASE m \notin net
    <3>1. m.term = term'[i]
      BY Zenon, <1>5, <2>2 DEF OpenStep
    <3>2. Opened(term[i])'
      BY Zenon, <1>4, <1>5, <3>1
    <3> QED BY Zenon, <3>1, <3>2 DEF Opened, Transferred, PreVoters
  <2> QED BY Zenon, <2>1, <2>2
<1> QED BY Zenon, <1>1, <1>4, <1>5 DEF PreVoteInv

\* Starting an election in an opened term is an open step (startElection).
LEMMA StartElectionOpen ==
  ASSUME TypeOK, TypeOK', PreVoteInv, NEW i \in Server, NEW l, NEW mask, NEW sent,
         \A m \in sent : m.type = "PreVote",
         \A k \in Server \ {i} : preVoteTerm'[k] = preVoteTerm[k],
         mask \subseteq PreVoters(i, preVoteTerm[i])',
         Opened(term[i] + 1),
         startElection(i, l, mask, sent)
  PROVE  OpenStep(i)
<1>1. hard[i].term = term[i] /\ term[i] \in Nat
  BY Zenon DEF TypeOK, PreVoteInv
<1>2. CASE /\ failStorage(i, hard[i])
           /\ preVoteMask' = [preVoteMask EXCEPT ![i] = mask]
  <2>1. /\ net' = net /\ hard' = [hard EXCEPT ![i] = hard[i]]
        /\ term' = [term EXCEPT ![i] = hard[i].term]
    BY Zenon, <1>2 DEF failStorage, persistHardState
  <2> QED BY <1>1, <1>2, <2>1 DEF OpenStep, TypeOK
<1>3. CASE /\ preVoteMask' = [preVoteMask EXCEPT ![i] = {}]
           /\ persistHardState(i, Hard(term[i] + 1, i))
           /\ net \subseteq net'
           /\ \A m \in net' \ net : m.type \in PreVoteTypes \/ m.term = term[i] + 1
  <2>1. PICK t \in Nat : t = term[i] + 1
    BY <1>1
  <2>2. /\ term'[i] = t /\ hard'[i].term = t
        /\ \A k \in Server \ {i} : term'[k] = term[k] /\ hard'[k] = hard[k]
    BY <1>3, <2>1 DEF persistHardState, Hard, TypeOK
  <2>3. Opened(t)'
    BY Zenon, <1>3, <2>1, OpenedStable DEF TypeOK
  <2>4. Opened(term[i])'
    <3>1. term'[i] = t
      BY Zenon, <2>2
    <3> QED BY Zenon, <2>3, <3>1 DEF Opened, PreVoters, Transferred
  <2> QED BY <1>3, <2>1, <2>2, <2>4 DEF OpenStep, TypeOK
<1>4. /\ \A m \in MsgsTo("RequestVote", i, Peers(i), term[i] + 1) : m.term = term[i] + 1
      /\ \A m \in MsgsTo("Append", i, Peers(i), term[i] + 1) : m.term = term[i] + 1
  BY DEF MsgsTo, Msg
<1>5. Hard(term[i] + 1, i).term = term[i] + 1
  BY Zenon DEF Hard
<1> QED BY Zenon, <1>2, <1>3, <1>4, <1>5
    DEF startElection, becomeLeader, failStorage, PreVoteTypes

\* Handling one message is an open step (Step).
LEMMA StepOpen ==
  ASSUME TypeOK, TypeOK', PreVoteInv, NEW i \in Server, NEW m \in net, Step(i, m)
  PROVE  OpenStep(i)
<1>1. /\ m \in Message /\ m.from \in Server /\ m.term \in Nat
      /\ hard[i].term = term[i] /\ term[i] \in Nat
      /\ preVoteMask[i] \subseteq PreVoters(i, preVoteTerm[i])
  BY Zenon DEF TypeOK, Message, PreVoteInv
<1>2. /\ HardAfter(i, m).term = TermAfter(i, m)
      /\ \/ TermAfter(i, m) = term[i]
         \/ m.type \notin PreVoteTypes /\ m.term = TermAfter(i, m)
  BY Zenon, <1>1 DEF HardAfter, TermAfter, Newer, Hard
\* Every case but the two that start an election.
<1>3. ASSUME net \subseteq net',
             \A o \in net' \ net : o.type \in PreVoteTypes \/ o.term = term'[i],
             \A k \in Server \ {i} :
               /\ hard'[k] = hard[k] /\ term'[k] = term[k]
               /\ preVoteMask'[k] = preVoteMask[k],
             UNCHANGED preVoteTerm,
             \/ preVoteMask'[i] = preVoteMask[i]
             \/ /\ preVoteMask'[i] = preVoteMask[i] \cup {m.from}
                /\ m.from \in PreVoters(i, preVoteTerm[i]),
             hard'[i].term = term'[i],
             term'[i] = term[i] \/ term'[i] = TermAfter(i, m)
      PROVE  OpenStep(i)
  <2>1. preVoteMask'[i] \subseteq PreVoters(i, preVoteTerm[i])'
    <3>1. PreVoters(i, preVoteTerm[i]) \subseteq PreVoters(i, preVoteTerm[i])'
      BY Zenon, <1>3 DEF PreVoters
    <3> QED BY Zenon, <1>1, <1>3, <3>1
  <2> QED BY Zenon, <1>2, <1>3, <2>1 DEF OpenStep, TypeOK
<1>4. ASSUME NEW h \in {hard[i], HardAfter(i, m)}, failStorage(i, h),
             UNCHANGED <<preVoteTerm, preVoteMask, voteMask>>
      PROVE  OpenStep(i)
  <2>1. /\ net' = net /\ hard'[i] = h /\ term'[i] = h.term
        /\ \A k \in Server \ {i} : hard'[k] = hard[k] /\ term'[k] = term[k]
    BY <1>4 DEF failStorage, persistHardState, TypeOK
  <2> QED BY Zenon, <1>1, <1>2, <1>3, <1>4, <2>1
<1>5. ASSUME NEW b \in BOOLEAN, onPreVote(i, m, b)
      PROVE  OpenStep(i)
  <2> DEFINE reply == Msg("PreVoteResponse", i, m.from, m.term, FALSE)
  <2>1. reply.type \in PreVoteTypes
    BY Zenon DEF Msg, PreVoteTypes
  <2>2. net' = net \cup {reply} /\ UNCHANGED <<hard, term, preVoteMask, preVoteTerm>>
    BY Zenon, <1>5 DEF onPreVote, volatile
  <2> HIDE DEF reply
  <2> QED BY Zenon, <1>1, <1>3, <2>1, <2>2
<1>6. ASSUME NEW b \in BOOLEAN, onVote(i, m, b)
      PROVE  OpenStep(i)
  <2> DEFINE grant == /\ m.term = TermAfter(i, m)
                      /\ VoteAfter(i, m) \in {Nil, m.from}
                      /\ b
             h == IF grant THEN Hard(m.term, m.from) ELSE HardAfter(i, m)
             reply == Msg("RequestVoteResponse", i, m.from, TermAfter(i, m), ~grant)
  <2>1. h.term = TermAfter(i, m) /\ reply.term = TermAfter(i, m)
    BY Zenon, <1>2 DEF Hard, Msg
  <2>2. UNCHANGED <<preVoteTerm, preVoteMask, voteMask>>
    BY Zenon, <1>6 DEF onVote
  <2>3. CASE persistHardState(i, h) /\ net' = net \cup {reply}
    <3> HIDE DEF h, reply
    <3>1. /\ hard'[i] = h /\ term'[i] = h.term
          /\ \A k \in Server \ {i} : hard'[k] = hard[k] /\ term'[k] = term[k]
      BY Zenon, <2>3 DEF persistHardState, TypeOK
    <3> QED BY Zenon, <1>3, <2>1, <2>2, <2>3, <3>1
  <2> QED BY Zenon, <1>4, <1>6, <2>2, <2>3 DEF onVote
<1>7. ASSUME NEW b \in BOOLEAN, onAppend(i, m, b)
      PROVE  OpenStep(i)
  <2> DEFINE reply == Msg("AppendResponse", i, m.from, TermAfter(i, m), FALSE)
  <2>1. reply.term = TermAfter(i, m)
    BY Zenon DEF Msg
  <2>2. UNCHANGED <<preVoteTerm, preVoteMask, voteMask>>
    BY Zenon, <1>7 DEF onAppend
  <2>3. CASE persistHardState(i, HardAfter(i, m)) /\ net' = net \cup {reply}
    <3> HIDE DEF reply
    <3>1. /\ hard'[i] = HardAfter(i, m) /\ term'[i] = HardAfter(i, m).term
          /\ \A k \in Server \ {i} : hard'[k] = hard[k] /\ term'[k] = term[k]
      BY Zenon, <2>3 DEF persistHardState, TypeOK
    <3> QED BY Zenon, <1>2, <1>3, <2>1, <2>2, <2>3, <3>1
  <2> QED BY Zenon, <1>4, <1>7, <2>2, <2>3 DEF onAppend
<1>8. ASSUME onPreVoteResponse(i, m)
      PROVE  OpenStep(i)
  <2> DEFINE mask == preVoteMask[i] \cup {m.from}
  <2>1. m.from \in PreVoters(i, preVoteTerm[i])
    BY Zenon, <1>8 DEF onPreVoteResponse, PreVoters, Step
  <2>2. mask \subseteq PreVoters(i, preVoteTerm[i])
    BY Zenon, <1>1, <2>1
  <2>3. preVoteTerm' = preVoteTerm /\ preVoteTerm[i] = term[i] + 1
    BY Zenon, <1>8 DEF onPreVoteResponse
  <2>4. CASE majorityMask(mask) /\ startElection(i, leader[i], mask, {})
    <3>1. PreVoters(i, preVoteTerm[i]) \subseteq Server
      BY DEF PreVoters, TypeOK, Message
    <3>2. majorityMask(PreVoters(i, preVoteTerm[i]))
      BY Zenon, <2>2, <2>4, <3>1, MajorityMonotone
    <3>3. Opened(term[i] + 1)
      BY Zenon, <2>3, <3>2 DEF Opened
    <3>4. net \subseteq net'
      BY Zenon, <2>4 DEF startElection, becomeLeader, failStorage
    <3>5. mask \subseteq PreVoters(i, preVoteTerm[i])'
      BY Zenon, <2>2, <2>3, <3>4 DEF PreVoters
    <3> HIDE DEF mask
    <3> QED BY <2>3, <2>4, <3>3, <3>5, StartElectionOpen
  <2>5. CASE /\ preVoteMask' = [preVoteMask EXCEPT ![i] = mask]
             /\ UNCHANGED <<role, term, votedFor, leader, voteMask, faulted, hard, net>>
    <3>1. /\ preVoteMask'[i] = mask
          /\ \A k \in Server \ {i} : preVoteMask'[k] = preVoteMask[k]
      BY Zenon, <2>5 DEF TypeOK
    <3> QED BY Zenon, <1>1, <1>3, <2>1, <2>3, <2>5, <3>1
  <2> QED BY Zenon, <1>8, <2>4, <2>5 DEF onPreVoteResponse
<1>9. ASSUME onVoteResponse(i, m)
      PROVE  OpenStep(i)
  <2>1. UNCHANGED <<preVoteTerm, preVoteMask>>
    BY Zenon, <1>9 DEF onVoteResponse
  <2>2. \A o \in MsgsTo("Append", i, Peers(i), hard[i].term) : o.term = hard[i].term
    BY DEF MsgsTo, Msg
  <2>3. CASE /\ persistHardState(i, hard[i])
             /\ \/ UNCHANGED net
                \/ net' = net \cup {} \cup MsgsTo("Append", i, Peers(i), hard[i].term)
    <3>1. hard' = hard /\ term' = term
      BY Zenon, <1>1, <2>3 DEF persistHardState, TypeOK
    <3>2. \A o \in net' \ net : o.term = term'[i]
      BY Zenon, <1>1, <2>2, <2>3, <3>1
    <3>3. net \subseteq net'
      BY Zenon, <2>3
    <3> QED BY Zenon, <1>1, <1>3, <2>1, <3>1, <3>2, <3>3
  <2>4. CASE UNCHANGED <<role, term, votedFor, leader, faulted, hard, net>>
    BY Zenon, <1>1, <1>3, <2>1, <2>4
  <2> QED BY Zenon, <1>9, <2>3, <2>4 DEF onVoteResponse, becomeLeader, failStorage
<1>10. ASSUME onNewerTerm(i, m)
       PROVE  OpenStep(i)
  <2>1. UNCHANGED <<preVoteTerm, preVoteMask, voteMask>>
    BY Zenon, <1>10 DEF onNewerTerm
  <2>2. CASE persistHardState(i, HardAfter(i, m)) /\ UNCHANGED net
    <3>1. /\ hard'[i] = HardAfter(i, m) /\ term'[i] = HardAfter(i, m).term
          /\ \A k \in Server \ {i} : hard'[k] = hard[k] /\ term'[k] = term[k]
      BY Zenon, <2>2 DEF persistHardState, TypeOK
    <3> QED BY Zenon, <1>2, <1>3, <2>1, <2>2, <3>1
  <2> QED BY Zenon, <1>4, <1>10, <2>1, <2>2 DEF onNewerTerm
<1>11. ASSUME onTimeoutNow(i, m)
       PROVE  OpenStep(i)
  <2>1. Opened(term[i] + 1)
    BY Zenon, <1>11 DEF onTimeoutNow, Opened, Transferred, Step
  <2>2. /\ startElection(i, leader[i], preVoteMask[i], {})
        /\ preVoteTerm' = preVoteTerm
    BY Zenon, <1>11 DEF onTimeoutNow
  <2>3. net \subseteq net'
    BY Zenon, <2>2 DEF startElection, becomeLeader, failStorage
  <2>4. preVoteMask[i] \subseteq PreVoters(i, preVoteTerm[i])'
    BY Zenon, <1>1, <2>2, <2>3 DEF PreVoters
  <2> QED BY <2>1, <2>2, <2>4, StartElectionOpen
<1> QED BY Zenon, <1>5, <1>6, <1>7, <1>8, <1>9, <1>10, <1>11 DEF Step

\* Every step keeps the inductive invariant of pre-votes.
LEMMA NextOpen == TypeOK /\ PreVoteInv /\ [Next]_vars => PreVoteInv'
<1> SUFFICES ASSUME TypeOK, PreVoteInv, [Next]_vars
             PROVE  PreVoteInv'
  BY Zenon
<1>1. TypeOK'
  BY Zenon, NextType
<1>2. ASSUME NEW i \in Server, startPreVote(i)
      PROVE  OpenStep(i)
  <2> DEFINE sent == MsgsTo("PreVote", i, Peers(i), term[i] + 1)
  <2>1. \A m \in sent : m.type = "PreVote" /\ m.type \in PreVoteTypes
    BY DEF MsgsTo, Msg, PreVoteTypes
  <2>2. /\ \A k \in Server \ {i} : preVoteTerm'[k] = preVoteTerm[k]
        /\ preVoteTerm'[i] = term[i] + 1
    BY Zenon, <1>2 DEF startPreVote, TypeOK
  <2>3. {i} \subseteq PreVoters(i, preVoteTerm[i])'
    BY Zenon DEF PreVoters
  <2> HIDE DEF sent
  <2>4. CASE majorityMask({i}) /\ startElection(i, Nil, {i}, sent)
    <3>1. PreVoters(i, term[i] + 1) \subseteq Server
      BY DEF PreVoters, TypeOK, Message
    <3>2. {i} \subseteq PreVoters(i, term[i] + 1)
      BY Zenon DEF PreVoters
    <3>3. majorityMask(PreVoters(i, term[i] + 1))
      BY Zenon, <2>4, <3>1, <3>2, MajorityMonotone
    <3>4. Opened(term[i] + 1)
      BY Zenon, <3>3 DEF Opened
    <3> QED BY Zenon, <1>1, <2>1, <2>2, <2>3, <2>4, <3>4, StartElectionOpen
  <2>5. CASE /\ preVoteMask' = [preVoteMask EXCEPT ![i] = {i}]
             /\ net' = net \cup sent
             /\ UNCHANGED <<term, votedFor, voteMask, faulted, hard>>
    <3>1. /\ preVoteMask'[i] = {i}
          /\ \A k \in Server \ {i} : preVoteMask'[k] = preVoteMask[k]
      BY Zenon, <2>5 DEF TypeOK
    <3>2. hard'[i].term = term'[i]
      BY Zenon, <2>5 DEF PreVoteInv
    <3> QED BY <1>1, <2>1, <2>2, <2>3, <2>5, <3>1, <3>2 DEF OpenStep, TypeOK
  <2> QED BY Zenon, <1>2, <2>4, <2>5 DEF startPreVote, sent
<1>3. ASSUME NEW i \in Server, UNCHANGED <<preVoteTerm, preVoteMask, term, hard>>,
             net \subseteq net', \A m \in net' \ net : m.term = term[i]
      PROVE  OpenStep(i)
  <2>1. preVoteMask'[i] \subseteq PreVoters(i, preVoteTerm[i])'
    BY <1>3 DEF PreVoteInv, PreVoters
  <2> QED BY Zenon, <1>1, <1>3, <2>1 DEF OpenStep, TypeOK, PreVoteInv
<1>4. ASSUME NEW i \in Server, writeFails(i)
      PROVE  OpenStep(i)
  <2>1. UNCHANGED <<preVoteTerm, preVoteMask, term, hard, net>>
    BY Zenon, <1>4 DEF writeFails, failStorage, persistHardState, PreVoteInv, TypeOK
  <2> QED BY Zenon, <1>3, <2>1
<1>5. ASSUME NEW i \in Server, NEW target \in Server, TransferLeadership(i, target)
      PROVE  OpenStep(i)
  <2> DEFINE order == Msg("TimeoutNow", i, target, term[i], FALSE)
  <2>1. order.term = term[i]
    BY Zenon DEF Msg
  <2>2. UNCHANGED <<preVoteTerm, preVoteMask, term, hard>> /\ net' = net \cup {order}
    BY Zenon, <1>5 DEF TransferLeadership, volatile
  <2> HIDE DEF order
  <2> QED BY Zenon, <1>3, <2>1, <2>2
<1>6. ASSUME NEW i \in Server, NewRecoveredNode(i)
      PROVE  OpenStep(i)
  <2>1. UNCHANGED <<term, hard, net>>
    BY Zenon, <1>6 DEF NewRecoveredNode, persistHardState, PreVoteInv, TypeOK
  <2>2. /\ preVoteMask'[i] = {}
        /\ \A k \in Server \ {i} : /\ preVoteMask'[k] = preVoteMask[k]
                                   /\ preVoteTerm'[k] = preVoteTerm[k]
    BY Zenon, <1>6 DEF NewRecoveredNode, TypeOK
  <2> QED BY Zenon, <1>1, <2>1, <2>2 DEF OpenStep, TypeOK, PreVoteInv
<1>7. ASSUME NEW i \in Server, NEW m \in net, Step(i, m)
      PROVE  OpenStep(i)
  BY Zenon, <1>1, <1>7, StepOpen
<1>8. ASSUME NEW i \in Server, NEW S \in SUBSET Peers(i), appendTo(i, S)
      PROVE  OpenStep(i)
  <2>1. \A m \in MsgsTo("Append", i, S, term[i]) : m.term = term[i]
    BY DEF MsgsTo, Msg
  <2>2. /\ UNCHANGED <<preVoteTerm, preVoteMask, term, hard>>
        /\ net' = net \cup MsgsTo("Append", i, S, term[i])
    BY Zenon, <1>8 DEF appendTo, volatile
  <2> QED BY Zenon, <1>3, <2>1, <2>2
<1>9. CASE UNCHANGED vars
  BY ZenonT(60), <1>9 DEF vars, volatile, PreVoteInv, PreVoters, Opened, Transferred
<1>10. CASE Next
  <2>1. PICK i \in Server : OpenStep(i)
    BY Zenon, <1>2, <1>4, <1>5, <1>6, <1>7, <1>8, <1>10 DEF Next
  <2> QED BY Zenon, <2>1, OpenStepKeepsInv
<1> QED BY Zenon, <1>9, <1>10

\* No term is ever made durable by any node unless a majority granted its
\* candidate a pre-vote for it or a leader handed over (startPreVote,
\* onPreVoteResponse, TimeoutNow): a minority raises no term, however often it
\* times out, crashes and restarts.
THEOREM TermsNeedMajority == Spec => []TermNeedsPreVoteMajority
<1>1. Init => TypeOK /\ PreVoteInv
  <2>1. Init => TypeOK
    BY DEF Init, TypeOK, Role, HardState, Hard
  <2>2. Init => PreVoteInv
    BY DEF Init, PreVoteInv, Hard
  <2> QED BY Zenon, <2>1, <2>2
<1>2. (TypeOK /\ PreVoteInv) /\ [Next]_vars => (TypeOK /\ PreVoteInv)'
  BY Zenon, NextType, NextOpen
<1>3. PreVoteInv => TermNeedsPreVoteMajority
  BY Zenon DEF PreVoteInv, TermNeedsPreVoteMajority
<1> QED BY <1>1, <1>2, <1>3, PTL DEF Spec

=============================================================================
