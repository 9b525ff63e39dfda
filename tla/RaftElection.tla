---------------------------- MODULE RaftElection ----------------------------
(***************************************************************************)
(* Leader election of raft/node.go, for the voter set a node is built with *)
(* (NewNodeWithStore) and before any membership change: pre-vote, durable  *)
(* votes, leadership transfer, fail-stop on a storage error, and recovery  *)
(* from the durable hard state.                                            *)
(*                                                                         *)
(* The log is abstracted away.  Whether a candidate's log is up to date    *)
(* and whether an Append matches the receiver's log are free Booleans, so  *)
(* whatever is shown here holds for every log.  MsgAppend and              *)
(* MsgInstallSnapshot act alike on the election state, and so do their     *)
(* responses; each pair is one message type.                               *)
(*                                                                         *)
(* net is the set of every message ever handed to the network.  It only    *)
(* grows: a message that is never received was lost, one received twice    *)
(* was duplicated, and the order of reception is free.                     *)
(*                                                                         *)
(* A handler runs as one step.  Its storage writes are the only points     *)
(* where it can stop half-way: failStorage makes the node fail-stop with   *)
(* whatever was durable so far and with its outbound queue dropped.        *)
(***************************************************************************)
EXTENDS Naturals, FiniteSets

CONSTANTS Server,   \* the voters, {ID} and Peers
          Nil,      \* the node ID 0: no vote, no known leader
          MaxTerm   \* bound: no election is started beyond this term

ASSUME ServerAssumption == IsFiniteSet(Server) /\ Server # {}
ASSUME NilAssumption == Nil \notin Server
ASSUME MaxTermAssumption == MaxTerm \in Nat

VARIABLES role,         \* Node.State
          term,         \* Node.Term
          votedFor,     \* Node.VotedFor
          leader,       \* Node.Leader
          preVoteTerm,  \* Node.preVoteTerm
          preVoteMask,  \* Node.preVoteMask, as a set
          voteMask,     \* Node.voteMask, as a set
          faulted,      \* Node.Faulted
          hard,         \* the last hard state the StableStore made durable
          net           \* every message ever sent

volatile == <<role, term, votedFor, leader, preVoteTerm, preVoteMask, voteMask, faulted>>
vars == <<volatile, hard, net>>

Role == {"Follower", "Candidate", "Leader"}

PreVoteTypes == {"PreVote", "PreVoteResponse"}
MessageTypes == PreVoteTypes \cup {"RequestVote", "RequestVoteResponse", "Append",
                                   "AppendResponse", "TimeoutNow"}

Message == [type : MessageTypes, from : Server, to : Server, term : Nat, reject : BOOLEAN]

Msg(type, from, to, t, reject) ==
  [type |-> type, from |-> from, to |-> to, term |-> t, reject |-> reject]

HardState == [term : Nat, vote : Server \cup {Nil}]

Hard(t, v) == [term |-> t, vote |-> v]

Peers(i) == Server \ {i}

MsgsTo(type, i, S, t) == {Msg(type, i, p, t, FALSE) : p \in S}

\* Slip: half of the voters taken for a majority.
majorityMask_half(acked) ==
  Cardinality(Server \cap acked) >= Cardinality(Server) \div 2

majorityMask(acked) ==
  Cardinality(Server \cap acked) >= Cardinality(Server) \div 2 + 1

Init ==
  /\ role = [i \in Server |-> "Follower"]
  /\ term = [i \in Server |-> 0]
  /\ votedFor = [i \in Server |-> Nil]
  /\ leader = [i \in Server |-> Nil]
  /\ preVoteTerm = [i \in Server |-> 0]
  /\ preVoteMask = [i \in Server |-> {}]
  /\ voteMask = [i \in Server |-> {}]
  /\ faulted = [i \in Server |-> FALSE]
  /\ hard = [i \in Server |-> Hard(0, Nil)]
  /\ net = {}

-----------------------------------------------------------------------------
(***************************************************************************)
(* Pieces the handlers share.                                              *)
(***************************************************************************)

Become(i, r, l) ==
  /\ role' = [role EXCEPT ![i] = r]
  /\ leader' = [leader EXCEPT ![i] = l]

\* The volatile and the durable term and vote are assigned together: every
\* assignment of Term or VotedFor follows a successful persistHardState.
persistHardState(i, h) ==
  /\ hard' = [hard EXCEPT ![i] = h]
  /\ term' = [term EXCEPT ![i] = h.term]
  /\ votedFor' = [votedFor EXCEPT ![i] = h.vote]

\* A write failed after h had become durable: fail-stop, nothing is sent.
failStorage(i, h) ==
  /\ faulted' = [faulted EXCEPT ![i] = TRUE]
  /\ Become(i, "Follower", Nil)
  /\ persistHardState(i, h)
  /\ UNCHANGED net

\* Slip: a message of the current term clears the vote as well.
Newer_orEqual(i, m) == m.type \notin PreVoteTypes /\ m.term >= term[i]

\* The prologue of Step: a higher term on anything but a pre-vote message is
\* persisted with an empty vote and makes the node a follower of nobody.
Newer(i, m) == m.type \notin PreVoteTypes /\ m.term > term[i]
\* Slip: term and vote handed over in the wrong order.
HardAfter_swapped(i, m) == IF Newer(i, m) THEN Hard(Nil, m.term) ELSE hard[i]
HardAfter(i, m) == IF Newer(i, m) THEN Hard(m.term, Nil) ELSE hard[i]
TermAfter(i, m) == IF Newer(i, m) THEN m.term ELSE term[i]
VoteAfter(i, m) == IF Newer(i, m) THEN Nil ELSE votedFor[i]
RoleAfter(i, m) == IF Newer(i, m) THEN "Follower" ELSE role[i]
LeaderAfter(i, m) == IF Newer(i, m) THEN Nil ELSE leader[i]

\* becomeLeader as the end of a step that made h durable: the no-op append
\* may fail, otherwise every peer is sent an Append.
becomeLeader(i, h, sent) ==
  \/ failStorage(i, h)
  \/ /\ Become(i, "Leader", i)
     /\ persistHardState(i, h)
     /\ net' = net \cup sent \cup MsgsTo("Append", i, Peers(i), h.term)
     /\ UNCHANGED faulted

\* startElection, entered with Leader = l, preVoteMask = mask and sent in the
\* outbound queue.  Leader is left as it was: only startPreVote clears it.
startElection(i, l, mask, sent) ==
  LET h == Hard(term[i] + 1, i)
      requests == sent \cup MsgsTo("RequestVote", i, Peers(i), h.term)
  IN /\ term[i] < MaxTerm
     /\ \/ /\ failStorage(i, hard[i])
           /\ preVoteMask' = [preVoteMask EXCEPT ![i] = mask]
           /\ UNCHANGED voteMask
        \/ /\ voteMask' = [voteMask EXCEPT ![i] = {i}]
           /\ preVoteMask' = [preVoteMask EXCEPT ![i] = {}]
           /\ IF majorityMask({i})
                THEN becomeLeader(i, h, requests)
                ELSE /\ Become(i, "Candidate", l)
                     /\ persistHardState(i, h)
                     /\ net' = net \cup requests
                     /\ UNCHANGED faulted

-----------------------------------------------------------------------------
(***************************************************************************)
(* Timers, clients and restarts.                                           *)
(***************************************************************************)

\* Slip: no pre-vote round before the election.
startPreVote_skipped(i) ==
  /\ ~faulted[i]
  /\ role[i] # "Leader"
  /\ preVoteTerm' = [preVoteTerm EXCEPT ![i] = term[i] + 1]
  /\ startElection(i, Nil, {i}, {})

\* Tick of a node that is not the leader, when its election timeout elapses.
startPreVote(i) ==
  LET t == term[i] + 1
      sent == MsgsTo("PreVote", i, Peers(i), t)
  IN /\ ~faulted[i]
     /\ role[i] # "Leader"
     /\ term[i] < MaxTerm
     /\ preVoteTerm' = [preVoteTerm EXCEPT ![i] = t]
     /\ IF majorityMask({i})
          THEN startElection(i, Nil, {i}, sent)
          ELSE /\ preVoteMask' = [preVoteMask EXCEPT ![i] = {i}]
               /\ Become(i, role[i], Nil)
               /\ net' = net \cup sent
               /\ UNCHANGED <<term, votedFor, voteMask, faulted, hard>>

\* Tick, a proposal, a read or an AppendResponse at the leader: some of its peers
\* are sent another Append or a snapshot.
appendTo(i, S) ==
  /\ ~faulted[i]
  /\ role[i] = "Leader"
  /\ net' = net \cup MsgsTo("Append", i, S, term[i])
  /\ UNCHANGED <<volatile, hard>>

\* A write outside of elections fails: of a proposal, of a commit index or of a
\* snapshot.
writeFails(i) ==
  /\ ~faulted[i]
  /\ failStorage(i, hard[i])
  /\ UNCHANGED <<preVoteTerm, preVoteMask, voteMask>>

TransferLeadership(i, target) ==
  /\ ~faulted[i]
  /\ role[i] = "Leader"
  /\ target \in Peers(i)
  /\ net' = net \cup {Msg("TimeoutNow", i, target, term[i], FALSE)}
  /\ UNCHANGED <<volatile, hard>>

\* A crash at any moment and NewRecoveredNode: only the hard state survives.  A log
\* that is refused leaves a node that does nothing.
NewRecoveredNode(i) ==
  /\ Become(i, "Follower", Nil)
  /\ persistHardState(i, hard[i])
  /\ preVoteTerm' = [preVoteTerm EXCEPT ![i] = 0]
  /\ preVoteMask' = [preVoteMask EXCEPT ![i] = {}]
  /\ voteMask' = [voteMask EXCEPT ![i] = {}]
  /\ \E refused \in BOOLEAN : faulted' = [faulted EXCEPT ![i] = refused]
  /\ UNCHANGED net

-----------------------------------------------------------------------------
(***************************************************************************)
(* Step: one action per message type.                                      *)
(***************************************************************************)

\* leaderActive is "Leader is known": between two calls elapsed is below the
\* election timeout, since Tick resets it on reaching the timeout.
onPreVote(i, m, upToDate) ==
  LET grant == m.term >= term[i] + 1 /\ upToDate /\ leader[i] = Nil
  IN /\ m.type = "PreVote"
     /\ grant
     /\ net' = net \cup {Msg("PreVoteResponse", i, m.from, m.term, FALSE)}
     /\ UNCHANGED <<volatile, hard>>

onPreVoteResponse(i, m) ==
  LET mask == preVoteMask[i] \cup {m.from}
  IN /\ m.type = "PreVoteResponse"
     /\ role[i] # "Leader"
     /\ m.term = term[i] + 1
     /\ m.term = preVoteTerm[i]
     /\ ~m.reject
     /\ UNCHANGED preVoteTerm
     /\ IF majorityMask(mask)
          THEN startElection(i, leader[i], mask, {})
          ELSE /\ preVoteMask' = [preVoteMask EXCEPT ![i] = mask]
               /\ UNCHANGED <<role, term, votedFor, leader, voteMask, faulted, hard, net>>

\* Slip: a vote already given in this term does not stop another.
onVote_again(i, m, upToDate) ==
  LET grant == m.term = TermAfter(i, m) /\ upToDate
  IN /\ m.type = "RequestVote"
     /\ Become(i, RoleAfter(i, m), LeaderAfter(i, m))
     /\ persistHardState(i, IF grant THEN Hard(m.term, m.from) ELSE HardAfter(i, m))
     /\ net' = net \cup {Msg("RequestVoteResponse", i, m.from, TermAfter(i, m), ~grant)}
     /\ UNCHANGED <<preVoteTerm, preVoteMask, voteMask, faulted>>

onVote(i, m, upToDate) ==
  LET v == VoteAfter(i, m)
      grant == m.term = TermAfter(i, m) /\ v \in {Nil, m.from} /\ upToDate
  IN /\ m.type = "RequestVote"
     /\ UNCHANGED <<preVoteTerm, preVoteMask, voteMask>>
     /\ \/ Newer(i, m) /\ failStorage(i, hard[i])
        \/ grant /\ failStorage(i, HardAfter(i, m))
        \/ /\ Become(i, RoleAfter(i, m), LeaderAfter(i, m))
           /\ persistHardState(i, IF grant THEN Hard(m.term, m.from) ELSE HardAfter(i, m))
           /\ net' = net \cup {Msg("RequestVoteResponse", i, m.from, TermAfter(i, m), ~grant)}
           /\ UNCHANGED faulted

onVoteResponse(i, m) ==
  LET mask == voteMask[i] \cup {m.from}
  IN /\ m.type = "RequestVoteResponse"
     /\ role[i] = "Candidate"
     /\ m.term = term[i]
     /\ ~m.reject
     /\ voteMask' = [voteMask EXCEPT ![i] = mask]
     /\ UNCHANGED <<preVoteTerm, preVoteMask>>
     /\ IF majorityMask(mask)
          THEN becomeLeader(i, hard[i], {})
          ELSE UNCHANGED <<role, term, votedFor, leader, faulted, hard, net>>

\* onAppend and onInstallSnapshot.  Only an accepted message makes the sender
\* the leader; a rejected one leaves role and Leader alone.
onAppend(i, m, matches) ==
  LET accept == m.term >= TermAfter(i, m) /\ matches
  IN /\ m.type = "Append"
     /\ UNCHANGED <<preVoteTerm, preVoteMask, voteMask>>
     /\ \/ Newer(i, m) /\ failStorage(i, hard[i])
        \/ accept /\ failStorage(i, HardAfter(i, m))
        \/ /\ IF accept THEN Become(i, "Follower", m.from)
                        ELSE Become(i, RoleAfter(i, m), LeaderAfter(i, m))
           /\ persistHardState(i, HardAfter(i, m))
           /\ net' = net \cup {Msg("AppendResponse", i, m.from, TermAfter(i, m), FALSE)}
           /\ UNCHANGED faulted

\* A response or a TimeoutNow of a higher term does no more than the prologue.
onNewerTerm(i, m) ==
  /\ m.type \in {"RequestVoteResponse", "AppendResponse", "TimeoutNow"}
  /\ Newer(i, m)
  /\ UNCHANGED <<preVoteTerm, preVoteMask, voteMask>>
  /\ \/ failStorage(i, hard[i])
     \/ /\ Become(i, "Follower", Nil)
        /\ persistHardState(i, HardAfter(i, m))
        /\ UNCHANGED <<faulted, net>>

onTimeoutNow(i, m) ==
  /\ m.type = "TimeoutNow"
  /\ role[i] = "Follower"
  /\ m.term = term[i]
  /\ m.from = leader[i]
  /\ UNCHANGED preVoteTerm
  /\ startElection(i, leader[i], preVoteMask[i], {})

Step(i, m) ==
  /\ ~faulted[i]
  /\ m.to = i
  /\ \/ \E b \in BOOLEAN : onPreVote(i, m, b) \/ onVote(i, m, b) \/ onAppend(i, m, b)
     \/ onPreVoteResponse(i, m)
     \/ onVoteResponse(i, m)
     \/ onNewerTerm(i, m)
     \/ onTimeoutNow(i, m)

Next ==
  \E i \in Server :
    \/ startPreVote(i)
    \/ \E S \in SUBSET Peers(i) : appendTo(i, S)
    \/ writeFails(i)
    \/ \E target \in Server : TransferLeadership(i, target)
    \/ NewRecoveredNode(i)
    \/ \E m \in net : Step(i, m)

Spec == Init /\ [][Next]_vars

-----------------------------------------------------------------------------
(***************************************************************************)
(* Properties.                                                             *)
(***************************************************************************)

\* The fields of every node, its durable hard state and the network hold
\* values of their types.
TypeOK ==
  /\ role \in [Server -> Role]
  /\ term \in [Server -> Nat]
  /\ votedFor \in [Server -> Server \cup {Nil}]
  /\ leader \in [Server -> Server \cup {Nil}]
  /\ preVoteTerm \in [Server -> Nat]
  /\ preVoteMask \in [Server -> SUBSET Server]
  /\ voteMask \in [Server -> SUBSET Server]
  /\ faulted \in [Server -> BOOLEAN]
  /\ hard \in [Server -> HardState]
  /\ net \subseteq Message

\* i is the leader of term t, or was and sent an Append as its leader.
Leads(i, t) ==
  \/ role[i] = "Leader" /\ term[i] = t
  \/ \E m \in net : m.type = "Append" /\ m.from = i /\ m.term = t

\* No two nodes ever act as leader of the same term, at the same time or one
\* after the other: whatever is lost, duplicated, reordered, crashed or fails
\* between a vote's write and its answer (onVote, startElection, becomeLeader).
ElectionSafety ==
  \A t \in 0 .. MaxTerm : \A i \in Server :
    Leads(i, t) => \A j \in Server : Leads(j, t) => i = j

\* The votes on the network: a grant, or the request that follows a vote for
\* oneself.
IsVote(m) == m.type = "RequestVote" \/ (m.type = "RequestVoteResponse" /\ ~m.reject)
VotedFor(m) == IF m.type = "RequestVote" THEN m.from ELSE m.to

\* A node votes for one candidate per term, its own candidacy included, also
\* across a crash or a failed write (onVote and startElection persist first).
VoteOnce ==
  \A m, o \in net :
    IsVote(m) /\ IsVote(o) /\ m.from = o.from /\ m.term = o.term => VotedFor(m) = VotedFor(o)

\* The nodes that granted i a pre-vote for term t, and i itself.
PreVoters(i, t) ==
  {i} \cup {m.from : m \in {g \in net : /\ g.type = "PreVoteResponse"
                                        /\ g.to = i /\ g.term = t /\ ~g.reject}}

\* i was asked by the leader of the term before t to start an election at once.
Transferred(i, t) ==
  \E m \in net : m.type = "TimeoutNow" /\ m.to = i /\ m.term + 1 = t

\* Some candidate had a majority's pre-votes for term t, or was handed it.
Opened(t) ==
  \E c \in Server : majorityMask(PreVoters(c, t)) \/ Transferred(c, t)

\* Every term any node has made durable was opened by a candidate that a
\* majority had granted a pre-vote for it, or that a leader handed over to: a
\* minority can time out as often as it likes and raises no term
\* (startPreVote, onPreVoteResponse, the TimeoutNow case of Step).
TermNeedsPreVoteMajority ==
  \A i \in Server :
    hard[i].term > 0 => Opened(hard[i].term)

\* What is durable never regresses: a term never falls, and a vote cast in a
\* term is never withdrawn or changed in it.  raftwal.SaveHardState refuses
\* such a write, which would fail-stop a healthy node.
DurableVoteKept ==
  \A i \in Server :
    /\ hard'[i].term >= hard[i].term
    /\ hard'[i].term = hard[i].term /\ hard[i].vote # Nil => hard'[i].vote = hard[i].vote

HardStateNeverRegresses == [][DurableVoteKept]_vars

-----------------------------------------------------------------------------
(***************************************************************************)
(* The inductive invariants behind ElectionSafety and                      *)
(* TermNeedsPreVoteMajority.                                               *)
(***************************************************************************)

\* j's vote for i in term t is on the network.
HasVote(j, i, t) ==
  \E m \in net : IsVote(m) /\ m.from = j /\ m.term = t /\ VotedFor(m) = i

\* A quorum's votes for i in term t are on the network.
Elected(i, t) ==
  \E Q \in SUBSET Server : majorityMask(Q) /\ \A j \in Q : HasVote(j, i, t)

\* Term and VotedFor are what is durable.
HardMatches ==
  \A i \in Server : hard[i].term = term[i] /\ hard[i].vote = votedFor[i]

\* A vote on the network is still its voter's durable vote, or belongs to a
\* term the voter has durably left.
VotesDurable ==
  \A m \in net :
    IsVote(m) => \/ hard[m.from].term > m.term
                 \/ hard[m.from].term = m.term /\ hard[m.from].vote = VotedFor(m)

\* The votes a candidate or a leader with peers has counted were cast.
MasksBacked ==
  \A i \in Server :
    role[i] # "Follower" /\ Peers(i) # {} => \A j \in voteMask[i] : HasVote(j, i, term[i])

\* A leader has counted a majority, and so had every sender of an Append.
LeadersElected ==
  /\ \A i \in Server : role[i] = "Leader" => majorityMask(voteMask[i])
  /\ \A m \in net : m.type = "Append" => Elected(m.from, m.term)

\* The inductive invariant of elections: votes are unique and durable, and no
\* node counts a vote nobody cast or leads without a majority.
ElectionInv ==
  HardMatches /\ VotesDurable /\ VoteOnce /\ MasksBacked /\ LeadersElected

\* The inductive invariant of pre-votes: a pre-vote a node counts was granted,
\* and every term durable anywhere or carried by a message that can raise a
\* term was opened.
PreVoteInv ==
  /\ \A i \in Server : preVoteMask[i] \subseteq PreVoters(i, preVoteTerm[i])
  /\ \A i \in Server : hard[i].term = term[i] /\ (term[i] > 0 => Opened(term[i]))
  /\ \A m \in net : m.type \notin PreVoteTypes /\ m.term > 0 => Opened(m.term)

=============================================================================
