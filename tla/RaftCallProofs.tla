-------------------------- MODULE RaftCallProofs ---------------------------
(***************************************************************************)
(* Calls into a node of a cluster whose membership is never changed, as    *)
(* steps of RaftElection: what a call keeps of the invariant, elections,   *)
(* and the messages that votes are asked for and given with.               *)
(***************************************************************************)
EXTENDS RaftCluster, RaftNodeProofs

\* The entries of a cluster whose membership is never changed.
Entries ==
  [term : Nat, kind : {"Normal", "Noop"}, val : {Nil} \cup UNION {s.values : s \in Scenario},
   old : {{}}, new : {{}}]

\* Node i between two calls.
Resting(n, i) ==
  /\ PlainNode(n, i, Entries) /\ Saved(n) /\ n.out = {}
  /\ n.faulted \in BOOLEAN /\ (n.faulted => n.role = "Follower")
  /\ n.preVoteTerm \in 0 .. MaxTerm

\* A message of such a cluster.
Travelling(m) == PlainMessage(m, Entries) /\ (m.type = "TimeoutNow" => m.term < MaxTerm)

\* The inductive invariant: term and vote in memory are those on disk, no membership
\* change is anywhere, and no election goes beyond MaxTerm.
ClusterInv ==
  /\ scene \in Scenario
  /\ DOMAIN node = Server
  /\ \A i \in Server : Resting(node[i], i)
  /\ \A m \in net : Travelling(m)

-----------------------------------------------------------------------------
(***************************************************************************)
(* A call, and the election state before and after it.                     *)
(***************************************************************************)

\* Entries without membership changes are plain.
LEMMA EntriesPlain == PlainEntries(Entries)
<1>1. ASSUME NEW e \in Entries
      PROVE  e.kind \notin {"Joint", "Final"} /\ e.old = {} /\ e.new = {}
  BY DEF Entries
<1>2. ASSUME NEW t \in Nat
      PROVE  Noop(t) \in Entries
  BY Zenon DEF Entries, Noop, NewEntry
<1> QED BY Zenon, <1>1, <1>2 DEF PlainEntries

\* n is node i at the start of a call.
Begins(n, i) ==
  /\ PlainNode(n, i, Entries) /\ Saved(n) /\ n.out = {}
  /\ n.preVoteTerm \in 0 .. MaxTerm
  /\ roles[i] = n.role /\ terms[i] = n.term /\ votes[i] = n.vote /\ leaders[i] = n.leader
  /\ preVoteTerms[i] = n.preVoteTerm /\ preVoteMasks[i] = n.preVoteMask
  /\ voteMasks[i] = n.voteMask /\ faults[i] = n.faulted /\ hards[i] = HardOf(n.disk)

\* The election state after a call that leaves o at node i.
Ends(o, i) ==
  /\ roles' = [roles EXCEPT ![i] = o.role] /\ terms' = [terms EXCEPT ![i] = o.term]
  /\ votes' = [votes EXCEPT ![i] = o.vote] /\ leaders' = [leaders EXCEPT ![i] = o.leader]
  /\ preVoteTerms' = [preVoteTerms EXCEPT ![i] = o.preVoteTerm]
  /\ preVoteMasks' = [preVoteMasks EXCEPT ![i] = o.preVoteMask]
  /\ voteMasks' = [voteMasks EXCEPT ![i] = o.voteMask]
  /\ faults' = [faults EXCEPT ![i] = o.faulted]
  /\ hards' = [hards EXCEPT ![i] = HardOf(o.disk)]
  /\ seen' = seen \cup SeenOf(o.out)

\* What a call begins with (With).
LEMMA CallBegins ==
  ASSUME ClusterInv, NEW i \in Server, NEW n, NEW w,
         n = node[i] \/ n = [node[i] EXCEPT !.io = w]
  PROVE  Begins(n, i) /\ n.faulted = node[i].faulted
<1>1. PICK c : c = node[i]
  BY Zenon
<1>2. PlainNode(c, i, Entries) /\ Saved(c) /\ c.out = {} /\ c.preVoteTerm \in 0 .. MaxTerm
  BY Zenon, <1>1 DEF ClusterInv, Resting
<1>3. DOMAIN c = Fields
  BY Zenon, <1>2 DEF PlainNode
<1>4. /\ roles[i] = c.role /\ terms[i] = c.term /\ votes[i] = c.vote /\ leaders[i] = c.leader
      /\ preVoteTerms[i] = c.preVoteTerm /\ preVoteMasks[i] = c.preVoteMask
      /\ voteMasks[i] = c.voteMask /\ faults[i] = c.faulted /\ hards[i] = HardOf(c.disk)
  BY Zenon, <1>1 DEF roles, terms, votes, leaders, preVoteTerms, preVoteMasks, voteMasks,
                     faults, hards
<1>5. CASE n = c
  BY Zenon, <1>1, <1>2, <1>4, <1>5 DEF Begins
<1>6. CASE n = [c EXCEPT !.io = w]
  <2>1. /\ n.role = c.role /\ n.term = c.term /\ n.vote = c.vote /\ n.leader = c.leader
        /\ n.preVoteTerm = c.preVoteTerm /\ n.preVoteMask = c.preVoteMask
        /\ n.voteMask = c.voteMask /\ n.faulted = c.faulted /\ n.disk = c.disk /\ n.out = c.out
    BY <1>3, <1>6 DEF Fields
  <2>2. PlainNode(n, i, Entries)
    BY <1>2, <1>3, <1>6 DEF PlainNode, Fields
  <2>3. Saved(n)
    BY Zenon, <1>2, <2>1 DEF Saved
  <2> QED BY Zenon, <1>1, <1>2, <1>4, <2>1, <2>2, <2>3 DEF Begins
<1> QED BY Zenon, <1>1, <1>5, <1>6

\* What a call ends with (server.loop drains the outbound queue).
LEMMA CallEnds ==
  ASSUME ClusterInv, NEW i \in Server, NEW o, PlainNode(o, i, Entries), Run(i, o)
  PROVE  Ends(o, i)
<1>1. PICK p : p = [o EXCEPT !.out = {}, !.io = 0]
  BY Zenon
<1>2. DOMAIN o = Fields /\ DOMAIN node = Server
  BY Zenon DEF PlainNode, ClusterInv
<1>3. /\ p.role = o.role /\ p.term = o.term /\ p.vote = o.vote /\ p.leader = o.leader
      /\ p.preVoteTerm = o.preVoteTerm /\ p.preVoteMask = o.preVoteMask
      /\ p.voteMask = o.voteMask /\ p.faulted = o.faulted /\ p.disk = o.disk
  BY <1>1, <1>2 DEF Fields
<1>4. node' = [node EXCEPT ![i] = p] /\ net' = net \cup o.out
  BY Zenon, <1>1 DEF Run
<1>5. node'[i] = p /\ \A j \in Server : j # i => node'[j] = node[j]
  BY Zenon, <1>2, <1>4
<1>6. /\ roles' = [roles EXCEPT ![i] = o.role] /\ terms' = [terms EXCEPT ![i] = o.term]
      /\ votes' = [votes EXCEPT ![i] = o.vote] /\ leaders' = [leaders EXCEPT ![i] = o.leader]
  BY Zenon, <1>3, <1>5 DEF roles, terms, votes, leaders
<1>7. /\ preVoteTerms' = [preVoteTerms EXCEPT ![i] = o.preVoteTerm]
      /\ preVoteMasks' = [preVoteMasks EXCEPT ![i] = o.preVoteMask]
      /\ voteMasks' = [voteMasks EXCEPT ![i] = o.voteMask]
  BY Zenon, <1>3, <1>5 DEF preVoteTerms, preVoteMasks, voteMasks
<1>8. /\ faults' = [faults EXCEPT ![i] = o.faulted]
      /\ hards' = [hards EXCEPT ![i] = HardOf(o.disk)]
  BY Zenon, <1>3, <1>5 DEF faults, hards
<1>9. seen' = seen \cup SeenOf(o.out)
  BY Zenon, <1>4 DEF seen, SeenOf
<1> QED BY Zenon, <1>6, <1>7, <1>8, <1>9 DEF Ends

\* What a call leaves as it was.
LEMMA Unmoved ==
  ASSUME NEW i \in Server, NEW n, Begins(n, i), NEW o, Ends(o, i)
  PROVE  /\ o.role = n.role => roles' = roles
         /\ o.term = n.term => terms' = terms
         /\ o.vote = n.vote => votes' = votes
         /\ o.leader = n.leader => leaders' = leaders
         /\ o.preVoteTerm = n.preVoteTerm => preVoteTerms' = preVoteTerms
         /\ o.preVoteMask = n.preVoteMask => preVoteMasks' = preVoteMasks
         /\ o.voteMask = n.voteMask => voteMasks' = voteMasks
         /\ o.faulted = n.faulted => faults' = faults
         /\ o.disk.term = n.disk.term /\ o.disk.vote = n.disk.vote => hards' = hards
<1>1. /\ [roles EXCEPT ![i] = roles[i]] = roles
      /\ [terms EXCEPT ![i] = terms[i]] = terms
      /\ [votes EXCEPT ![i] = votes[i]] = votes
      /\ [leaders EXCEPT ![i] = leaders[i]] = leaders
      /\ [preVoteTerms EXCEPT ![i] = preVoteTerms[i]] = preVoteTerms
      /\ [preVoteMasks EXCEPT ![i] = preVoteMasks[i]] = preVoteMasks
      /\ [voteMasks EXCEPT ![i] = voteMasks[i]] = voteMasks
      /\ [faults EXCEPT ![i] = faults[i]] = faults
      /\ [hards EXCEPT ![i] = hards[i]] = hards
  BY Zenon DEF roles, terms, votes, leaders, preVoteTerms, preVoteMasks, voteMasks,
               faults, hards
<1>2. o.disk.term = n.disk.term /\ o.disk.vote = n.disk.vote => HardOf(o.disk) = HardOf(n.disk)
  BY Zenon DEF HardOf
<1> QED BY Zenon, <1>1, <1>2 DEF Begins, Ends

\* A hard state as elections see it.
LEMMA HardFields ==
  ASSUME NEW d
  PROVE  /\ HardOf(d) = Election!Hard(d.term, d.vote)
         /\ HardOf(d).term = d.term /\ HardOf(d).vote = d.vote
BY DEF HardOf, Election!Hard

\* Elections see that nothing was sent, and what was sent in two parts.
LEMMA SeenParts ==
  /\ SeenOf({}) = {}
  /\ \A M, L : SeenOf(M \cup L) = SeenOf(M) \cup SeenOf(L)
<1>1. SeenOf({}) = {}
  BY Zenon DEF SeenOf
<1>2. ASSUME NEW M, NEW L
      PROVE  SeenOf(M \cup L) = SeenOf(M) \cup SeenOf(L)
  BY Zenon DEF SeenOf
<1> QED BY Zenon, <1>1, <1>2

\* Elections see one message for one, but for a refused pre-vote.
LEMMA SeenOne ==
  ASSUME NEW r
  PROVE  /\ r.type # "PreVoteResponse" \/ ~r.reject => SeenOf({r}) = {Seen(r)}
         /\ r.type = "PreVoteResponse" /\ r.reject => SeenOf({r}) = {}
BY Zenon DEF SeenOf

\* What elections see of a message.
LEMMA SeenFields ==
  ASSUME NEW m, NEW type, NEW reject \in BOOLEAN,
         type = CASE m.type = "InstallSnapshot" -> "Append"
                  [] m.type = "InstallSnapshotResponse" -> "AppendResponse"
                  [] OTHER -> m.type,
         reject <=> (m.type = "RequestVoteResponse" /\ m.reject)
  PROVE  Seen(m) = Election!Msg(type, m.from, m.to, m.term, reject)
<1>1. reject = (m.type = "RequestVoteResponse" /\ m.reject)
  BY Zenon
<1> QED BY Zenon, <1>1 DEF Seen, Election!Msg

\* The types of mail, and the type elections see.
SeenAs(types, type) ==
  \/ types = Replication /\ type = "Append"
  \/ types = {"PreVote"} /\ type = "PreVote"
  \/ types = {"RequestVote"} /\ type = "RequestVote"

\* The three kinds of mail to all of S, as elections see it.
LEMMA SeenMail ==
  ASSUME NEW M, NEW types, NEW i, NEW t, NEW S, NEW E, Mail(M, types, i, t, S, E), NEW type,
         SeenAs(types, type)
  PROVE  SeenOf(M) = Election!MsgsTo(type, i, S, t)
<1>1. ASSUME NEW m \in M
      PROVE  /\ m.type # "PreVoteResponse"
             /\ Seen(m) = Election!Msg(type, i, m.to, t, FALSE) /\ m.to \in S
  <2>1. m.type \in types /\ m.from = i /\ m.to \in S /\ m.term = t
    BY Zenon DEF Mail
  <2>2. m.type \in {"Append", "InstallSnapshot", "PreVote", "RequestVote"}
    BY Zenon, <2>1 DEF SeenAs, Replication
  <2>3. m.type # "PreVoteResponse" /\ m.type # "InstallSnapshotResponse"
        /\ m.type # "RequestVoteResponse"
    BY <2>2
  <2>4. type = CASE m.type = "InstallSnapshot" -> "Append"
                 [] m.type = "InstallSnapshotResponse" -> "AppendResponse"
                 [] OTHER -> m.type
    BY <2>1, <2>3 DEF SeenAs, Replication
  <2>5. PICK reject \in BOOLEAN : ~reject /\ reject = FALSE
    BY Zenon
  <2>6. Seen(m) = Election!Msg(type, m.from, m.to, m.term, reject)
    BY Zenon, <2>3, <2>4, <2>5, SeenFields
  <2> QED BY Zenon, <2>1, <2>3, <2>5, <2>6
<1>2. \A p \in S : \E m \in M : m.to = p
  BY Zenon DEF Mail
<1>3. SeenOf(M) = {Seen(m) : m \in M}
  BY Zenon, <1>1 DEF SeenOf
<1>4. {Seen(m) : m \in M} = {Election!Msg(type, i, p, t, FALSE) : p \in S}
  <2>1. ASSUME NEW m \in M
        PROVE  Seen(m) \in {Election!Msg(type, i, p, t, FALSE) : p \in S}
    BY Zenon, <1>1
  <2>2. ASSUME NEW p \in S
        PROVE  Election!Msg(type, i, p, t, FALSE) \in {Seen(m) : m \in M}
    <3>1. PICK m \in M : m.to = p
      BY Zenon, <1>2
    <3>2. Seen(m) = Election!Msg(type, i, p, t, FALSE)
      BY Zenon, <1>1, <3>1
    <3> QED BY Zenon, <3>2
  <2> QED BY Zenon, <2>1, <2>2
<1> QED BY Zenon, <1>3, <1>4 DEF Election!MsgsTo

-----------------------------------------------------------------------------
(***************************************************************************)
(* Steps that end an election, or have nothing to do with one.             *)
(***************************************************************************)

\* A call that leaves the election state alone.
LEMMA QuietStep ==
  ASSUME NEW i \in Server, NEW n, Begins(n, i), NEW o, Ends(o, i), Quiet(n, o)
  PROVE  UNCHANGED Election!vars
<1>1. /\ roles' = roles /\ terms' = terms /\ votes' = votes /\ leaders' = leaders
      /\ preVoteTerms' = preVoteTerms /\ preVoteMasks' = preVoteMasks
      /\ voteMasks' = voteMasks /\ faults' = faults /\ hards' = hards
  BY ZenonT(60), Unmoved DEF Quiet, SameState, SameMemory
<1>2. seen' = seen
  BY Zenon, SeenParts DEF Ends, Begins, Quiet
<1> QED BY Zenon, <1>1, <1>2 DEF Election!vars, Election!volatile

\* A leader that sends Appends or snapshots.
LEMMA SentStep ==
  ASSUME NEW i \in Server, NEW n, Begins(n, i), n.faulted = FALSE, n.role = "Leader",
         NEW o, Ends(o, i), Sent(n, o, i, Entries)
  PROVE  Election!Next
<1>1. PICK S, M : /\ S \in SUBSET (Server \ {i}) /\ SameState(n, o)
                  /\ Mail(M, Replication, i, n.term, S, Entries) /\ o.out = n.out \cup M
  BY Zenon DEF Sent, Replicated
<1>2. /\ roles' = roles /\ terms' = terms /\ votes' = votes /\ leaders' = leaders
      /\ preVoteTerms' = preVoteTerms /\ preVoteMasks' = preVoteMasks
      /\ voteMasks' = voteMasks /\ faults' = faults /\ hards' = hards
  BY Zenon, <1>1, Unmoved DEF SameState, SameMemory
<1>3. SeenOf(M) = Election!MsgsTo("Append", i, S, n.term)
  BY Zenon, <1>1, SeenMail DEF SeenAs
<1>4. o.out = M
  BY Zenon, <1>1 DEF Begins
<1>5. seen' = seen \cup Election!MsgsTo("Append", i, S, terms[i])
  BY Zenon, <1>3, <1>4 DEF Begins, Ends
<1>6. ~faults[i] /\ roles[i] = "Leader"
  BY Zenon DEF Begins
<1>7. Election!appendTo(i, S)
  BY Zenon, <1>2, <1>5, <1>6 DEF Election!appendTo, Election!volatile
<1>8. S \in SUBSET Election!Peers(i)
  BY Zenon, <1>1 DEF Election!Peers
<1> QED BY Zenon, <1>7, <1>8 DEF Election!Next

\* Term and vote in memory and on disk change together (persistHardState).
LEMMA Persisted ==
  ASSUME NEW i \in Server, NEW o, Ends(o, i), Saved(o), NEW h, h = HardOf(o.disk)
  PROVE  Election!persistHardState(i, h)
<1>1. h.term = o.term /\ h.vote = o.vote
  BY Zenon, HardFields DEF Saved
<1> QED BY Zenon, <1>1 DEF Ends, Election!persistHardState

\* p wrote h and then failed (failStorage).
LEMMA Stopped ==
  ASSUME NEW i \in Server, NEW o, Ends(o, i), NEW p, Failed(p, o), Saved(p),
         NEW h, h = HardOf(p.disk)
  PROVE  Election!failStorage(i, h)
<1>1. Saved(o)
  BY Zenon DEF Saved, Failed
<1>2. h = HardOf(o.disk)
  BY Zenon DEF HardOf, Failed
<1>3. Election!persistHardState(i, h)
  BY Zenon, <1>1, <1>2, Persisted
<1>4. seen' = seen
  BY Zenon, SeenParts DEF Ends, Failed
<1>5. Election!Become(i, "Follower", Nil) /\ faults' = [faults EXCEPT ![i] = TRUE]
  BY Zenon DEF Ends, Failed, Election!Become
<1> QED BY Zenon, <1>3, <1>4, <1>5 DEF Election!failStorage

\* A call whose write fails.
LEMMA FailedStep ==
  ASSUME NEW i \in Server, NEW n, Begins(n, i), n.faulted = FALSE,
         NEW o, Ends(o, i), Failed(n, o)
  PROVE  Election!Next
<1>1. /\ preVoteTerms' = preVoteTerms /\ preVoteMasks' = preVoteMasks /\ voteMasks' = voteMasks
  BY Zenon, Unmoved DEF Failed
<1>2. Election!failStorage(i, hards[i])
  BY Zenon, Stopped DEF Begins
<1>3. ~faults[i]
  BY Zenon DEF Begins
<1>4. Election!writeFails(i)
  BY Zenon, <1>1, <1>2, <1>3 DEF Election!writeFails
<1> QED BY Zenon, <1>4 DEF Election!Next

\* A majority of all servers.
LEMMA Majority ==
  ASSUME NEW acked
  PROVE  majorityMask(Server, acked) <=> Election!majorityMask(acked)
<1>1. Server # {}
  BY Zenon, ClusterAssumption
<1> QED BY Zenon, <1>1 DEF majorityMask, Election!majorityMask, Cardinality, Election!Cardinality

\* p, which wrote h, becomes the leader or fails (becomeLeader).
LEMMA LeaderStep ==
  ASSUME NEW i \in Server, NEW n, Begins(n, i), n.faulted = FALSE,
         NEW o, Ends(o, i), NEW p, LedOrFailed(p, o, i, Entries), Saved(p),
         NEW h, h = HardOf(p.disk), NEW sent, sent = SeenOf(p.out)
  PROVE  Election!becomeLeader(i, h, sent)
<1>1. CASE Failed(p, o)
  BY Zenon, <1>1, Stopped DEF Election!becomeLeader
<1>2. CASE Led(p, o, i, Entries)
  <2>1. PICK M : Mail(M, Replication, i, p.term, Server \ {i}, Entries) /\ o.out = p.out \cup M
    BY Zenon, <1>2 DEF Led
  <2>2. Saved(o)
    BY Zenon, <1>2 DEF Led, Saved
  <2>3. h = HardOf(o.disk)
    BY Zenon, <1>2 DEF HardOf, Led
  <2>4. Election!persistHardState(i, h)
    BY Zenon, <2>2, <2>3, Persisted
  <2>5. Election!Become(i, "Leader", i)
    BY Zenon, <1>2 DEF Led, Ends, Election!Become
  <2>6. faults' = faults
    BY Zenon, <1>2, Unmoved DEF Led
  <2>7. SeenOf(M) = Election!MsgsTo("Append", i, Server \ {i}, p.term)
    BY Zenon, <2>1, SeenMail DEF SeenAs
  <2>8. h.term = p.term
    BY Zenon, HardFields DEF Saved
  <2>9. SeenOf(o.out) = sent \cup Election!MsgsTo("Append", i, Election!Peers(i), h.term)
    <3>1. SeenOf(o.out) = SeenOf(p.out) \cup SeenOf(M)
      BY Zenon, <2>1, SeenParts
    <3>2. Election!Peers(i) = Server \ {i}
      BY Zenon DEF Election!Peers
    <3> QED BY Zenon, <2>7, <2>8, <3>1, <3>2
  <2>10. seen' = seen \cup sent \cup Election!MsgsTo("Append", i, Election!Peers(i), h.term)
    BY Zenon, <2>9 DEF Ends
  <2> QED BY Zenon, <2>4, <2>5, <2>6, <2>10 DEF Election!becomeLeader
<1> QED BY Zenon, <1>1, <1>2 DEF LedOrFailed

-----------------------------------------------------------------------------
(***************************************************************************)
(* Elections.                                                              *)
(***************************************************************************)

\* q is n but for its leader, its pre-votes and its outbound queue.
Prepared(n, q) ==
  /\ q.role = n.role /\ q.term = n.term /\ q.vote = n.vote
  /\ q.voteMask = n.voteMask /\ q.faulted = FALSE /\ q.disk = n.disk

\* An election is started, won at once, or fails (startElection).
LEMMA CampaignStep ==
  ASSUME NEW i \in Server, NEW n, Begins(n, i), n.faulted = FALSE, n.term < MaxTerm,
         NEW o, Ends(o, i), NEW q, Prepared(n, q), Campaigned(q, o, i, Entries),
         NEW sent, sent = SeenOf(q.out)
  PROVE  Election!startElection(i, q.leader, q.preVoteMask, sent)
<1>1. terms[i] = n.term /\ hards[i] = HardOf(n.disk) /\ Saved(n)
  BY Zenon DEF Begins
<1>2. terms[i] < MaxTerm
  BY Zenon, <1>1
<1>3. CASE Failed(q, o)
  <2>1. Saved(q) /\ hards[i] = HardOf(q.disk)
    BY Zenon, <1>1 DEF Saved, Prepared
  <2>2. Election!failStorage(i, hards[i])
    BY Zenon, <1>3, <2>1, Stopped
  <2>3. preVoteMasks' = [preVoteMasks EXCEPT ![i] = q.preVoteMask] /\ voteMasks' = voteMasks
    <3>1. o.preVoteMask = q.preVoteMask /\ o.voteMask = n.voteMask
      BY Zenon, <1>3 DEF Failed, Prepared
    <3>2. voteMasks' = voteMasks
      BY Zenon, <3>1, Unmoved
    <3> QED BY Zenon, <3>1, <3>2 DEF Ends
  <2> QED BY Zenon, <1>2, <2>2, <2>3 DEF Election!startElection
<1>4. ASSUME NEW c, Campaigns(q, c, i, Entries),
             IF majorityMask(Server, {i}) THEN LedOrFailed(c, o, i, Entries) ELSE o = c
      PROVE  Election!startElection(i, q.leader, q.preVoteMask, sent)
  <2>1. PICK M : /\ Mail(M, {"RequestVote"}, i, q.term + 1, Server \ {i}, Entries)
                 /\ c.out = q.out \cup M
    BY Zenon, <1>4 DEF Campaigns
  <2>2. PICK h : h = Election!Hard(terms[i] + 1, i)
    BY Zenon
  <2>3. c.disk.term = terms[i] + 1 /\ c.disk.vote = i /\ q.term = terms[i]
    BY Zenon, <1>1, <1>4 DEF Campaigns, Prepared
  <2>4. h = HardOf(c.disk)
    BY Zenon, <2>2, <2>3, HardFields
  <2>5. Saved(c)
    BY Zenon, <1>4 DEF Saved, Campaigns
  <2>6. h.term = q.term + 1
    BY Zenon, <2>3, <2>4, HardFields
  <2>7. SeenOf(c.out) = sent \cup Election!MsgsTo("RequestVote", i, Election!Peers(i), h.term)
    <3>1. SeenOf(c.out) = SeenOf(q.out) \cup SeenOf(M)
      BY Zenon, <2>1, SeenParts
    <3>2. SeenOf(M) = Election!MsgsTo("RequestVote", i, Server \ {i}, q.term + 1)
      <4>1. PICK t, types : t = q.term + 1 /\ types = {"RequestVote"}
        BY Zenon
      <4>2. Mail(M, types, i, t, Server \ {i}, Entries)
        BY Zenon, <2>1, <4>1
      <4>3. SeenAs(types, "RequestVote")
        BY Zenon, <4>1 DEF SeenAs
      <4>4. SeenOf(M) = Election!MsgsTo("RequestVote", i, Server \ {i}, t)
        BY Zenon, <4>2, <4>3, SeenMail
      <4> QED BY Zenon, <4>1, <4>4
    <3>3. Election!Peers(i) = Server \ {i}
      BY Zenon DEF Election!Peers
    <3> QED BY Zenon, <2>6, <3>1, <3>2, <3>3
  <2>8. o.voteMask = {i} /\ o.preVoteMask = {}
    BY Zenon, <1>4 DEF Campaigns, LedOrFailed, Led, Failed
  <2>9. /\ voteMasks' = [voteMasks EXCEPT ![i] = {i}]
        /\ preVoteMasks' = [preVoteMasks EXCEPT ![i] = {}]
    BY Zenon, <2>8 DEF Ends
  <2>10. PICK requests : requests = SeenOf(c.out)
    BY Zenon
  <2>11. IF Election!majorityMask({i})
           THEN Election!becomeLeader(i, h, requests)
           ELSE /\ Election!Become(i, "Candidate", q.leader)
                /\ Election!persistHardState(i, h)
                /\ seen' = seen \cup requests
                /\ UNCHANGED faults
    <3>1. CASE Election!majorityMask({i})
      <4>1. LedOrFailed(c, o, i, Entries)
        BY Zenon, <1>4, <3>1, Majority
      <4>2. Election!becomeLeader(i, h, requests)
        BY Zenon, <2>4, <2>5, <2>10, <4>1, LeaderStep
      <4> QED BY Zenon, <3>1, <4>2
    <3>2. CASE ~Election!majorityMask({i})
      <4>1. o = c
        BY Zenon, <1>4, <3>2, Majority
      <4>2. Election!persistHardState(i, h)
        BY Zenon, <2>4, <2>5, <4>1, Persisted
      <4>3. Election!Become(i, "Candidate", q.leader) /\ seen' = seen \cup requests
        BY Zenon, <1>4, <2>10, <4>1 DEF Ends, Campaigns, Election!Become
      <4>4. faults' = faults
        BY Zenon, <1>4, <4>1, Unmoved DEF Campaigns
      <4> QED BY Zenon, <3>2, <4>2, <4>3, <4>4
    <3> QED BY Zenon, <3>1, <3>2
  <2>12. requests = sent \cup Election!MsgsTo("RequestVote", i, Election!Peers(i), h.term)
    BY Zenon, <2>7, <2>10
  <2> QED BY Zenon, <1>2, <2>2, <2>9, <2>11, <2>12 DEF Election!startElection
<1> QED BY Zenon, <1>3, <1>4 DEF Campaigned

\* An election timer fires (startPreVote).
LEMMA CanvassStep ==
  ASSUME NEW i \in Server, NEW n, Begins(n, i), n.faulted = FALSE, n.role # "Leader",
         n.term < MaxTerm, NEW o, Ends(o, i), NEW q, Canvasses(n, q, i, Entries),
         IF majorityMask(Server, {i}) THEN Campaigned(q, o, i, Entries) ELSE o = q
  PROVE  Election!Next
<1>1. /\ terms[i] = n.term /\ roles[i] = n.role /\ ~faults[i]
  BY Zenon DEF Begins
<1>2. PICK M : Mail(M, {"PreVote"}, i, n.term + 1, Server \ {i}, Entries) /\ q.out = n.out \cup M
  BY Zenon DEF Canvasses
<1>3. q.out = M
  BY Zenon, <1>2 DEF Begins
<1>4. Election!Peers(i) = Server \ {i}
  BY Zenon DEF Election!Peers
<1>5. PICK sent : sent = Election!MsgsTo("PreVote", i, Election!Peers(i), terms[i] + 1)
  BY Zenon
<1>6. SeenOf(q.out) = sent
  <2>1. SeenOf(M) = Election!MsgsTo("PreVote", i, Server \ {i}, n.term + 1)
    <3>1. PICK t, types : t = n.term + 1 /\ types = {"PreVote"}
      BY Zenon
    <3>2. Mail(M, types, i, t, Server \ {i}, Entries)
      BY Zenon, <1>2, <3>1
    <3>3. SeenAs(types, "PreVote")
      BY Zenon, <3>1 DEF SeenAs
    <3>4. SeenOf(M) = Election!MsgsTo("PreVote", i, Server \ {i}, t)
      BY Zenon, <3>2, <3>3, SeenMail
    <3> QED BY Zenon, <3>1, <3>4
  <2> QED BY Zenon, <1>1, <1>3, <1>4, <1>5, <2>1
<1>7. o.preVoteTerm = n.term + 1
  BY Zenon DEF Canvasses, Campaigned, Campaigns, LedOrFailed, Led, Failed
<1>8. preVoteTerms' = [preVoteTerms EXCEPT ![i] = terms[i] + 1]
  BY Zenon, <1>1, <1>7 DEF Ends
<1>9. q.leader = Nil /\ q.preVoteMask = {i} /\ Prepared(n, q)
  BY Zenon DEF Canvasses, Prepared
<1>10. IF Election!majorityMask({i})
         THEN Election!startElection(i, Nil, {i}, sent)
         ELSE /\ preVoteMasks' = [preVoteMasks EXCEPT ![i] = {i}]
              /\ Election!Become(i, roles[i], Nil)
              /\ seen' = seen \cup sent
              /\ UNCHANGED <<terms, votes, voteMasks, faults, hards>>
  <2>1. CASE Election!majorityMask({i})
    <3>1. Campaigned(q, o, i, Entries)
      BY Zenon, <2>1, Majority
    <3>2. Election!startElection(i, q.leader, q.preVoteMask, sent)
      BY Zenon, <1>6, <1>9, <3>1, CampaignStep
    <3> QED BY Zenon, <1>9, <2>1, <3>2
  <2>2. CASE ~Election!majorityMask({i})
    <3>1. o = q
      BY Zenon, <2>2, Majority
    <3>2. /\ terms' = terms /\ votes' = votes /\ voteMasks' = voteMasks /\ faults' = faults
          /\ hards' = hards
      BY Zenon, <3>1, Unmoved DEF Canvasses
    <3>3. /\ preVoteMasks' = [preVoteMasks EXCEPT ![i] = {i}] /\ seen' = seen \cup sent
      BY Zenon, <1>6, <1>9, <3>1 DEF Ends
    <3>4. Election!Become(i, roles[i], Nil)
      BY Zenon, <1>1, <1>9, <3>1 DEF Ends, Prepared, Election!Become
    <3> QED BY Zenon, <2>2, <3>2, <3>3, <3>4
  <2> QED BY Zenon, <2>1, <2>2
<1>11. Election!startPreVote(i)
  BY Zenon, <1>1, <1>5, <1>8, <1>10 DEF Election!startPreVote
<1> QED BY Zenon, <1>11 DEF Election!Next

-----------------------------------------------------------------------------
(***************************************************************************)
(* What a call keeps of the invariant.                                     *)
(***************************************************************************)

\* Node i inside a call, as long as no write has failed.
Running(p, i) ==
  /\ PlainNode(p, i, Entries) /\ Saved(p) /\ p.faulted = FALSE
  /\ p.preVoteTerm \in 0 .. MaxTerm
  /\ \A m \in p.out : Travelling(m)

\* Node i at the end of a call.
Settled(o, i) ==
  /\ PlainNode(o, i, Entries) /\ Saved(o)
  /\ o.faulted \in BOOLEAN /\ (o.faulted => o.role = "Follower")
  /\ o.preVoteTerm \in 0 .. MaxTerm
  /\ \A m \in o.out : Travelling(m)

\* A call begins with a running node.
LEMMA BeginsRunning ==
  ASSUME NEW n, NEW i, Begins(n, i), n.faulted = FALSE
  PROVE  Running(n, i)
BY Zenon DEF Begins, Running

\* A call may end with a running node.
LEMMA RunningSettles ==
  ASSUME NEW p, NEW i, Running(p, i)
  PROVE  Settled(p, i)
<1>1. p.faulted \in BOOLEAN /\ ~p.faulted
  BY Zenon DEF Running
<1> QED BY Zenon, <1>1 DEF Running, Settled

\* A call may end with a failed write.
LEMMA FailedSettles ==
  ASSUME NEW p, NEW i, Running(p, i), NEW o, PlainNode(o, i, Entries), Failed(p, o)
  PROVE  Settled(o, i)
<1>1. Saved(o) /\ o.faulted \in BOOLEAN /\ o.role = "Follower" /\ o.out = {}
  BY Zenon DEF Running, Saved, Failed
<1>2. o.preVoteTerm \in 0 .. MaxTerm
  BY Zenon DEF Running, Failed
<1> QED BY Zenon, <1>1, <1>2 DEF Settled

\* A node whose election state does not change is still running.
LEMMA SameRuns ==
  ASSUME NEW p, NEW i, Running(p, i), NEW o, PlainNode(o, i, Entries), SameState(p, o),
         \A m \in o.out : Travelling(m)
  PROVE  Running(o, i)
<1>1. Saved(o) /\ o.faulted = FALSE /\ o.preVoteTerm \in 0 .. MaxTerm
  BY Zenon DEF Running, Saved, SameState, SameMemory
<1> QED BY Zenon, <1>1 DEF Running

\* The same, when nothing is sent.
LEMMA QuietRuns ==
  ASSUME NEW p, NEW i, Running(p, i), NEW o, PlainNode(o, i, Entries), Quiet(p, o)
  PROVE  Running(o, i)
<1>1. SameState(p, o) /\ \A m \in o.out : Travelling(m)
  BY Zenon DEF Running, Quiet
<1> QED BY Zenon, <1>1, SameRuns

\* Mail but for a TimeoutNow.
LEMMA MailTravels ==
  ASSUME NEW M, NEW types, "TimeoutNow" \notin types, NEW i, NEW t, NEW S,
         Mail(M, types, i, t, S, Entries)
  PROVE  \A m \in M : Travelling(m)
BY Zenon DEF Mail, Travelling

\* A node that sends Appends or snapshots.
LEMMA SentRuns ==
  ASSUME NEW p, NEW i, Running(p, i), NEW o, Sent(p, o, i, Entries)
  PROVE  Running(o, i)
<1>1. PICK S, M : /\ PlainNode(o, i, Entries) /\ SameState(p, o)
                  /\ Mail(M, Replication, i, p.term, S, Entries) /\ o.out = p.out \cup M
  BY Zenon DEF Sent, Replicated
<1>2. "TimeoutNow" \notin Replication
  BY DEF Replication
<1>3. \A m \in M : Travelling(m)
  BY Zenon, <1>1, <1>2, MailTravels
<1>4. \A m \in o.out : Travelling(m)
  BY Zenon, <1>1, <1>3 DEF Running
<1> QED BY Zenon, <1>1, <1>4, SameRuns

\* A node that answers.
LEMMA AnswerRuns ==
  ASSUME NEW p, NEW i, Running(p, i), NEW o, NEW r, Answered(p, o, r, i, Entries),
         Travelling(r)
  PROVE  Running(o, i)
<1>1. PlainNode(o, i, Entries) /\ SameState(p, o) /\ o.out = p.out \cup {r}
  BY Zenon DEF Answered
<1>2. \A m \in o.out : Travelling(m)
  BY Zenon, <1>1 DEF Running
<1> QED BY Zenon, <1>1, <1>2, SameRuns

\* A node that becomes the leader, or fails.
LEMMA LedSettles ==
  ASSUME NEW p, NEW i, Running(p, i), NEW o, LedOrFailed(p, o, i, Entries)
  PROVE  Settled(o, i)
<1>1. CASE PlainNode(o, i, Entries) /\ Failed(p, o)
  BY Zenon, <1>1, FailedSettles
<1>2. CASE Led(p, o, i, Entries)
  <2>1. PICK M : Mail(M, Replication, i, p.term, Server \ {i}, Entries) /\ o.out = p.out \cup M
    BY Zenon, <1>2 DEF Led
  <2>2. "TimeoutNow" \notin Replication
    BY DEF Replication
  <2>3. \A m \in M : Travelling(m)
    BY Zenon, <2>1, <2>2, MailTravels
  <2>4. \A m \in o.out : Travelling(m)
    BY Zenon, <2>1, <2>3 DEF Running
  <2>5. Saved(o) /\ PlainNode(o, i, Entries) /\ o.faulted = FALSE
    BY Zenon, <1>2 DEF Running, Led, Saved
  <2>6. o.preVoteTerm \in 0 .. MaxTerm
    BY Zenon, <1>2 DEF Running, Led
  <2>7. Running(o, i)
    BY Zenon, <2>4, <2>5, <2>6 DEF Running
  <2> QED BY Zenon, <2>7, RunningSettles
<1> QED BY Zenon, <1>1, <1>2 DEF LedOrFailed

\* A node that starts an election.
LEMMA CampaignSettles ==
  ASSUME NEW p, NEW i, Running(p, i), NEW o, Campaigned(p, o, i, Entries)
  PROVE  Settled(o, i)
<1>1. CASE PlainNode(o, i, Entries) /\ Failed(p, o)
  BY Zenon, <1>1, FailedSettles
<1>2. ASSUME NEW q, Campaigns(p, q, i, Entries),
             IF majorityMask(Server, {i}) THEN LedOrFailed(q, o, i, Entries) ELSE o = q
      PROVE  Settled(o, i)
  <2>1. PICK M, types, t : /\ types = {"RequestVote"}
                           /\ Mail(M, types, i, t, Server \ {i}, Entries) /\ q.out = p.out \cup M
    BY Zenon, <1>2 DEF Campaigns
  <2>2. "TimeoutNow" \notin types
    BY <2>1
  <2>3. \A m \in M : Travelling(m)
    <3>1. Mail(M, types, i, t, Server \ {i}, Entries)
      BY Zenon, <2>1
    <3> QED BY Zenon, <2>2, <3>1, MailTravels
  <2>4. \A m \in q.out : Travelling(m)
    BY Zenon, <2>1, <2>3 DEF Running
  <2>5. Saved(q) /\ PlainNode(q, i, Entries) /\ q.faulted = FALSE
    BY Zenon, <1>2 DEF Campaigns, Saved
  <2>6. q.preVoteTerm \in 0 .. MaxTerm
    BY Zenon, <1>2 DEF Running, Campaigns
  <2>7. Running(q, i)
    BY Zenon, <2>4, <2>5, <2>6 DEF Running
  <2> QED BY Zenon, <1>2, <2>7, LedSettles, RunningSettles
<1> QED BY Zenon, <1>1, <1>2 DEF Campaigned

\* A node whose election timer fires.
LEMMA CanvassSettles ==
  ASSUME NEW p, NEW i, Running(p, i), p.term < MaxTerm, NEW o, NEW q,
         Canvasses(p, q, i, Entries),
         IF majorityMask(Server, {i}) THEN Campaigned(q, o, i, Entries) ELSE o = q
  PROVE  Settled(o, i)
<1>1. PICK M, types, t : /\ types = {"PreVote"}
                         /\ Mail(M, types, i, t, Server \ {i}, Entries) /\ q.out = p.out \cup M
  BY Zenon DEF Canvasses
<1>2. "TimeoutNow" \notin types
  BY <1>1
<1>3. \A m \in M : Travelling(m)
  <2>1. Mail(M, types, i, t, Server \ {i}, Entries)
    BY Zenon, <1>1
  <2> QED BY Zenon, <1>2, <2>1, MailTravels
<1>4. \A m \in q.out : Travelling(m)
  BY Zenon, <1>1, <1>3 DEF Running
<1>5. Saved(q) /\ PlainNode(q, i, Entries) /\ q.faulted = FALSE
  BY Zenon DEF Canvasses, Saved, Running
<1>6. q.preVoteTerm \in 0 .. MaxTerm
  <2>1. q.preVoteTerm = p.term + 1 /\ p.term \in Nat
    BY Zenon DEF Canvasses, Running, PlainNode
  <2> QED BY <2>1, ClusterAssumption
<1>7. Running(q, i)
  BY Zenon, <1>4, <1>5, <1>6 DEF Running
<1> QED BY Zenon, <1>7, CampaignSettles, RunningSettles

-----------------------------------------------------------------------------
(***************************************************************************)
(* Messages.                                                               *)
(***************************************************************************)

Implemented == Election!Next \/ UNCHANGED Election!vars

\* A call that keeps the invariant, and is an election step or none.
Sound(o, i) == Settled(o, i) /\ (Ends(o, i) => Implemented)

\* s is what elections see of m.
Shown(m, s) ==
  /\ s = Seen(m)
  /\ s.from = m.from /\ s.to = m.to /\ s.term = m.term
  /\ s.type = CASE m.type = "InstallSnapshot" -> "Append"
                [] m.type = "InstallSnapshotResponse" -> "AppendResponse"
                [] OTHER -> m.type
  /\ s.reject <=> (m.type = "RequestVoteResponse" /\ m.reject)

\* Every message can be seen.
LEMMA Shows ==
  ASSUME NEW m
  PROVE  \E s : Shown(m, s)
<1>1. PICK s : s = Seen(m)
  BY Zenon
<1>2. /\ s.from = m.from /\ s.to = m.to /\ s.term = m.term
      /\ s.type = CASE m.type = "InstallSnapshot" -> "Append"
                    [] m.type = "InstallSnapshotResponse" -> "AppendResponse"
                    [] OTHER -> m.type
      /\ s.reject <=> (m.type = "RequestVoteResponse" /\ m.reject)
  BY Zenon, <1>1 DEF Seen
<1> QED BY Zenon, <1>1, <1>2 DEF Shown

\* The types elections see, and whether a term is newer.
LEMMA ShownTypes ==
  ASSUME NEW m, PlainMessage(m, Entries), NEW s, Shown(m, s), NEW i, NEW n, Begins(n, i)
  PROVE  /\ m.type \in {"PreVote", "PreVoteResponse", "RequestVote", "RequestVoteResponse",
                        "TimeoutNow"} => s.type = m.type
         /\ m.type \in {"Append", "InstallSnapshot"} => s.type = "Append"
         /\ m.type \in {"AppendResponse", "InstallSnapshotResponse"} => s.type = "AppendResponse"
         /\ Newer(n, m) <=> Election!Newer(i, s)
<1>1. m.type \in {"PreVote", "PreVoteResponse", "RequestVote", "RequestVoteResponse", "Append",
                  "AppendResponse", "InstallSnapshot", "InstallSnapshotResponse", "TimeoutNow"}
  BY Zenon DEF PlainMessage
<1>2. s.type = CASE m.type = "InstallSnapshot" -> "Append"
                 [] m.type = "InstallSnapshotResponse" -> "AppendResponse"
                 [] OTHER -> m.type
  BY Zenon DEF Shown
<1>3. s.term = m.term /\ terms[i] = n.term
  BY Zenon DEF Shown, Begins
<1>4. /\ m.type \in {"PreVote", "PreVoteResponse", "RequestVote", "RequestVoteResponse",
                     "TimeoutNow"} => s.type = m.type
      /\ m.type \in {"Append", "InstallSnapshot"} => s.type = "Append"
      /\ m.type \in {"AppendResponse", "InstallSnapshotResponse"} => s.type = "AppendResponse"
  BY <1>1, <1>2
<1>5. m.type \notin {"PreVote", "PreVoteResponse"} <=> s.type \notin {"PreVote", "PreVoteResponse"}
  BY <1>1, <1>2
<1>6. Newer(n, m) <=> Election!Newer(i, s)
  BY Zenon, <1>3, <1>5 DEF Newer, Election!Newer, Election!PreVoteTypes
<1> QED BY Zenon, <1>4, <1>6

\* Node i, n before, has seen m as s, and a newer term is on its disk.
Observed(n, p, s, i) ==
  /\ Running(p, i) /\ p.out = {}
  /\ p.preVoteTerm = n.preVoteTerm /\ p.preVoteMask = n.preVoteMask /\ p.voteMask = n.voteMask
  /\ p.term = Election!TermAfter(i, s) /\ p.vote = Election!VoteAfter(i, s)
  /\ p.role = Election!RoleAfter(i, s) /\ p.leader = Election!LeaderAfter(i, s)
  /\ HardOf(p.disk) = Election!HardAfter(i, s)

\* p is n after the prologue of Step.
Entering(n, p, m, s, i) ==
  /\ Observed(n, p, s, i)
  /\ ~Newer(n, m) => p = n
  /\ Newer(n, m) => p.role = "Follower" /\ p.leader = Nil

\* The prologue of Step: a newer term is entered, or its write fails.
LEMMA ObserveStep ==
  ASSUME NEW i \in Server, NEW n, Begins(n, i), n.faulted = FALSE, NEW m, Travelling(m),
         NEW s, Shown(m, s), NEW p, p = Observe(n, m)
  PROVE  \/ Newer(n, m) /\ PlainNode(p, i, Entries) /\ Failed(n, p)
         \/ Entering(n, p, m, s, i)
<1>1. PlainMessage(m, Entries) /\ PlainNode(n, i, Entries) /\ n.out = {}
  BY Zenon DEF Travelling, Begins
<1>2. Newer(n, m) <=> Election!Newer(i, s)
  BY Zenon, <1>1, ShownTypes
<1>3. s.term = m.term
  BY Zenon DEF Shown
<1>4. CASE ~Newer(n, m)
  <2>1. p = n
    BY Zenon, <1>1, <1>4, Observes
  <2>2. Running(n, i)
    BY Zenon, BeginsRunning
  <2>3. /\ n.term = Election!TermAfter(i, s) /\ n.vote = Election!VoteAfter(i, s)
        /\ n.role = Election!RoleAfter(i, s) /\ n.leader = Election!LeaderAfter(i, s)
        /\ HardOf(n.disk) = Election!HardAfter(i, s)
    BY Zenon, <1>2, <1>4 DEF Begins, Election!TermAfter, Election!VoteAfter,
         Election!RoleAfter, Election!LeaderAfter, Election!HardAfter
  <2> QED BY Zenon, <1>1, <1>4, <2>1, <2>2, <2>3 DEF Observed, Entering
<1>5. CASE Newer(n, m) /\ Entered(n, p, m.term, i, Entries)
  <2>1. Running(p, i)
    <3>1. PlainNode(p, i, Entries) /\ Saved(p) /\ p.faulted = FALSE /\ p.out = {}
      BY Zenon, <1>1, <1>5 DEF Entered, Saved
    <3>2. p.preVoteTerm \in 0 .. MaxTerm
      BY Zenon, <1>5 DEF Entered, Begins
    <3> QED BY Zenon, <3>1, <3>2 DEF Running
  <2>2. HardOf(p.disk) = Election!Hard(m.term, Nil)
    BY Zenon, <1>5, HardFields DEF Entered
  <2>3. /\ p.term = Election!TermAfter(i, s) /\ p.vote = Election!VoteAfter(i, s)
        /\ p.role = Election!RoleAfter(i, s) /\ p.leader = Election!LeaderAfter(i, s)
        /\ HardOf(p.disk) = Election!HardAfter(i, s)
    BY Zenon, <1>2, <1>3, <1>5, <2>2 DEF Entered, Election!TermAfter, Election!VoteAfter,
         Election!RoleAfter, Election!LeaderAfter, Election!HardAfter
  <2> QED BY Zenon, <1>1, <1>5, <2>1, <2>3 DEF Observed, Entered, Entering
<1>6. Newer(n, m) => \/ PlainNode(p, i, Entries) /\ Failed(n, p)
                     \/ Entered(n, p, m.term, i, Entries)
  BY Zenon, <1>1, Observes
<1> QED BY Zenon, <1>4, <1>5, <1>6

\* Node i gets m, which elections see as s.
Gets(n, i, m, s) ==
  /\ Begins(n, i) /\ n.faulted = FALSE
  /\ Travelling(m) /\ m.to = i /\ Shown(m, s)
  /\ s \in seen \/ (m.type = "PreVoteResponse" /\ m.reject)

\* A handler of the detailed node is one of the election's.
LEMMA StepNext ==
  ASSUME NEW i \in Server, NEW n, NEW m, NEW s, Gets(n, i, m, s), s \in seen,
         NEW b \in BOOLEAN,
         \/ Election!onPreVote(i, s, b) \/ Election!onVote(i, s, b) \/ Election!onAppend(i, s, b)
         \/ Election!onPreVoteResponse(i, s) \/ Election!onVoteResponse(i, s)
         \/ Election!onNewerTerm(i, s) \/ Election!onTimeoutNow(i, s)
  PROVE  Implemented
<1>1. ~faults[i] /\ s.to = i
  BY Zenon DEF Gets, Begins, Shown
<1>2. Election!Step(i, s)
  BY Zenon, <1>1 DEF Election!Step
<1> QED BY Zenon, <1>2 DEF Election!Next, Implemented

\* The write of a newer term fails (Step).
LEMMA NewerFails ==
  ASSUME NEW i \in Server, NEW n, NEW m, NEW s, Gets(n, i, m, s), Newer(n, m),
         NEW o, PlainNode(o, i, Entries), Failed(n, o)
  PROVE  Sound(o, i)
<1>1. Begins(n, i) /\ n.faulted = FALSE /\ PlainMessage(m, Entries) /\ Shown(m, s)
  BY Zenon DEF Gets, Travelling
<1>2. Settled(o, i)
  BY Zenon, <1>1, BeginsRunning, FailedSettles
<1>3. s \in seen
  BY Zenon DEF Gets, Newer
<1>4. Election!Newer(i, s)
  BY Zenon, <1>1, ShownTypes
<1>5. ASSUME Ends(o, i)
      PROVE  Implemented
  <2>1. Saved(n) /\ hards[i] = HardOf(n.disk)
    BY Zenon, <1>1 DEF Begins
  <2>2. Election!failStorage(i, hards[i])
    BY Zenon, <1>5, <2>1, Stopped
  <2>3. /\ preVoteTerms' = preVoteTerms /\ preVoteMasks' = preVoteMasks /\ voteMasks' = voteMasks
    BY Zenon, <1>1, <1>5, Unmoved DEF Failed
  <2>4. m.type \in {"RequestVote", "RequestVoteResponse", "Append",
                    "AppendResponse", "InstallSnapshot", "InstallSnapshotResponse", "TimeoutNow"}
    BY Zenon, <1>1 DEF PlainMessage, Newer
  <2>5. s.type \in {"RequestVote", "Append", "RequestVoteResponse", "AppendResponse", "TimeoutNow"}
    BY Zenon, <1>1, <2>4, ShownTypes
  <2>6. PICK b \in BOOLEAN : b = TRUE
    BY Zenon
  <2>7. CASE s.type = "RequestVote"
    <3>1. Election!onVote(i, s, b)
      BY Zenon, <1>4, <2>2, <2>3, <2>7 DEF Election!onVote
    <3> QED BY Zenon, <1>3, <3>1, StepNext
  <2>8. CASE s.type = "Append"
    <3>1. Election!onAppend(i, s, b)
      BY Zenon, <1>4, <2>2, <2>3, <2>8 DEF Election!onAppend
    <3> QED BY Zenon, <1>3, <3>1, StepNext
  <2>9. CASE s.type \in {"RequestVoteResponse", "AppendResponse", "TimeoutNow"}
    <3>1. Election!onNewerTerm(i, s)
      BY Zenon, <1>4, <2>2, <2>3, <2>9 DEF Election!onNewerTerm
    <3> QED BY Zenon, <1>3, <2>6, <3>1, StepNext
  <2> QED BY Zenon, <2>5, <2>7, <2>8, <2>9
<1> QED BY Zenon, <1>2, <1>5 DEF Sound

\* A response or a TimeoutNow of a newer term does no more than the prologue (Step).
LEMMA NewerEnters ==
  ASSUME NEW i \in Server, NEW n, NEW m, NEW s, Gets(n, i, m, s), Newer(n, m),
         m.type \in {"RequestVoteResponse", "AppendResponse", "InstallSnapshotResponse",
                     "TimeoutNow"},
         NEW p, Observed(n, p, s, i), p.role = "Follower", p.leader = Nil,
         NEW o, PlainNode(o, i, Entries), Quiet(p, o)
  PROVE  Sound(o, i)
<1>1. Begins(n, i) /\ n.faulted = FALSE /\ PlainMessage(m, Entries) /\ Shown(m, s)
  BY Zenon DEF Gets, Travelling
<1>2. Running(o, i)
  BY Zenon, QuietRuns DEF Observed
<1>3. Settled(o, i)
  BY Zenon, <1>2, RunningSettles
<1>4. s \in seen
  BY Zenon DEF Gets, Newer
<1>5. Election!Newer(i, s)
  BY Zenon, <1>1, ShownTypes
<1>6. s.type \in {"RequestVoteResponse", "AppendResponse", "TimeoutNow"}
  BY Zenon, <1>1, ShownTypes
<1>7. ASSUME Ends(o, i)
      PROVE  Implemented
  <2>1. Election!Become(i, "Follower", Nil)
    BY Zenon, <1>7 DEF Ends, Quiet, SameState, SameMemory, Election!Become
  <2>2. HardOf(o.disk) = Election!HardAfter(i, s)
    BY Zenon DEF Observed, Quiet, SameState, HardOf
  <2>3. Election!persistHardState(i, Election!HardAfter(i, s))
    BY Zenon, <1>2, <1>7, <2>2, Persisted DEF Running
  <2>4. seen' = seen
    BY Zenon, <1>7, SeenParts DEF Ends, Observed, Quiet
  <2>5. /\ o.preVoteTerm = n.preVoteTerm /\ o.preVoteMask = n.preVoteMask
        /\ o.voteMask = n.voteMask /\ o.faulted = n.faulted
    BY Zenon, <1>1, <1>2 DEF Observed, Quiet, SameState, SameMemory, Running
  <2>6. /\ preVoteTerms' = preVoteTerms /\ preVoteMasks' = preVoteMasks
        /\ voteMasks' = voteMasks /\ faults' = faults
    BY Zenon, <1>1, <1>7, <2>5, Unmoved
  <2>7. Election!onNewerTerm(i, s)
    BY Zenon, <1>5, <1>6, <2>1, <2>3, <2>4, <2>6 DEF Election!onNewerTerm
  <2>8. PICK b \in BOOLEAN : b = TRUE
    BY Zenon
  <2> QED BY Zenon, <1>4, <2>7, <2>8, StepNext
<1> QED BY Zenon, <1>3, <1>7 DEF Sound

\* A message that leaves the election state alone.
LEMMA IdleSound ==
  ASSUME NEW i \in Server, NEW n, Begins(n, i), n.faulted = FALSE,
         NEW o, PlainNode(o, i, Entries), Quiet(n, o)
  PROVE  Sound(o, i)
<1>1. Settled(o, i)
  BY Zenon, BeginsRunning, QuietRuns, RunningSettles
<1> QED BY Zenon, <1>1, QuietStep DEF Sound, Implemented

\* A leader that sends Appends or snapshots.
LEMMA SentSound ==
  ASSUME NEW i \in Server, NEW n, Begins(n, i), n.faulted = FALSE, n.role = "Leader",
         NEW o, Sent(n, o, i, Entries)
  PROVE  Sound(o, i)
<1>1. Settled(o, i)
  BY Zenon, BeginsRunning, SentRuns, RunningSettles
<1> QED BY Zenon, <1>1, SentStep DEF Sound, Implemented

\* A call whose first write fails, or a later one that is no part of an election.
LEMMA FailedSound ==
  ASSUME NEW i \in Server, NEW n, Begins(n, i), n.faulted = FALSE,
         NEW o, PlainNode(o, i, Entries), Failed(n, o)
  PROVE  Sound(o, i)
<1>1. Settled(o, i)
  BY Zenon, BeginsRunning, FailedSettles
<1> QED BY Zenon, <1>1, FailedStep DEF Sound, Implemented

\* Elections see r with this type and this answer.
Pictured(r, type, reject) ==
  /\ type = CASE r.type = "InstallSnapshot" -> "Append"
              [] r.type = "InstallSnapshotResponse" -> "AppendResponse"
              [] OTHER -> r.type
  /\ reject <=> (r.type = "RequestVoteResponse" /\ r.reject)
  /\ r.type # "PreVoteResponse" \/ ~r.reject

\* What elections see of an answer r.
LEMMA SeenAnswer ==
  ASSUME NEW r, NEW type, NEW reject \in BOOLEAN, Pictured(r, type, reject)
  PROVE  SeenOf({r}) = {Election!Msg(type, r.from, r.to, r.term, reject)}
<1>1. Seen(r) = Election!Msg(type, r.from, r.to, r.term, reject)
  BY Zenon, SeenFields DEF Pictured
<1>2. SeenOf({r}) = {Seen(r)}
  BY Zenon, SeenOne DEF Pictured
<1> QED BY Zenon, <1>1, <1>2

\* A pre-vote is granted, or refused unseen (onPreVote).
LEMMA PreVoteSound ==
  ASSUME NEW i \in Server, NEW n, NEW m, NEW s, Gets(n, i, m, s), m.type = "PreVote",
         NEW o, o = onPreVote(n, m)
  PROVE  Sound(o, i)
<1>1. /\ Begins(n, i) /\ n.faulted = FALSE /\ PlainMessage(m, Entries) /\ Shown(m, s)
      /\ m.to = i /\ PlainNode(n, i, Entries) /\ n.out = {}
  BY Zenon DEF Gets, Travelling, Begins
<1>2. PICK r : /\ Answered(n, o, r, i, Entries)
               /\ r.type = "PreVoteResponse" /\ r.to = m.from /\ r.term = m.term
               /\ ~r.reject => m.term >= n.term + 1 /\ n.leader = Nil
  BY <1>1, OnPreVote
<1>3. /\ PlainNode(o, i, Entries) /\ SameState(n, o) /\ o.out = {r} /\ r.from = i
      /\ Travelling(r)
  <2>1. PlainMessage(r, Entries) /\ r.type # "TimeoutNow"
    BY <1>2 DEF Answered
  <2> QED BY Zenon, <1>1, <1>2, <2>1 DEF Answered, Travelling
<1>4. Settled(o, i)
  BY Zenon, <1>1, <1>2, <1>3, BeginsRunning, AnswerRuns, RunningSettles
<1>5. ASSUME Ends(o, i)
      PROVE  Implemented
  <2>1. /\ roles' = roles /\ terms' = terms /\ votes' = votes /\ leaders' = leaders
        /\ preVoteTerms' = preVoteTerms /\ preVoteMasks' = preVoteMasks
        /\ voteMasks' = voteMasks /\ faults' = faults /\ hards' = hards
    BY ZenonT(60), <1>1, <1>3, <1>5, Unmoved DEF SameState, SameMemory
  <2>2. CASE r.reject
    <3>1. SeenOf({r}) = {}
      BY Zenon, <1>2, <2>2, SeenOne
    <3>2. seen' = seen
      BY Zenon, <1>3, <1>5, <3>1 DEF Ends
    <3> QED BY Zenon, <2>1, <3>2 DEF Implemented, Election!vars, Election!volatile
  <2>3. CASE ~r.reject
    <3>1. s.type = "PreVote" /\ s.from = m.from /\ s.term = m.term
      BY Zenon, <1>1, ShownTypes DEF Shown
    <3>2. s \in seen
      <4>1. m.type # "PreVoteResponse"
        OBVIOUS
      <4> QED BY Zenon, <4>1 DEF Gets
    <3>3. PICK reject \in BOOLEAN : reject = FALSE
      BY Zenon
    <3>4. "PreVoteResponse" = CASE r.type = "InstallSnapshot" -> "Append"
                                [] r.type = "InstallSnapshotResponse" -> "AppendResponse"
                                [] OTHER -> r.type
      BY <1>2
    <3>5. Pictured(r, "PreVoteResponse", reject)
      BY Zenon, <2>3, <3>3, <3>4 DEF Pictured
    <3>6. SeenOf({r}) = {Election!Msg("PreVoteResponse", i, s.from, s.term, reject)}
      <4>1. SeenOf({r}) = {Election!Msg("PreVoteResponse", r.from, r.to, r.term, reject)}
        BY Zenon, <3>5, SeenAnswer
      <4> QED BY Zenon, <1>2, <1>3, <3>1, <4>1
    <3>7. seen' = seen \cup {Election!Msg("PreVoteResponse", i, s.from, s.term, FALSE)}
      BY Zenon, <1>3, <1>5, <3>3, <3>6 DEF Ends
    <3>8. s.term >= terms[i] + 1 /\ leaders[i] = Nil
      BY Zenon, <1>1, <1>2, <2>3, <3>1 DEF Begins
    <3>9. PICK b \in BOOLEAN : b = TRUE
      BY Zenon
    <3>10. Election!onPreVote(i, s, b)
      BY Zenon, <2>1, <3>1, <3>7, <3>8, <3>9 DEF Election!onPreVote, Election!volatile
    <3> QED BY Zenon, <3>2, <3>10, StepNext
  <2> QED BY Zenon, <2>2, <2>3
<1> QED BY Zenon, <1>4, <1>5 DEF Sound

\* A pre-vote is counted, and an election started with a majority (onPreVoteResponse).
LEMMA PreVoteResponseSound ==
  ASSUME NEW i \in Server, NEW n, NEW m, NEW s, Gets(n, i, m, s), m.type = "PreVoteResponse",
         NEW o, o = onPreVoteResponse(n, m)
  PROVE  Sound(o, i)
<1>1. /\ Begins(n, i) /\ n.faulted = FALSE /\ PlainMessage(m, Entries) /\ Shown(m, s)
      /\ m.to = i /\ PlainNode(n, i, Entries) /\ n.out = {}
  BY Zenon DEF Gets, Travelling, Begins
<1>2. Server # {} /\ PlainEntries(Entries)
  BY Zenon, ClusterAssumption, EntriesPlain
<1>3. CASE o = n
  <2>1. Quiet(n, o)
    BY Zenon, <1>3 DEF Quiet, SameState, SameMemory
  <2> QED BY Zenon, <1>1, <1>3, <2>1, IdleSound
<1>4. CASE PreVoteCounted(n, o, m, i, Entries)
  <2>0. n.role # "Leader" /\ m.term = n.term + 1 /\ m.term = n.preVoteTerm /\ ~m.reject
    BY Zenon, <1>4 DEF PreVoteCounted
  <2>1. PICK q : /\ PlainNode(q, i, Entries)
                 /\ q.role = n.role /\ q.term = n.term /\ q.vote = n.vote /\ q.leader = n.leader
                 /\ q.preVoteTerm = n.preVoteTerm /\ q.preVoteMask = n.preVoteMask \cup {m.from}
                 /\ q.voteMask = n.voteMask /\ q.faulted = FALSE /\ q.disk = n.disk
                 /\ q.out = n.out
                 /\ IF majorityMask(Server, q.preVoteMask) THEN Campaigned(q, o, i, Entries)
                                                           ELSE o = q
    BY Zenon, <1>4 DEF PreVoteCounted
  <2>2. n.term < MaxTerm
    <3>1. n.preVoteTerm \in 0 .. MaxTerm /\ n.term \in Nat /\ n.preVoteTerm = n.term + 1
      BY Zenon, <1>1, <2>0 DEF Begins, PlainNode
    <3> QED BY <3>1, ClusterAssumption
  <2>3. Running(q, i) /\ q.out = {}
    <3>1. q.preVoteTerm \in 0 .. MaxTerm /\ Saved(q) /\ q.out = {}
      BY Zenon, <1>1, <2>1 DEF Begins, Saved
    <3> QED BY Zenon, <2>1, <3>1 DEF Running
  <2>4. Settled(o, i)
    BY Zenon, <2>1, <2>3, CampaignSettles, RunningSettles
  <2>5. s.type = "PreVoteResponse" /\ s.from = m.from /\ s.term = m.term /\ ~s.reject
    <3>1. m.type # "RequestVoteResponse"
      OBVIOUS
    <3> QED BY Zenon, <1>1, <3>1, ShownTypes DEF Shown
  <2>6. s \in seen
    BY Zenon, <2>0 DEF Gets
  <2>7. ASSUME Ends(o, i)
        PROVE  Implemented
    <3>1. PICK mask : mask = preVoteMasks[i] \cup {s.from}
      BY Zenon
    <3>2. q.preVoteMask = mask /\ q.leader = leaders[i]
      BY Zenon, <1>1, <2>1, <2>5, <3>1 DEF Begins
    <3>3. preVoteTerms' = preVoteTerms
      <4>1. o.preVoteTerm = n.preVoteTerm
        BY Zenon, <2>1 DEF Campaigned, Campaigns, LedOrFailed, Led, Failed
      <4> QED BY Zenon, <1>1, <2>7, <4>1, Unmoved
    <3>4. IF Election!majorityMask(mask)
            THEN Election!startElection(i, leaders[i], mask, {})
            ELSE /\ preVoteMasks' = [preVoteMasks EXCEPT ![i] = mask]
                 /\ UNCHANGED <<roles, terms, votes, leaders, voteMasks, faults, hards, seen>>
      <4>1. CASE Election!majorityMask(mask)
        <5>1. Campaigned(q, o, i, Entries)
          BY Zenon, <2>1, <3>2, <4>1, Majority
        <5>2. PICK sent : sent = SeenOf(q.out) /\ sent = {}
          BY Zenon, <2>3, SeenParts
        <5>3. Prepared(n, q)
          BY Zenon, <2>1 DEF Prepared
        <5>4. Election!startElection(i, q.leader, q.preVoteMask, sent)
          BY Zenon, <1>1, <2>2, <2>7, <5>1, <5>2, <5>3, CampaignStep
        <5> QED BY Zenon, <3>2, <4>1, <5>2, <5>4
      <4>2. CASE ~Election!majorityMask(mask)
        <5>1. o = q
          BY Zenon, <2>1, <3>2, <4>2, Majority
        <5>2. /\ roles' = roles /\ terms' = terms /\ votes' = votes /\ leaders' = leaders
              /\ voteMasks' = voteMasks /\ faults' = faults /\ hards' = hards
          <6>1. /\ o.role = n.role /\ o.term = n.term /\ o.vote = n.vote
                /\ o.leader = n.leader /\ o.voteMask = n.voteMask /\ o.faulted = n.faulted
                /\ o.disk.term = n.disk.term /\ o.disk.vote = n.disk.vote
            BY Zenon, <1>1, <2>1, <5>1
          <6> QED BY ZenonT(60), <1>1, <2>7, <6>1, Unmoved
        <5>3. preVoteMasks' = [preVoteMasks EXCEPT ![i] = mask] /\ seen' = seen
          BY Zenon, <2>3, <2>7, <3>2, <5>1, SeenParts DEF Ends
        <5> QED BY Zenon, <4>2, <5>2, <5>3
      <4> QED BY Zenon, <4>1, <4>2
    <3>5. roles[i] # "Leader" /\ s.term = terms[i] + 1 /\ s.term = preVoteTerms[i]
      BY Zenon, <1>1, <2>0, <2>5 DEF Begins
    <3>6. Election!onPreVoteResponse(i, s)
      BY Zenon, <2>5, <3>1, <3>3, <3>4, <3>5 DEF Election!onPreVoteResponse
    <3>7. PICK b \in BOOLEAN : b = TRUE
      BY Zenon
    <3> QED BY Zenon, <2>6, <3>6, <3>7, StepNext
  <2> QED BY Zenon, <2>4, <2>7 DEF Sound
<1>5. o = n \/ PreVoteCounted(n, o, m, i, Entries)
  BY Zenon, <1>1, <1>2, OnPreVoteResponse
<1> QED BY Zenon, <1>3, <1>4, <1>5

\* o differs from n in role, term, vote and leader at most, and was not stopped.
SameRound(n, o) ==
  /\ o.preVoteTerm = n.preVoteTerm /\ o.preVoteMask = n.preVoteMask
  /\ o.voteMask = n.voteMask /\ o.faulted = n.faulted

\* What a handler of RequestVote, Append or InstallSnapshot writes and sends.
LEMMA AnswerEnds ==
  ASSUME NEW i \in Server, NEW n, Begins(n, i), NEW o, Ends(o, i), Running(o, i),
         SameRound(n, o), NEW r, o.out = {r}
  PROVE  /\ Election!Become(i, o.role, o.leader)
         /\ Election!persistHardState(i, HardOf(o.disk))
         /\ seen' = seen \cup SeenOf({r})
         /\ preVoteTerms' = preVoteTerms /\ preVoteMasks' = preVoteMasks
         /\ voteMasks' = voteMasks /\ faults' = faults
<1>1. Election!Become(i, o.role, o.leader)
  BY Zenon DEF Ends, Election!Become
<1>2. Election!persistHardState(i, HardOf(o.disk))
  BY Zenon, Persisted DEF Running
<1>3. seen' = seen \cup SeenOf({r})
  BY Zenon DEF Ends
<1>4. /\ preVoteTerms' = preVoteTerms /\ preVoteMasks' = preVoteMasks
      /\ voteMasks' = voteMasks /\ faults' = faults
  BY Zenon, Unmoved DEF SameRound
<1> QED BY Zenon, <1>1, <1>2, <1>3, <1>4

\* A failed write after the prologue.
LEMMA FailedEnds ==
  ASSUME NEW i \in Server, NEW n, Begins(n, i), NEW s, NEW p, Observed(n, p, s, i),
         NEW o, Ends(o, i), Failed(p, o)
  PROVE  /\ Election!failStorage(i, Election!HardAfter(i, s))
         /\ preVoteTerms' = preVoteTerms /\ preVoteMasks' = preVoteMasks
         /\ voteMasks' = voteMasks
<1>1. Saved(p) /\ HardOf(p.disk) = Election!HardAfter(i, s)
  BY Zenon DEF Observed, Running
<1>2. Election!failStorage(i, Election!HardAfter(i, s))
  BY Zenon, <1>1, Stopped
<1>3. /\ o.preVoteTerm = n.preVoteTerm /\ o.preVoteMask = n.preVoteMask
      /\ o.voteMask = n.voteMask
  BY Zenon DEF Observed, Failed
<1>4. /\ preVoteTerms' = preVoteTerms /\ preVoteMasks' = preVoteMasks /\ voteMasks' = voteMasks
  BY Zenon, <1>3, Unmoved
<1> QED BY Zenon, <1>2, <1>4

\* A vote is refused, granted, or its write fails (onVote).
LEMMA VoteSound ==
  ASSUME NEW i \in Server, NEW n, NEW m, NEW s, Gets(n, i, m, s), m.type = "RequestVote",
         NEW p, Observed(n, p, s, i), NEW o, o = onVote(p, m)
  PROVE  Sound(o, i)
<1>1. /\ Begins(n, i) /\ n.faulted = FALSE /\ PlainMessage(m, Entries) /\ Shown(m, s)
      /\ m.to = i
  BY Zenon DEF Gets, Travelling
<1>2. /\ Running(p, i) /\ PlainNode(p, i, Entries) /\ p.out = {} /\ p.faulted = FALSE
      /\ Saved(p)
  BY Zenon DEF Observed, Running
<1>3. s.type = "RequestVote" /\ s.from = m.from /\ s.term = m.term
  BY Zenon, <1>1, ShownTypes DEF Shown
<1>4. s \in seen
  <2>1. m.type # "PreVoteResponse"
    OBVIOUS
  <2> QED BY Zenon, <2>1 DEF Gets
<1>5. /\ p.term = Election!TermAfter(i, s) /\ p.vote = Election!VoteAfter(i, s)
      /\ p.role = Election!RoleAfter(i, s) /\ p.leader = Election!LeaderAfter(i, s)
      /\ HardOf(p.disk) = Election!HardAfter(i, s)
  BY Zenon DEF Observed
<1>6. ASSUME NEW r, r.type = "RequestVoteResponse", r.from = i, r.to = m.from,
             r.term = p.term, NEW reject \in BOOLEAN, r.reject = reject
      PROVE  SeenOf({r}) =
               {Election!Msg("RequestVoteResponse", i, s.from, Election!TermAfter(i, s), reject)}
  <2>1. "RequestVoteResponse" = CASE r.type = "InstallSnapshot" -> "Append"
                                  [] r.type = "InstallSnapshotResponse" -> "AppendResponse"
                                  [] OTHER -> r.type
    BY <1>6
  <2>2. r.type # "PreVoteResponse"
    BY <1>6
  <2>3. Pictured(r, "RequestVoteResponse", reject)
    BY Zenon, <1>6, <2>1, <2>2 DEF Pictured
  <2>4. SeenOf({r}) = {Election!Msg("RequestVoteResponse", r.from, r.to, r.term, reject)}
    BY Zenon, <2>3, SeenAnswer
  <2> QED BY Zenon, <1>3, <1>5, <1>6, <2>4
<1>7. CASE VoteRefused(p, o, m, i, Entries)
  <2>1. PICK r : /\ Answered(p, o, r, i, Entries) /\ r.type = "RequestVoteResponse"
                 /\ r.to = m.from /\ r.term = p.term /\ r.reject = TRUE
    BY Zenon, <1>7 DEF VoteRefused
  <2>2. Travelling(r) /\ r.from = i /\ o.out = {r}
    <3>1. r.type # "TimeoutNow"
      BY <2>1
    <3> QED BY Zenon, <1>2, <2>1, <3>1 DEF Answered, Travelling
  <2>3. Running(o, i)
    BY Zenon, <1>2, <2>1, <2>2, AnswerRuns
  <2>4. Settled(o, i)
    BY Zenon, <2>3, RunningSettles
  <2>5. /\ SameRound(n, o) /\ o.role = p.role /\ o.leader = p.leader
        /\ HardOf(o.disk) = HardOf(p.disk)
    BY Zenon, <1>1, <1>2, <2>1
       DEF Answered, SameState, SameMemory, Observed, SameRound, HardOf
  <2>6. ASSUME Ends(o, i)
        PROVE  Implemented
    <3>1. PICK b \in BOOLEAN, reject \in BOOLEAN : b = FALSE /\ reject = TRUE
      BY Zenon
    <3>2. SeenOf({r}) =
            {Election!Msg("RequestVoteResponse", i, s.from, Election!TermAfter(i, s), reject)}
      BY Zenon, <1>6, <2>1, <2>2, <3>1
    <3>3. reject = ~(/\ s.term = Election!TermAfter(i, s)
                     /\ Election!VoteAfter(i, s) \in {Nil, s.from} /\ b)
      BY Zenon, <3>1
    <3>4. /\ Election!Become(i, Election!RoleAfter(i, s), Election!LeaderAfter(i, s))
          /\ Election!persistHardState(i, Election!HardAfter(i, s))
          /\ seen' = seen \cup SeenOf({r})
          /\ preVoteTerms' = preVoteTerms /\ preVoteMasks' = preVoteMasks
          /\ voteMasks' = voteMasks /\ faults' = faults
      <4>1. /\ Election!Become(i, o.role, o.leader)
            /\ Election!persistHardState(i, HardOf(o.disk))
            /\ seen' = seen \cup SeenOf({r})
            /\ preVoteTerms' = preVoteTerms /\ preVoteMasks' = preVoteMasks
            /\ voteMasks' = voteMasks /\ faults' = faults
        BY Zenon, <1>1, <2>2, <2>3, <2>5, <2>6, AnswerEnds
      <4> QED BY Zenon, <1>5, <2>5, <4>1
    <3>5. Election!onVote(i, s, b)
      BY Zenon, <1>3, <3>1, <3>2, <3>3, <3>4 DEF Election!onVote
    <3> QED BY Zenon, <1>4, <3>5, StepNext
  <2> QED BY Zenon, <2>4, <2>6 DEF Sound
<1>8. CASE VoteGranted(p, o, m, i, Entries)
  <2>1. PICK b \in BOOLEAN : b = TRUE
    BY Zenon
  <2>2. s.term = Election!TermAfter(i, s) /\ Election!VoteAfter(i, s) \in {Nil, s.from}
    BY Zenon, <1>3, <1>5, <1>8 DEF VoteGranted
  <2>3. CASE PlainNode(o, i, Entries) /\ Failed(p, o)
    <3>1. Settled(o, i)
      BY Zenon, <1>2, <2>3, FailedSettles
    <3>2. ASSUME Ends(o, i)
          PROVE  Implemented
      <4>1. /\ Election!failStorage(i, Election!HardAfter(i, s))
            /\ preVoteTerms' = preVoteTerms /\ preVoteMasks' = preVoteMasks
            /\ voteMasks' = voteMasks
        BY Zenon, <1>1, <2>3, <3>2, FailedEnds
      <4>2. Election!onVote(i, s, b)
        BY Zenon, <1>3, <2>1, <2>2, <4>1 DEF Election!onVote
      <4> QED BY Zenon, <1>4, <4>2, StepNext
    <3> QED BY Zenon, <3>1, <3>2 DEF Sound
  <2>4. ASSUME NEW r, Voted(p, o, m, r, i, Entries), r.type = "RequestVoteResponse",
               r.from = i, r.to = m.from, r.term = p.term, r.reject = FALSE
        PROVE  Sound(o, i)
    <3>1. Travelling(r) /\ o.out = {r}
      <4>1. r.type # "TimeoutNow"
        BY <2>4
      <4> QED BY Zenon, <1>2, <2>4, <4>1 DEF Voted, Travelling
    <3>2. Running(o, i)
      <4>1. PlainNode(o, i, Entries) /\ Saved(o) /\ o.faulted = FALSE
        BY Zenon, <1>2, <2>4 DEF Voted, Saved
      <4>2. o.preVoteTerm \in 0 .. MaxTerm
        BY Zenon, <1>2, <2>4 DEF Voted, Running
      <4> QED BY Zenon, <3>1, <4>1, <4>2 DEF Running
    <3>3. Settled(o, i)
      BY Zenon, <3>2, RunningSettles
    <3>4. SameRound(n, o) /\ o.role = p.role /\ o.leader = p.leader
      BY Zenon, <1>1, <1>2, <2>4 DEF Voted, Observed, SameRound
    <3>5. HardOf(o.disk) = Election!Hard(s.term, s.from)
      <4>1. o.disk.term = s.term /\ o.disk.vote = s.from
        BY Zenon, <1>3, <1>5, <2>2, <2>4 DEF Voted
      <4> QED BY Zenon, <4>1, HardFields
    <3>6. ASSUME Ends(o, i)
          PROVE  Implemented
      <4>1. PICK reject \in BOOLEAN : reject = FALSE
        BY Zenon
      <4>2. SeenOf({r}) =
              {Election!Msg("RequestVoteResponse", i, s.from, Election!TermAfter(i, s), reject)}
        BY Zenon, <1>6, <2>4, <4>1
      <4>3. reject = ~(/\ s.term = Election!TermAfter(i, s)
                       /\ Election!VoteAfter(i, s) \in {Nil, s.from} /\ b)
        BY Zenon, <2>1, <2>2, <4>1
      <4>4. /\ Election!Become(i, Election!RoleAfter(i, s), Election!LeaderAfter(i, s))
            /\ Election!persistHardState(i, Election!Hard(s.term, s.from))
            /\ seen' = seen \cup SeenOf({r})
            /\ preVoteTerms' = preVoteTerms /\ preVoteMasks' = preVoteMasks
            /\ voteMasks' = voteMasks /\ faults' = faults
        <5>1. /\ Election!Become(i, o.role, o.leader)
              /\ Election!persistHardState(i, HardOf(o.disk))
              /\ seen' = seen \cup SeenOf({r})
              /\ preVoteTerms' = preVoteTerms /\ preVoteMasks' = preVoteMasks
              /\ voteMasks' = voteMasks /\ faults' = faults
          BY Zenon, <1>1, <3>1, <3>2, <3>4, <3>6, AnswerEnds
        <5> QED BY Zenon, <1>5, <3>4, <3>5, <5>1
      <4>5. Election!onVote(i, s, b)
        BY Zenon, <1>3, <2>1, <2>2, <4>2, <4>3, <4>4 DEF Election!onVote
      <4> QED BY Zenon, <1>4, <4>5, StepNext
    <3> QED BY Zenon, <3>3, <3>6 DEF Sound
  <2> QED BY Zenon, <1>8, <2>3, <2>4 DEF VoteGranted
<1>9. VoteRefused(p, o, m, i, Entries) \/ VoteGranted(p, o, m, i, Entries)
  BY Zenon, <1>1, <1>2, OnVote
<1> QED BY Zenon, <1>7, <1>8, <1>9

\* A vote is counted, and a majority makes a leader (onVoteResponse).
LEMMA VoteResponseSound ==
  ASSUME NEW i \in Server, NEW n, NEW m, NEW s, Gets(n, i, m, s),
         m.type = "RequestVoteResponse", NEW o, o = onVoteResponse(n, m)
  PROVE  Sound(o, i)
<1>1. /\ Begins(n, i) /\ n.faulted = FALSE /\ PlainMessage(m, Entries) /\ Shown(m, s)
      /\ m.to = i /\ PlainNode(n, i, Entries) /\ n.out = {} /\ Saved(n)
  BY Zenon DEF Gets, Travelling, Begins
<1>2. Server # {} /\ PlainEntries(Entries)
  BY Zenon, ClusterAssumption, EntriesPlain
<1>3. CASE o = n
  <2>1. Quiet(n, o)
    BY Zenon, <1>3 DEF Quiet, SameState, SameMemory
  <2> QED BY Zenon, <1>1, <1>3, <2>1, IdleSound
<1>4. CASE VoteCounted(n, o, m, i, Entries)
  <2>0. n.role = "Candidate" /\ m.term = n.term /\ ~m.reject
    BY Zenon, <1>4 DEF VoteCounted
  <2>1. PICK q : /\ PlainNode(q, i, Entries)
                 /\ q.role = n.role /\ q.term = n.term /\ q.vote = n.vote /\ q.leader = n.leader
                 /\ q.preVoteTerm = n.preVoteTerm /\ q.preVoteMask = n.preVoteMask
                 /\ q.voteMask = n.voteMask \cup {m.from} /\ q.faulted = FALSE
                 /\ q.disk = n.disk /\ q.out = n.out
                 /\ IF majorityMask(Server, q.voteMask) THEN LedOrFailed(q, o, i, Entries)
                                                        ELSE o = q
    BY Zenon, <1>4 DEF VoteCounted
  <2>2. Running(q, i) /\ q.out = {} /\ Saved(q)
    <3>1. q.preVoteTerm \in 0 .. MaxTerm /\ Saved(q) /\ q.out = {}
      BY Zenon, <1>1, <2>1 DEF Begins, Saved
    <3> QED BY Zenon, <2>1, <3>1 DEF Running
  <2>3. Settled(o, i)
    BY Zenon, <2>1, <2>2, LedSettles, RunningSettles
  <2>4. s.type = "RequestVoteResponse" /\ s.from = m.from /\ s.term = m.term /\ ~s.reject
    BY Zenon, <1>1, <2>0, ShownTypes DEF Shown
  <2>5. s \in seen
    <3>1. m.type # "PreVoteResponse"
      OBVIOUS
    <3> QED BY Zenon, <3>1 DEF Gets
  <2>6. ASSUME Ends(o, i)
        PROVE  Implemented
    <3>1. PICK mask : mask = voteMasks[i] \cup {s.from}
      BY Zenon
    <3>2. q.voteMask = mask /\ hards[i] = HardOf(q.disk)
      BY Zenon, <1>1, <2>1, <2>4, <3>1 DEF Begins
    <3>3. /\ o.preVoteTerm = n.preVoteTerm /\ o.preVoteMask = n.preVoteMask
          /\ o.voteMask = mask
      BY Zenon, <2>1, <3>2 DEF LedOrFailed, Led, Failed
    <3>4. /\ preVoteTerms' = preVoteTerms /\ preVoteMasks' = preVoteMasks
          /\ voteMasks' = [voteMasks EXCEPT ![i] = mask]
      <4>1. preVoteTerms' = preVoteTerms /\ preVoteMasks' = preVoteMasks
        BY Zenon, <1>1, <2>6, <3>3, Unmoved
      <4> QED BY Zenon, <2>6, <3>3, <4>1 DEF Ends
    <3>5. IF Election!majorityMask(mask)
            THEN Election!becomeLeader(i, hards[i], {})
            ELSE UNCHANGED <<roles, terms, votes, leaders, faults, hards, seen>>
      <4>1. CASE Election!majorityMask(mask)
        <5>1. LedOrFailed(q, o, i, Entries)
          BY Zenon, <2>1, <3>2, <4>1, Majority
        <5>2. PICK sent : sent = SeenOf(q.out) /\ sent = {}
          BY Zenon, <2>2, SeenParts
        <5>3. Election!becomeLeader(i, hards[i], sent)
          BY Zenon, <1>1, <2>2, <2>6, <3>2, <5>1, <5>2, LeaderStep
        <5> QED BY Zenon, <4>1, <5>2, <5>3
      <4>2. CASE ~Election!majorityMask(mask)
        <5>1. o = q
          BY Zenon, <2>1, <3>2, <4>2, Majority
        <5>2. /\ o.role = n.role /\ o.term = n.term /\ o.vote = n.vote
              /\ o.leader = n.leader /\ o.faulted = n.faulted
              /\ o.disk.term = n.disk.term /\ o.disk.vote = n.disk.vote
          BY Zenon, <1>1, <2>1, <5>1
        <5>3. /\ roles' = roles /\ terms' = terms /\ votes' = votes /\ leaders' = leaders
              /\ faults' = faults /\ hards' = hards
          BY ZenonT(60), <1>1, <2>6, <5>2, Unmoved
        <5>4. seen' = seen
          BY Zenon, <2>2, <2>6, <5>1, SeenParts DEF Ends
        <5> QED BY Zenon, <4>2, <5>3, <5>4
      <4> QED BY Zenon, <4>1, <4>2
    <3>6. roles[i] = "Candidate" /\ s.term = terms[i]
      BY Zenon, <1>1, <2>0, <2>4 DEF Begins
    <3>7. Election!onVoteResponse(i, s)
      BY Zenon, <2>4, <3>1, <3>4, <3>5, <3>6 DEF Election!onVoteResponse
    <3>8. PICK b \in BOOLEAN : b = TRUE
      BY Zenon
    <3> QED BY Zenon, <2>5, <3>7, <3>8, StepNext
  <2> QED BY Zenon, <2>3, <2>6 DEF Sound
<1>5. o = n \/ VoteCounted(n, o, m, i, Entries)
  BY Zenon, <1>1, <1>2, OnVoteResponse
<1> QED BY Zenon, <1>3, <1>4, <1>5

=============================================================================
