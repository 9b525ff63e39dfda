------------------------- MODULE RaftClusterProofs -------------------------
(****************************************************************************)
(* A cluster whose membership is never changed implements RaftElection, so  *)
(* what is proved of elections holds of the cluster: of nodes with logs,    *)
(* commits, snapshots, reads and restarts.                                  *)
(****************************************************************************)
EXTENDS RaftCallProofs

-----------------------------------------------------------------------------
(***************************************************************************)
(* The other messages.                                                     *)
(***************************************************************************)

\* The leader a follower knows tells it to take over (onTimeoutNow).
LEMMA TimeoutNowSound ==
  ASSUME NEW i \in Server, NEW n, NEW m, NEW s, Gets(n, i, m, s),
         m.type = "TimeoutNow", NEW o, o = onTimeoutNow(n, m)
  PROVE  Sound(o, i)
<1>1. /\ Begins(n, i) /\ n.faulted = FALSE /\ PlainMessage(m, Entries) /\ Shown(m, s)
      /\ m.to = i /\ PlainNode(n, i, Entries) /\ n.out = {} /\ m.term < MaxTerm
  BY Zenon DEF Gets, Travelling, Begins
<1>2. Server # {} /\ PlainEntries(Entries)
  BY Zenon, ClusterAssumption, EntriesPlain
<1>3. CASE o = n
  <2>1. Quiet(n, o)
    BY Zenon, <1>3 DEF Quiet, SameState, SameMemory
  <2> QED BY Zenon, <1>1, <1>3, <2>1, IdleSound
<1>4. CASE TookOver(n, o, m, i, Entries)
  <2>1. /\ n.role = "Follower" /\ m.term = n.term /\ m.from = n.leader
        /\ Campaigned(n, o, i, Entries)
    BY Zenon, <1>4 DEF TookOver
  <2>2. n.term < MaxTerm
    BY Zenon, <1>1, <2>1
  <2>3. Settled(o, i)
    BY Zenon, <1>1, <2>1, BeginsRunning, CampaignSettles
  <2>4. s.type = "TimeoutNow" /\ s.from = m.from /\ s.term = m.term
    BY Zenon, <1>1, ShownTypes DEF Shown
  <2>5. s \in seen
    <3>1. m.type # "PreVoteResponse"
      OBVIOUS
    <3> QED BY Zenon, <3>1 DEF Gets
  <2>6. ASSUME Ends(o, i)
        PROVE  Implemented
    <3>1. PICK sent : sent = SeenOf(n.out) /\ sent = {}
      BY Zenon, <1>1, SeenParts
    <3>2. Prepared(n, n)
      BY Zenon, <1>1 DEF Prepared
    <3>3. Election!startElection(i, n.leader, n.preVoteMask, sent)
      BY Zenon, <1>1, <2>1, <2>2, <2>6, <3>1, <3>2, CampaignStep
    <3>4. Election!startElection(i, leaders[i], preVoteMasks[i], {})
      BY Zenon, <1>1, <3>1, <3>3 DEF Begins
    <3>5. preVoteTerms' = preVoteTerms
      <4>1. o.preVoteTerm = n.preVoteTerm
        BY Zenon, <2>1 DEF Campaigned, Campaigns, LedOrFailed, Led, Failed
      <4> QED BY Zenon, <1>1, <2>6, <4>1, Unmoved
    <3>6. roles[i] = "Follower" /\ s.term = terms[i] /\ s.from = leaders[i]
      BY Zenon, <1>1, <2>1, <2>4 DEF Begins
    <3>7. Election!onTimeoutNow(i, s)
      BY Zenon, <2>4, <3>4, <3>5, <3>6 DEF Election!onTimeoutNow
    <3>8. PICK b \in BOOLEAN : b = TRUE
      BY Zenon
    <3> QED BY Zenon, <2>5, <3>7, <3>8, StepNext
  <2> QED BY Zenon, <2>3, <2>6 DEF Sound
<1>5. o = n \/ TookOver(n, o, m, i, Entries)
  BY Zenon, <1>1, <1>2, OnTimeoutNow
<1> QED BY Zenon, <1>3, <1>4, <1>5

\* An Append or a snapshot is refused, accepted, or a write fails (onAppend,
\* onInstallSnapshot).
LEMMA AppendSound ==
  ASSUME NEW i \in Server, NEW n, NEW m, NEW s, Gets(n, i, m, s),
         m.type \in {"Append", "InstallSnapshot"}, NEW p, Observed(n, p, s, i),
         NEW type \in {"AppendResponse", "InstallSnapshotResponse"}, NEW o,
         Refused(p, o, m, type, i, Entries) \/ Accepted(p, o, m, type, i, Entries)
  PROVE  Sound(o, i)
<1>1. /\ Begins(n, i) /\ n.faulted = FALSE /\ PlainMessage(m, Entries) /\ Shown(m, s)
      /\ m.to = i
  BY Zenon DEF Gets, Travelling
<1>2. /\ Running(p, i) /\ PlainNode(p, i, Entries) /\ p.out = {} /\ p.faulted = FALSE
      /\ Saved(p)
  BY Zenon DEF Observed, Running
<1>3. s.type = "Append" /\ s.from = m.from /\ s.term = m.term
  BY Zenon, <1>1, ShownTypes DEF Shown
<1>4. s \in seen
  <2>1. m.type # "PreVoteResponse"
    OBVIOUS
  <2> QED BY Zenon, <2>1 DEF Gets
<1>5. /\ p.term = Election!TermAfter(i, s) /\ p.vote = Election!VoteAfter(i, s)
      /\ p.role = Election!RoleAfter(i, s) /\ p.leader = Election!LeaderAfter(i, s)
      /\ HardOf(p.disk) = Election!HardAfter(i, s)
  BY Zenon DEF Observed
<1>6. ASSUME NEW r, r.type = type, r.from = i, r.to = m.from, r.term = p.term
      PROVE  SeenOf({r}) =
               {Election!Msg("AppendResponse", i, s.from, Election!TermAfter(i, s), FALSE)}
  <2>1. "AppendResponse" = CASE r.type = "InstallSnapshot" -> "Append"
                             [] r.type = "InstallSnapshotResponse" -> "AppendResponse"
                             [] OTHER -> r.type
    BY <1>6
  <2>2. r.type # "PreVoteResponse" /\ r.type # "RequestVoteResponse"
    BY <1>6
  <2>3. PICK reject \in BOOLEAN : reject = FALSE
    BY Zenon
  <2>4. Pictured(r, "AppendResponse", reject)
    BY Zenon, <2>1, <2>2, <2>3 DEF Pictured
  <2>5. SeenOf({r}) = {Election!Msg("AppendResponse", r.from, r.to, r.term, reject)}
    BY Zenon, <2>4, SeenAnswer
  <2> QED BY Zenon, <1>3, <1>5, <1>6, <2>3, <2>5
<1>7. type # "TimeoutNow"
  OBVIOUS
<1>8. CASE Refused(p, o, m, type, i, Entries)
  <2>1. PICK r : /\ Answered(p, o, r, i, Entries) /\ r.type = type
                 /\ r.to = m.from /\ r.term = p.term
    BY Zenon, <1>8 DEF Refused
  <2>2. Travelling(r) /\ r.from = i /\ o.out = {r}
    BY Zenon, <1>2, <1>7, <2>1 DEF Answered, Travelling
  <2>3. Running(o, i)
    BY Zenon, <1>2, <2>1, <2>2, AnswerRuns
  <2>4. Settled(o, i)
    BY Zenon, <2>3, RunningSettles
  <2>5. /\ SameRound(n, o) /\ o.role = p.role /\ o.leader = p.leader
        /\ HardOf(o.disk) = HardOf(p.disk)
    BY Zenon, <1>1, <1>2, <2>1
       DEF Answered, SameState, SameMemory, Observed, SameRound, HardOf
  <2>6. ASSUME Ends(o, i)
        PROVE  Implemented
    <3>1. PICK b \in BOOLEAN : b = FALSE
      BY Zenon
    <3>2. SeenOf({r}) =
            {Election!Msg("AppendResponse", i, s.from, Election!TermAfter(i, s), FALSE)}
      BY Zenon, <1>6, <2>1, <2>2
    <3>3. /\ Election!Become(i, o.role, o.leader)
          /\ Election!persistHardState(i, HardOf(o.disk))
          /\ seen' = seen \cup SeenOf({r})
          /\ preVoteTerms' = preVoteTerms /\ preVoteMasks' = preVoteMasks
          /\ voteMasks' = voteMasks /\ faults' = faults
      BY Zenon, <1>1, <2>2, <2>3, <2>5, <2>6, AnswerEnds
    <3>4. /\ Election!Become(i, Election!RoleAfter(i, s), Election!LeaderAfter(i, s))
          /\ Election!persistHardState(i, Election!HardAfter(i, s))
      BY Zenon, <1>5, <2>5, <3>3
    <3>5. Election!onAppend(i, s, b)
      BY Zenon, <1>3, <3>1, <3>2, <3>3, <3>4 DEF Election!onAppend
    <3> QED BY Zenon, <1>4, <3>5, StepNext
  <2> QED BY Zenon, <2>4, <2>6 DEF Sound
<1>9. CASE Accepted(p, o, m, type, i, Entries)
  <2>1. PICK b \in BOOLEAN : b = TRUE
    BY Zenon
  <2>2. s.term >= Election!TermAfter(i, s)
    <3>1. ~(m.term < p.term) /\ m.term \in Nat /\ p.term \in Nat
      BY Zenon, <1>1, <1>2, <1>9 DEF Accepted, PlainMessage, PlainNode
    <3>2. m.term >= p.term
      BY <3>1
    <3> QED BY Zenon, <1>3, <1>5, <3>2
  <2>3. CASE PlainNode(o, i, Entries) /\ Failed(p, o)
    <3>1. Settled(o, i)
      BY Zenon, <1>2, <2>3, FailedSettles
    <3>2. ASSUME Ends(o, i)
          PROVE  Implemented
      <4>1. /\ Election!failStorage(i, Election!HardAfter(i, s))
            /\ preVoteTerms' = preVoteTerms /\ preVoteMasks' = preVoteMasks
            /\ voteMasks' = voteMasks
        BY Zenon, <1>1, <2>3, <3>2, FailedEnds
      <4>2. Election!onAppend(i, s, b)
        BY Zenon, <1>3, <2>1, <2>2, <4>1 DEF Election!onAppend
      <4> QED BY Zenon, <1>4, <4>2, StepNext
    <3> QED BY Zenon, <3>1, <3>2 DEF Sound
  <2>4. ASSUME NEW r, Followed(p, o, m, r, i, Entries), r.type = type,
               r.from = i, r.to = m.from, r.term = p.term
        PROVE  Sound(o, i)
    <3>1. Travelling(r) /\ o.out = {r}
      BY Zenon, <1>2, <1>7, <2>4 DEF Followed, Travelling
    <3>2. Running(o, i)
      <4>1. PlainNode(o, i, Entries) /\ Saved(o) /\ o.faulted = FALSE
        BY Zenon, <1>2, <2>4 DEF Followed, Saved
      <4>2. o.preVoteTerm \in 0 .. MaxTerm
        BY Zenon, <1>2, <2>4 DEF Followed, Running
      <4> QED BY Zenon, <3>1, <4>1, <4>2 DEF Running
    <3>3. Settled(o, i)
      BY Zenon, <3>2, RunningSettles
    <3>4. /\ SameRound(n, o) /\ o.role = "Follower" /\ o.leader = s.from
          /\ HardOf(o.disk) = HardOf(p.disk)
      BY Zenon, <1>1, <1>2, <1>3, <2>4 DEF Followed, Observed, SameRound, HardOf
    <3>5. ASSUME Ends(o, i)
          PROVE  Implemented
      <4>1. SeenOf({r}) =
              {Election!Msg("AppendResponse", i, s.from, Election!TermAfter(i, s), FALSE)}
        BY Zenon, <1>6, <2>4
      <4>2. /\ Election!Become(i, o.role, o.leader)
            /\ Election!persistHardState(i, HardOf(o.disk))
            /\ seen' = seen \cup SeenOf({r})
            /\ preVoteTerms' = preVoteTerms /\ preVoteMasks' = preVoteMasks
            /\ voteMasks' = voteMasks /\ faults' = faults
        BY Zenon, <1>1, <3>1, <3>2, <3>4, <3>5, AnswerEnds
      <4>3. /\ Election!Become(i, "Follower", s.from)
            /\ Election!persistHardState(i, Election!HardAfter(i, s))
        BY Zenon, <1>5, <3>4, <4>2
      <4>4. Election!onAppend(i, s, b)
        BY Zenon, <1>3, <2>1, <2>2, <4>1, <4>2, <4>3 DEF Election!onAppend
      <4> QED BY Zenon, <1>4, <4>4, StepNext
    <3> QED BY Zenon, <3>3, <3>5 DEF Sound
  <2> QED BY Zenon, <1>9, <2>3, <2>4 DEF Accepted
<1> QED BY Zenon, <1>8, <1>9

\* An answer to an Append or to a snapshot (onAppendResponse, onInstallSnapshotResponse).
LEMMA AppendResponseSound ==
  ASSUME NEW i \in Server, NEW n, NEW m, NEW s, Gets(n, i, m, s),
         m.type \in {"AppendResponse", "InstallSnapshotResponse"}, NEW o,
         \/ PlainNode(o, i, Entries) /\ Quiet(n, o)
         \/ /\ n.role = "Leader"
            /\ Sent(n, o, i, Entries) \/ (PlainNode(o, i, Entries) /\ Failed(n, o))
  PROVE  Sound(o, i)
<1>1. Begins(n, i) /\ n.faulted = FALSE
  BY Zenon DEF Gets
<1>2. CASE PlainNode(o, i, Entries) /\ Quiet(n, o)
  BY Zenon, <1>1, <1>2, IdleSound
<1>3. CASE n.role = "Leader" /\ Sent(n, o, i, Entries)
  BY Zenon, <1>1, <1>3, SentSound
<1>4. CASE PlainNode(o, i, Entries) /\ Failed(n, o)
  BY Zenon, <1>1, <1>4, FailedSound
<1> QED BY Zenon, <1>2, <1>3, <1>4

\* Which handler a message goes to (Step).
LEMMA Dispatches ==
  ASSUME NEW p, p.faulted = FALSE, NEW m, NEW o, o = Dispatch(p, m)
  PROVE  /\ m.type = "PreVote" => o = onPreVote(p, m)
         /\ m.type = "PreVoteResponse" => o = onPreVoteResponse(p, m)
         /\ m.type = "RequestVote" => o = onVote(p, m)
         /\ m.type = "RequestVoteResponse" => o = onVoteResponse(p, m)
         /\ m.type = "Append" => o = onAppend(p, m)
         /\ m.type = "AppendResponse" => o = onAppendResponse(p, m)
         /\ m.type = "InstallSnapshot" => o = onInstallSnapshot(p, m)
         /\ m.type = "InstallSnapshotResponse" => o = onInstallSnapshotResponse(p, m)
         /\ m.type = "TimeoutNow" => o = onTimeoutNow(p, m)
BY Zenon DEF Dispatch

\* A response that reaches a node in a newer term finds it a follower of nobody, and
\* changes nothing more (Step).
LEMMA NewerQuiet ==
  ASSUME NEW i \in Server, NEW p, Running(p, i), p.role = "Follower", p.leader = Nil,
         NEW m, PlainMessage(m, Entries), m.to = i,
         m.type \in {"RequestVoteResponse", "AppendResponse", "InstallSnapshotResponse",
                     "TimeoutNow"},
         NEW o, o = Dispatch(p, m)
  PROVE  PlainNode(o, i, Entries) /\ Quiet(p, o)
<1>1. PlainNode(p, i, Entries) /\ Saved(p) /\ p.faulted = FALSE
  BY Zenon DEF Running
<1>2. Server # {} /\ PlainEntries(Entries) /\ m.from # Nil
  BY Zenon, ClusterAssumption, EntriesPlain DEF PlainMessage
<1>3. Quiet(p, p)
  BY Zenon DEF Quiet, SameState, SameMemory
<1>4. p.role # "Leader" /\ p.role # "Candidate"
  OBVIOUS
<1>5. CASE m.type = "RequestVoteResponse"
  <2>1. o = onVoteResponse(p, m)
    BY Zenon, <1>1, <1>5, Dispatches
  <2>2. o = p \/ VoteCounted(p, o, m, i, Entries)
    BY Zenon, <1>1, <1>2, <2>1, OnVoteResponse
  <2> QED BY Zenon, <1>1, <1>3, <1>4, <2>2 DEF VoteCounted
<1>6. CASE m.type = "AppendResponse"
  <2>1. o = onAppendResponse(p, m)
    BY Zenon, <1>1, <1>6, Dispatches
  <2>2. \/ PlainNode(o, i, Entries) /\ Quiet(p, o)
        \/ /\ p.role = "Leader"
           /\ Sent(p, o, i, Entries) \/ (PlainNode(o, i, Entries) /\ Failed(p, o))
    BY Zenon, <1>1, <1>2, <1>6, <2>1, OnAppendResponse
  <2> QED BY Zenon, <1>4, <2>2
<1>7. CASE m.type = "InstallSnapshotResponse"
  <2>1. o = onInstallSnapshotResponse(p, m)
    BY Zenon, <1>1, <1>7, Dispatches
  <2>2. \/ PlainNode(o, i, Entries) /\ Quiet(p, o)
        \/ p.role = "Leader" /\ Sent(p, o, i, Entries)
    BY Zenon, <1>1, <1>2, <1>7, <2>1, OnInstallSnapshotResponse
  <2> QED BY Zenon, <1>4, <2>2
<1>8. CASE m.type = "TimeoutNow"
  <2>1. o = onTimeoutNow(p, m)
    BY Zenon, <1>1, <1>8, Dispatches
  <2>2. o = p \/ TookOver(p, o, m, i, Entries)
    BY Zenon, <1>1, <1>2, <2>1, OnTimeoutNow
  <2> QED BY Zenon, <1>1, <1>2, <1>3, <2>2 DEF TookOver
<1> QED BY Zenon, <1>5, <1>6, <1>7, <1>8

\* A message that is received (Step).
LEMMA StepSound ==
  ASSUME NEW i \in Server, NEW n, NEW m, NEW s, Gets(n, i, m, s), NEW o, o = Step(n, m)
  PROVE  Sound(o, i)
<1>1. /\ Begins(n, i) /\ n.faulted = FALSE /\ Travelling(m) /\ PlainMessage(m, Entries)
      /\ Shown(m, s) /\ m.to = i /\ PlainNode(n, i, Entries) /\ Saved(n)
  BY Zenon DEF Gets, Travelling, Begins
<1>2. Server # {} /\ PlainEntries(Entries)
  BY Zenon, ClusterAssumption, EntriesPlain
<1>3. PICK p : p = Observe(n, m)
  BY Zenon
<1>4. o = Dispatch(p, m)
  BY Zenon, <1>3 DEF Step
<1>5. CASE Newer(n, m) /\ PlainNode(p, i, Entries) /\ Failed(n, p)
  <2>1. p.faulted = TRUE
    BY Zenon, <1>5 DEF Failed
  <2>2. o = p
    BY Zenon, <1>4, <2>1 DEF Dispatch
  <2> QED BY Zenon, <1>5, <2>2, NewerFails
<1>6. CASE Entering(n, p, m, s, i)
  <2>0. /\ Observed(n, p, s, i) /\ (~Newer(n, m) => p = n)
        /\ Newer(n, m) => p.role = "Follower" /\ p.leader = Nil
    BY Zenon, <1>6 DEF Entering
  <2>1. /\ Running(p, i) /\ p.faulted = FALSE /\ PlainNode(p, i, Entries) /\ Saved(p)
    BY Zenon, <2>0 DEF Observed, Running
  <2>2. m.type \in {"PreVote", "PreVoteResponse", "RequestVote", "RequestVoteResponse", "Append",
                    "AppendResponse", "InstallSnapshot", "InstallSnapshotResponse", "TimeoutNow"}
    BY Zenon, <1>1 DEF PlainMessage
  <2>3. CASE m.type = "PreVote"
    <3>1. ~Newer(n, m)
      BY Zenon, <2>3 DEF Newer
    <3>2. o = onPreVote(n, m)
      BY Zenon, <1>4, <2>0, <2>1, <2>3, <3>1, Dispatches
    <3> QED BY Zenon, <2>3, <3>2, PreVoteSound
  <2>4. CASE m.type = "PreVoteResponse"
    <3>1. ~Newer(n, m)
      BY Zenon, <2>4 DEF Newer
    <3>2. o = onPreVoteResponse(n, m)
      BY Zenon, <1>4, <2>0, <2>1, <2>4, <3>1, Dispatches
    <3> QED BY Zenon, <2>4, <3>2, PreVoteResponseSound
  <2>5. CASE m.type = "RequestVote"
    <3>1. o = onVote(p, m)
      BY Zenon, <1>4, <2>0, <2>1, <2>5, Dispatches
    <3> QED BY Zenon, <2>0, <2>5, <3>1, VoteSound
  <2>6. CASE m.type = "Append"
    <3>1. o = onAppend(p, m)
      BY Zenon, <1>4, <2>1, <2>6, Dispatches
    <3>2. PICK type \in {"AppendResponse", "InstallSnapshotResponse"} : type = "AppendResponse"
      BY Zenon
    <3>3. \/ Refused(p, o, m, "AppendResponse", i, Entries)
          \/ Accepted(p, o, m, "AppendResponse", i, Entries)
      BY Zenon, <1>1, <1>2, <2>1, <2>6, <3>1, OnAppend
    <3>4. Refused(p, o, m, type, i, Entries) \/ Accepted(p, o, m, type, i, Entries)
      BY Zenon, <3>2, <3>3
    <3> QED BY Zenon, <2>0, <2>6, <3>4, AppendSound
  <2>7. CASE m.type = "InstallSnapshot"
    <3>1. o = onInstallSnapshot(p, m)
      BY Zenon, <1>4, <2>1, <2>7, Dispatches
    <3>2. PICK type \in {"AppendResponse", "InstallSnapshotResponse"} :
            type = "InstallSnapshotResponse"
      BY Zenon
    <3>3. \/ Refused(p, o, m, "InstallSnapshotResponse", i, Entries)
          \/ Accepted(p, o, m, "InstallSnapshotResponse", i, Entries)
      BY Zenon, <1>1, <2>1, <2>7, <3>1, OnInstallSnapshot
    <3>4. Refused(p, o, m, type, i, Entries) \/ Accepted(p, o, m, type, i, Entries)
      BY Zenon, <3>2, <3>3
    <3> QED BY Zenon, <2>0, <2>7, <3>4, AppendSound
  <2>8. CASE /\ Newer(n, m)
             /\ m.type \in {"RequestVoteResponse", "AppendResponse", "InstallSnapshotResponse",
                            "TimeoutNow"}
    <3>1. p.role = "Follower" /\ p.leader = Nil
      BY Zenon, <2>0, <2>8
    <3>2. PlainNode(o, i, Entries) /\ Quiet(p, o)
      BY Zenon, <1>1, <1>4, <2>1, <2>8, <3>1, NewerQuiet
    <3> QED BY Zenon, <2>0, <2>8, <3>1, <3>2, NewerEnters
  <2>9. CASE ~Newer(n, m) /\ m.type = "RequestVoteResponse"
    <3>1. o = onVoteResponse(n, m)
      BY Zenon, <1>4, <2>0, <2>1, <2>9, Dispatches
    <3> QED BY Zenon, <2>9, <3>1, VoteResponseSound
  <2>10. CASE ~Newer(n, m) /\ m.type = "AppendResponse"
    <3>1. o = onAppendResponse(n, m)
      BY Zenon, <1>4, <2>0, <2>1, <2>10, Dispatches
    <3>2. \/ PlainNode(o, i, Entries) /\ Quiet(n, o)
          \/ /\ n.role = "Leader"
             /\ Sent(n, o, i, Entries) \/ (PlainNode(o, i, Entries) /\ Failed(n, o))
      BY Zenon, <1>1, <1>2, <2>10, <3>1, OnAppendResponse
    <3> QED BY Zenon, <2>10, <3>2, AppendResponseSound
  <2>11. CASE ~Newer(n, m) /\ m.type = "InstallSnapshotResponse"
    <3>1. o = onInstallSnapshotResponse(n, m)
      BY Zenon, <1>4, <2>0, <2>1, <2>11, Dispatches
    <3>2. \/ PlainNode(o, i, Entries) /\ Quiet(n, o)
          \/ n.role = "Leader" /\ Sent(n, o, i, Entries)
      BY Zenon, <1>1, <1>2, <2>11, <3>1, OnInstallSnapshotResponse
    <3> QED BY Zenon, <2>11, <3>2, AppendResponseSound
  <2>12. CASE ~Newer(n, m) /\ m.type = "TimeoutNow"
    <3>1. o = onTimeoutNow(n, m)
      BY Zenon, <1>4, <2>0, <2>1, <2>12, Dispatches
    <3> QED BY Zenon, <2>12, <3>1, TimeoutNowSound
  <2> QED BY Zenon, <2>2, <2>3, <2>4, <2>5, <2>6, <2>7, <2>8, <2>9, <2>10, <2>11, <2>12
<1>7. \/ Newer(n, m) /\ PlainNode(p, i, Entries) /\ Failed(n, p)
      \/ Entering(n, p, m, s, i)
  BY Zenon, <1>1, <1>3, ObserveStep
<1> QED BY Zenon, <1>5, <1>6, <1>7

-----------------------------------------------------------------------------
(***************************************************************************)
(* The actions of the cluster.                                             *)
(***************************************************************************)

\* Some node runs a call that is sound.
Called == \E i \in Server : \E o : Run(i, o) /\ Sound(o, i) /\ UNCHANGED scene

\* A call that is sound is an election step or none, and keeps the invariant.
LEMMA CalledSound ==
  ASSUME ClusterInv, Called
  PROVE  Implemented /\ ClusterInv'
<1>1. PICK i, o : i \in Server /\ Run(i, o) /\ Sound(o, i) /\ UNCHANGED scene
  BY Zenon DEF Called
<1>2. Settled(o, i) /\ PlainNode(o, i, Entries)
  BY Zenon, <1>1 DEF Sound, Settled
<1>3. Implemented
  BY Zenon, <1>1, <1>2, CallEnds DEF Sound
<1>4. PICK p : p = [o EXCEPT !.out = {}, !.io = 0]
  BY Zenon
<1>5. DOMAIN o = Fields /\ DOMAIN node = Server
  BY Zenon, <1>2 DEF PlainNode, ClusterInv
<1>6. /\ p.role = o.role /\ p.term = o.term /\ p.vote = o.vote
      /\ p.preVoteTerm = o.preVoteTerm /\ p.faulted = o.faulted /\ p.disk = o.disk /\ p.out = {}
  BY <1>4, <1>5 DEF Fields
<1>7. PlainNode(p, i, Entries)
  BY <1>2, <1>4, <1>5 DEF PlainNode, Fields
<1>8. Resting(p, i)
  BY Zenon, <1>2, <1>6, <1>7 DEF Resting, Settled, Saved
<1>9. node' = [node EXCEPT ![i] = p] /\ net' = net \cup o.out
  BY Zenon, <1>1, <1>4 DEF Run
<1>10. DOMAIN node' = Server /\ node'[i] = p /\ \A j \in Server : j # i => node'[j] = node[j]
  BY Zenon, <1>1, <1>5, <1>9
<1>11. \A j \in Server : Resting(node'[j], j)
  BY Zenon, <1>8, <1>10 DEF ClusterInv
<1>12. \A m \in net' : Travelling(m)
  BY Zenon, <1>2, <1>9 DEF ClusterInv, Settled
<1>13. scene' \in Scenario
  BY Zenon, <1>1 DEF ClusterInv
<1>14. ClusterInv'
  BY Zenon, <1>10, <1>11, <1>12, <1>13 DEF ClusterInv
<1> QED BY Zenon, <1>3, <1>14

\* A scenario stays below MaxTerm.
LEMMA SceneBounds ==
  ASSUME ClusterInv, NEW t \in Nat, t < scene.maxTerm
  PROVE  t < MaxTerm
<1>1. scene.maxTerm \in 0 .. MaxTerm /\ MaxTerm \in Nat
  BY Zenon, ClusterAssumption DEF ClusterInv, IsScenario
<1> QED BY <1>1

\* A node that has not failed, or that leads.
LEMMA Healthy ==
  ASSUME ClusterInv, NEW i \in Server, ~node[i].faulted \/ node[i].role = "Leader"
  PROVE  node[i].faulted = FALSE
<1>1. node[i].faulted \in BOOLEAN /\ (node[i].faulted => node[i].role = "Follower")
  BY Zenon DEF ClusterInv, Resting
<1>2. node[i].role = "Leader" => node[i].role # "Follower"
  OBVIOUS
<1> QED BY Zenon, <1>1, <1>2

\* A timer fires (Tick).
LEMMA TickSound ==
  ASSUME ClusterInv, NEW i \in Server, TickAction(i)
  PROVE  Called
<1>1. PICK w, n, o : n = With(i, w) /\ o = Tick(n) /\ Run(i, o)
  BY Zenon DEF TickAction
<1>2. Begins(n, i) /\ n.faulted = FALSE /\ n.role = node[i].role /\ n.term = node[i].term
  <2>1. n = [node[i] EXCEPT !.io = w]
    BY Zenon, <1>1 DEF With
  <2>2. Begins(n, i) /\ n.faulted = node[i].faulted
    BY Zenon, <2>1, CallBegins
  <2>3. ~node[i].faulted
    BY Zenon DEF TickAction
  <2>4. node[i].faulted = FALSE
    BY Zenon, <2>3, Healthy
  <2>5. DOMAIN node[i] = Fields
    BY Zenon DEF ClusterInv, Resting, PlainNode
  <2>6. n.role = node[i].role /\ n.term = node[i].term
    BY <2>1, <2>5 DEF Fields
  <2> QED BY Zenon, <2>2, <2>4, <2>6
<1>3. /\ PlainNode(n, i, Entries) /\ PlainEntries(Entries) /\ Server # {} /\ n.term \in Nat
  BY Zenon, <1>2, EntriesPlain, ClusterAssumption DEF Begins, PlainNode
<1>4. CASE n.role = "Leader"
  <2>1. o = broadcastAppend(n)
    BY Zenon, <1>1, <1>4 DEF Tick
  <2>2. Replicated(n, o, i, Server \ {i}, Entries)
    BY Zenon, <1>3, <2>1, Broadcasts
  <2>3. Sent(n, o, i, Entries)
    BY Zenon, <2>2 DEF Sent
  <2> QED BY Zenon, <1>1, <1>2, <1>4, <2>3, SentSound DEF Called, TickAction
<1>5. CASE n.role # "Leader"
  <2>1. o = startPreVote(n)
    BY Zenon, <1>1, <1>5 DEF Tick
  <2>2. n.faulted = FALSE
    BY Zenon, <1>2
  <2>3. PreVoteStarted(n, o, i, Entries)
    BY Zenon, <1>3, <2>1, <2>2, StartsPreVote
  <2>4. PICK q : /\ Canvasses(n, q, i, Entries)
                 /\ IF majorityMask(Server, {i}) THEN Campaigned(q, o, i, Entries) ELSE o = q
    BY Zenon, <2>3 DEF PreVoteStarted
  <2>5. n.term < MaxTerm
    <3>1. n.term < scene.maxTerm
      BY Zenon, <1>2, <1>5 DEF TickAction
    <3> QED BY Zenon, <1>3, <3>1, SceneBounds
  <2>6. Settled(o, i)
    <3>1. Running(n, i)
      BY Zenon, <1>2, BeginsRunning
    <3> QED BY Zenon, <2>4, <2>5, <3>1, CanvassSettles
  <2>7. ASSUME Ends(o, i)
        PROVE  Implemented
    BY Zenon, <1>2, <1>5, <2>4, <2>5, <2>7, CanvassStep DEF Implemented
  <2> QED BY Zenon, <1>1, <2>6, <2>7 DEF Called, Sound, TickAction
<1> QED BY Zenon, <1>4, <1>5

\* A message is received (Step).
LEMMA DeliverSound ==
  ASSUME ClusterInv, NEW m \in net, Deliver(m)
  PROVE  Called
<1>1. Travelling(m) /\ m.to \in Server
  BY Zenon DEF ClusterInv, Travelling, PlainMessage
<1>2. PICK i \in Server : i = m.to
  BY Zenon, <1>1
<1>3. PICK w, n, o : n = With(i, w) /\ o = Step(n, m) /\ Run(i, o)
  BY Zenon, <1>2 DEF Deliver
<1>4. Begins(n, i) /\ n.faulted = FALSE
  <2>1. n = [node[i] EXCEPT !.io = w]
    BY Zenon, <1>3 DEF With
  <2>2. Begins(n, i) /\ n.faulted = node[i].faulted
    BY Zenon, <2>1, CallBegins
  <2>3. ~node[i].faulted
    BY Zenon, <1>2 DEF Deliver
  <2>4. node[i].faulted = FALSE
    BY Zenon, <2>3, Healthy
  <2> QED BY Zenon, <2>2, <2>4
<1>5. PICK s : Shown(m, s)
  BY Zenon, Shows
<1>6. s \in seen \/ (m.type = "PreVoteResponse" /\ m.reject)
  BY Zenon, <1>5 DEF Shown, seen, SeenOf
<1>7. Gets(n, i, m, s)
  BY Zenon, <1>1, <1>2, <1>4, <1>5, <1>6 DEF Gets
<1>8. Sound(o, i)
  BY Zenon, <1>3, <1>7, StepSound
<1> QED BY Zenon, <1>3, <1>8 DEF Called, Deliver

\* A command is proposed (Propose).
LEMMA ProposeSound ==
  ASSUME ClusterInv, NEW i \in Server, ProposeAction(i)
  PROVE  Called
<1>1. PICK w, v, n, o : /\ v \in scene.values /\ n = With(i, w)
                        /\ o = Propose(n, v) /\ Run(i, o)
  BY Zenon DEF ProposeAction
<1>2. n = [node[i] EXCEPT !.io = w]
  BY Zenon, <1>1 DEF With
<1>3. Begins(n, i) /\ n.faulted = node[i].faulted
  BY Zenon, <1>2, CallBegins
<1>4. node[i].role = "Leader"
  BY Zenon DEF ProposeAction, CanPropose
<1>5. node[i].faulted = FALSE
  BY Zenon, <1>4, Healthy
<1>6. n.role = "Leader"
  <2>1. DOMAIN node[i] = Fields
    BY Zenon DEF ClusterInv, Resting, PlainNode
  <2> QED BY <1>2, <1>4, <2>1 DEF Fields
<1>7. /\ PlainNode(n, i, Entries) /\ PlainEntries(Entries) /\ Server # {} /\ n.term \in Nat
      /\ Saved(n) /\ n.faulted = FALSE
  BY Zenon, <1>3, <1>5, EntriesPlain, ClusterAssumption DEF Begins, PlainNode
<1>8. Normal(n.term, v) \in Entries
  <2>1. v \in UNION {s.values : s \in Scenario}
    BY Zenon, <1>1 DEF ClusterInv
  <2> QED BY <1>7, <2>1 DEF Entries, Normal, NewEntry
<1>9. Sent(n, o, i, Entries) \/ (PlainNode(o, i, Entries) /\ Failed(n, o))
  BY Zenon, <1>1, <1>7, <1>8, Proposes
<1>10. Sound(o, i)
  BY Zenon, <1>3, <1>6, <1>7, <1>9, SentSound, FailedSound
<1> QED BY Zenon, <1>1, <1>10 DEF Called, ProposeAction

\* The voters of a cluster never change unless somebody asks for others (ProposeJoint,
\* ProposeFinal).
LEMMA NoChange ==
  ASSUME ClusterInv, scene.configs = {}, NEW i \in Server
  PROVE  ~ProposeJointAction(i) /\ ~ProposeFinalAction(i)
<1>1. ~ProposeJointAction(i)
  BY Zenon DEF ProposeJointAction
<1>2. node[i].votersNew = {}
  BY Zenon DEF ClusterInv, Resting, PlainNode
<1>3. ~ProposeFinalAction(i)
  BY Zenon, <1>2 DEF ProposeFinalAction, CanProposeFinal
<1> QED BY Zenon, <1>1, <1>3

\* A leader that makes a call.
LEMMA LeaderBegins ==
  ASSUME ClusterInv, NEW i \in Server, node[i].role = "Leader"
  PROVE  /\ Begins(node[i], i) /\ node[i].faulted = FALSE
         /\ PlainNode(node[i], i, Entries) /\ PlainEntries(Entries) /\ node[i].term \in Nat
<1>1. node[i].faulted = FALSE
  BY Zenon, Healthy
<1>2. Begins(node[i], i)
  BY Zenon, CallBegins
<1> QED BY Zenon, <1>1, <1>2, EntriesPlain DEF Begins, PlainNode

\* A leader hands over to another voter (TransferLeadership).
LEMMA TransferSound ==
  ASSUME ClusterInv, NEW i \in Server, NEW target \in Server, TransferAction(i, target)
  PROVE  Called
<1>1. PICK n, o : n = node[i] /\ o = TransferLeadership(n, target) /\ Run(i, o)
  BY Zenon DEF TransferAction
<1>2. n.role = "Leader" /\ target # n.id
  BY Zenon, <1>1 DEF TransferAction, CanTransfer
<1>3. /\ Begins(n, i) /\ n.faulted = FALSE
      /\ PlainNode(n, i, Entries) /\ PlainEntries(Entries) /\ n.term \in Nat
  BY Zenon, <1>1, <1>2, LeaderBegins
<1>4. target # i
  BY Zenon, <1>2, <1>3 DEF PlainNode
<1>5. Sent(n, o, i, Entries) \/ Nudged(n, o, target, i, Entries)
  BY Zenon, <1>1, <1>3, <1>4, Transfers
<1>6. CASE Sent(n, o, i, Entries)
  <2>1. Sound(o, i)
    BY Zenon, <1>2, <1>3, <1>6, SentSound
  <2> QED BY Zenon, <1>1, <2>1 DEF Called, TransferAction
<1>7. CASE Nudged(n, o, target, i, Entries)
  <2>1. PICK r : /\ Answered(n, o, r, i, Entries) /\ r.type = "TimeoutNow" /\ r.to = target
                 /\ r.term = n.term
    BY Zenon, <1>7 DEF Nudged
  <2>2. n.term < MaxTerm
    <3>1. n.term < scene.maxTerm
      BY Zenon, <1>1 DEF TransferAction
    <3> QED BY Zenon, <1>3, <3>1, SceneBounds
  <2>3. Travelling(r) /\ o.out = {r}
    BY Zenon, <1>3, <2>1, <2>2 DEF Answered, Travelling, Begins
  <2>4. Settled(o, i)
    <3>1. PlainNode(o, i, Entries) /\ SameState(n, o)
      BY Zenon, <2>1 DEF Answered
    <3>2. o.faulted = FALSE /\ o.preVoteTerm = n.preVoteTerm /\ Saved(o)
      BY Zenon, <1>3, <3>1 DEF SameState, SameMemory, Saved, Begins
    <3>3. Running(o, i)
      BY Zenon, <1>3, <2>3, <3>1, <3>2 DEF Running, Begins
    <3> QED BY Zenon, <3>3, RunningSettles
  <2>5. ASSUME Ends(o, i)
        PROVE  Implemented
    <3>1. /\ roles' = roles /\ terms' = terms /\ votes' = votes /\ leaders' = leaders
          /\ preVoteTerms' = preVoteTerms /\ preVoteMasks' = preVoteMasks
          /\ voteMasks' = voteMasks /\ faults' = faults /\ hards' = hards
      BY ZenonT(60), <1>3, <2>1, <2>5, Unmoved DEF Answered, SameState, SameMemory
    <3>2. PICK type, reject : type = "TimeoutNow" /\ reject = FALSE
      BY Zenon
    <3>3. reject \in BOOLEAN
      BY Zenon, <3>2
    <3>4. Pictured(r, type, reject)
      BY Zenon, <2>1, <3>2 DEF Pictured
    <3>5. SeenOf({r}) = {Election!Msg(type, r.from, r.to, r.term, reject)}
      BY Zenon, <3>3, <3>4, SeenAnswer
    <3>6. seen' = seen \cup {Election!Msg("TimeoutNow", i, target, terms[i], FALSE)}
      BY Zenon, <1>3, <2>1, <2>3, <2>5, <3>2, <3>5 DEF Ends, Answered, Begins
    <3>7. ~faults[i] /\ roles[i] = "Leader" /\ target \in Election!Peers(i)
      BY Zenon, <1>2, <1>3, <1>4 DEF Begins, Election!Peers
    <3>8. Election!TransferLeadership(i, target)
      BY Zenon, <3>1, <3>6, <3>7 DEF Election!TransferLeadership, Election!volatile
    <3> QED BY Zenon, <3>8 DEF Implemented, Election!Next
  <2> QED BY Zenon, <1>1, <2>4, <2>5 DEF Called, Sound, TransferAction
<1> QED BY Zenon, <1>5, <1>6, <1>7

\* A leader asks its peers to confirm a read (StartReadIndex).
LEMMA ReadSound ==
  ASSUME ClusterInv, NEW i \in Server, NEW c, ReadAction(i, c)
  PROVE  Called
<1>1. PICK n, o : n = node[i] /\ o = StartReadIndex(n, c) /\ Run(i, o)
  BY Zenon DEF ReadAction
<1>2. n.role = "Leader"
  BY Zenon, <1>1 DEF ReadAction, CanStartReadIndex
<1>3. Begins(n, i) /\ n.faulted = FALSE /\ PlainNode(n, i, Entries) /\ PlainEntries(Entries)
  BY Zenon, <1>1, <1>2, LeaderBegins
<1>4. Sent(n, o, i, Entries)
  BY Zenon, <1>1, <1>3, StartsRead
<1>5. Sound(o, i)
  BY Zenon, <1>2, <1>3, <1>4, SentSound
<1> QED BY Zenon, <1>1, <1>5 DEF Called, ReadAction

\* Committed entries are applied, by a failed node too (ApplyEntries).
LEMMA ApplySound ==
  ASSUME ClusterInv, NEW i \in Server, Apply(i)
  PROVE  Called
<1>1. PICK n, o : n = node[i] /\ o = ApplyEntries(n) /\ Run(i, o)
  BY Zenon DEF Apply
<1>2. Begins(n, i) /\ Resting(n, i) /\ PlainNode(n, i, Entries)
  BY Zenon, <1>1, CallBegins DEF ClusterInv, Resting
<1>3. PlainNode(o, i, Entries) /\ Quiet(n, o)
  BY Zenon, <1>1, <1>2, Applies
<1>4. Settled(o, i)
  BY Zenon, <1>2, <1>3 DEF Settled, Resting, Saved, Quiet, SameState, SameMemory
<1>5. Sound(o, i)
  BY Zenon, <1>2, <1>3, <1>4, QuietStep DEF Sound, Implemented
<1> QED BY Zenon, <1>1, <1>5 DEF Called, Apply

\* A log is compacted into a snapshot (Compact).
LEMMA CompactSound ==
  ASSUME ClusterInv, NEW i \in Server, CompactAction(i)
  PROVE  Called
<1>1. PICK w, n, k, state, o : /\ n = With(i, w) /\ k = node[i].applied /\ state = <<>>
                               /\ o = Compact(n, k, state) /\ Run(i, o)
  BY Zenon DEF CompactAction
<1>2. n = [node[i] EXCEPT !.io = w]
  BY Zenon, <1>1 DEF With
<1>3. ~node[i].faulted /\ node[i].applied = node[i].commit
  BY Zenon DEF CompactAction
<1>4. Begins(n, i) /\ n.faulted = FALSE
  BY Zenon, <1>2, <1>3, CallBegins, Healthy
<1>5. PlainNode(node[i], i, Entries) /\ PlainNode(n, i, Entries)
  BY Zenon, <1>4 DEF ClusterInv, Resting, Begins
<1>6. n.commit = node[i].commit
  BY <1>2, <1>5 DEF PlainNode, Fields
<1>7. k \in Nat /\ k <= n.commit
  <2>1. k = n.commit /\ n.commit \in Nat
    BY Zenon, <1>1, <1>3, <1>5, <1>6 DEF PlainNode
  <2> QED BY <2>1
<1>8. PlainNode(o, i, Entries) /\ (Failed(n, o) \/ Quiet(n, o))
  BY Zenon, <1>1, <1>4, <1>5, <1>7, Compacts
<1>9. Sound(o, i)
  BY Zenon, <1>4, <1>8, IdleSound, FailedSound
<1> QED BY Zenon, <1>1, <1>9 DEF Called, CompactAction

\* A node crashes and is built again from its disk (NewRecoveredNodeWithSnapshot).
LEMMA RestartSound ==
  ASSUME ClusterInv, NEW i \in Server, Restart(i)
  PROVE  Called
<1>1. PICK n, d, o : /\ n = node[i] /\ d = n.disk
                     /\ o = NewRecoveredNode(i, d) /\ Run(i, o)
  BY Zenon DEF Restart
<1>2. Begins(n, i) /\ PlainDisk(d, Entries)
  <2>1. Begins(n, i)
    BY Zenon, <1>1, CallBegins
  <2> QED BY Zenon, <1>1, <2>1 DEF Begins, PlainNode
<1>3. Recovered(o, d, i, Entries)
  BY Zenon, <1>1, <1>2, EntriesPlain, Recovers
<1>4. Settled(o, i)
  <2>1. 0 \in 0 .. MaxTerm
    BY ClusterAssumption
  <2>2. PlainNode(o, i, Entries) /\ Saved(o)
    BY Zenon, <1>3 DEF Recovered, Saved
  <2> QED BY Zenon, <1>3, <2>1, <2>2 DEF Settled, Recovered
<1>5. ASSUME Ends(o, i)
      PROVE  Implemented
  <2>1. HardOf(o.disk) = hards[i] /\ o.term = hards[i].term /\ o.vote = hards[i].vote
    <3>1. hards[i] = HardOf(d) /\ HardOf(d).term = d.term /\ HardOf(d).vote = d.vote
      BY <1>1, <1>2 DEF Begins, HardOf
    <3>2. o.disk.term = d.term /\ o.disk.vote = d.vote /\ o.term = d.term /\ o.vote = d.vote
      BY Zenon, <1>3 DEF Recovered
    <3> QED BY Zenon, <3>1, <3>2 DEF HardOf
  <2>2. Election!Become(i, "Follower", Nil)
    BY Zenon, <1>3, <1>5 DEF Recovered, Ends, Election!Become
  <2>3. Election!persistHardState(i, hards[i])
    BY Zenon, <1>5, <2>1 DEF Ends, Election!persistHardState
  <2>4. seen' = seen
    BY Zenon, <1>3, <1>5, SeenParts DEF Ends, Recovered
  <2>5. /\ preVoteTerms' = [preVoteTerms EXCEPT ![i] = 0]
        /\ preVoteMasks' = [preVoteMasks EXCEPT ![i] = {}]
        /\ voteMasks' = [voteMasks EXCEPT ![i] = {}]
        /\ \E refused \in BOOLEAN : faults' = [faults EXCEPT ![i] = refused]
    BY Zenon, <1>3, <1>5 DEF Recovered, Ends
  <2>6. Election!NewRecoveredNode(i)
    BY Zenon, <2>2, <2>3, <2>4, <2>5 DEF Election!NewRecoveredNode
  <2> QED BY Zenon, <2>6 DEF Implemented, Election!Next
<1> QED BY Zenon, <1>1, <1>4, <1>5 DEF Called, Sound, Restart

-----------------------------------------------------------------------------
(***************************************************************************)
(* The refinement.                                                         *)
(***************************************************************************)

\* Every step of a cluster whose membership is never changed is a sound call.
LEMMA NextCalls ==
  ASSUME ClusterInv, scene.configs = {}, Next
  PROVE  Called
<1>1. ASSUME NEW i \in Server, TickAction(i)
      PROVE  Called
  BY Zenon, <1>1, TickSound
<1>2. ASSUME NEW i \in Server, ProposeAction(i)
      PROVE  Called
  BY Zenon, <1>2, ProposeSound
<1>3. ASSUME NEW i \in Server, ProposeJointAction(i) \/ ProposeFinalAction(i)
      PROVE  Called
  BY Zenon, <1>3, NoChange
<1>4. ASSUME NEW i \in Server, NEW target \in Server, TransferAction(i, target)
      PROVE  Called
  BY Zenon, <1>4, TransferSound
<1>5. ASSUME NEW i \in Server, NEW c \in scene.contexts, ReadAction(i, c)
      PROVE  Called
  BY Zenon, <1>5, ReadSound
<1>6. ASSUME NEW i \in Server, Apply(i)
      PROVE  Called
  BY Zenon, <1>6, ApplySound
<1>7. ASSUME NEW i \in Server, CompactAction(i)
      PROVE  Called
  BY Zenon, <1>7, CompactSound
<1>8. ASSUME NEW i \in Server, Restart(i)
      PROVE  Called
  BY Zenon, <1>8, RestartSound
<1>9. ASSUME NEW m \in net, Deliver(m)
      PROVE  Called
  BY Zenon, <1>9, DeliverSound
<1> QED BY Zenon, <1>1, <1>2, <1>3, <1>4, <1>5, <1>6, <1>7, <1>8, <1>9 DEF Next

\* Nothing leaves its scenario.
LEMMA SceneKept ==
  ASSUME [Next]_vars
  PROVE  scene' = scene
BY Zenon DEF Next, vars, TickAction, Deliver, ProposeAction, ProposeJointAction,
  ProposeFinalAction, TransferAction, ReadAction, Apply, CompactAction, Restart

\* New nodes are at rest (NewNodeWithStore).
LEMMA InitInv ==
  ASSUME Init
  PROVE  ClusterInv
<1>1. ASSUME NEW i \in Server
      PROVE  Resting(node[i], i)
  <2>1. PICK n : n = NewNodeWithStore(i, EmptyDisk)
    BY Zenon
  <2>2. n.disk = EmptyDisk /\ DOMAIN n = Fields
    BY <2>1 DEF NewNodeWithStore, Fields
  <2>3. PlainSnapshot(NoSnapshot)
    BY DEF PlainSnapshot, NoSnapshot
  <2>4. PlainDisk(EmptyDisk, Entries)
    BY <2>3 DEF PlainDisk, DiskFields, EmptyDisk
  <2>5. /\ n.id = i /\ n.peers = Server \ {i} /\ n.term = 0 /\ n.vote = Nil
        /\ n.log = <<>> /\ n.base = 0 /\ n.commit = 0 /\ n.next = [p \in Server |-> 0]
        /\ n.votersOld = Server /\ n.votersNew = {} /\ n.pendingConfig = 0
        /\ n.snapshot = NoSnapshot /\ n.out = {} /\ n.faulted = FALSE /\ n.preVoteTerm = 0
    BY <2>1 DEF NewNodeWithStore
  <2>6. n.next \in [Server -> Nat] /\ n.log \in Seq(Entries)
    BY <2>5
  <2>7. PlainNode(n, i, Entries)
    BY <2>2, <2>3, <2>4, <2>5, <2>6 DEF PlainNode
  <2>8. Saved(n)
    BY <2>2, <2>5 DEF Saved, EmptyDisk
  <2>9. 0 \in 0 .. MaxTerm
    BY ClusterAssumption
  <2>10. Resting(n, i)
    BY Zenon, <2>5, <2>7, <2>8, <2>9 DEF Resting
  <2> QED BY Zenon, <2>1, <2>10 DEF Init
<1> QED BY Zenon, <1>1 DEF Init, ClusterInv

\* What a step of the cluster does to the invariant and to elections.
LEMMA StepImplements ==
  ASSUME ClusterInv, scene.configs = {}, [Next]_vars
  PROVE  ClusterInv' /\ [Election!Next]_(Election!vars)
<1>1. CASE Next
  <2>1. Called
    BY Zenon, <1>1, NextCalls
  <2>2. Implemented /\ ClusterInv'
    BY Zenon, <2>1, CalledSound
  <2> QED BY Zenon, <2>2 DEF Implemented
<1>2. CASE UNCHANGED vars
  <2>1. node' = node /\ net' = net /\ scene' = scene
    BY Zenon, <1>2 DEF vars
  <2>2. ClusterInv'
    BY Zenon, <2>1 DEF ClusterInv
  <2>3. UNCHANGED Election!vars
    BY Zenon, <2>1 DEF Election!vars, Election!volatile, roles, terms, votes, leaders,
      preVoteTerms, preVoteMasks, voteMasks, faults, hards, seen
  <2> QED BY Zenon, <2>2, <2>3
<1> QED BY Zenon, <1>1, <1>2

\* As long as no membership change may be asked for, every node's term and vote in
\* memory are those on its disk, a failed node follows, and no entry, message, snapshot
\* or disk holds a membership change (persistHardState, failStorage, NewRecoveredNode).
THEOREM ClusterInvariant == Spec => [](scene.configs = {} => ClusterInv)
<1> DEFINE Inv == scene.configs = {} => ClusterInv
<1>1. Init => Inv
  BY Zenon, InitInv
<1>2. Inv /\ [Next]_vars => Inv'
  <2>1. ASSUME Inv, [Next]_vars, (scene.configs = {})'
        PROVE  ClusterInv'
    <3>1. scene.configs = {}
      BY Zenon, <2>1, SceneKept
    <3> QED BY Zenon, <2>1, <3>1, StepImplements
  <2> QED BY Zenon, <2>1
<1> QED BY <1>1, <1>2, PTL DEF Spec

\* As long as no membership change may be asked for, every call into a node is a step of
\* RaftElection or leaves the election state alone (every method of Node).
THEOREM ClusterImplementsElection == Spec => ImplementsElection
<1> DEFINE Inv == scene.configs = {} => ClusterInv
           Step1 == scene.configs = {} => [Election!Next]_(Election!vars)
<1>1. Spec => []Inv
  BY ClusterInvariant
<1>2. Inv /\ [Next]_vars => [Step1]_vars
  BY Zenon, StepImplements
<1> QED BY <1>1, <1>2, PTL DEF Spec, ImplementsElection

\* New nodes start an election's behaviour.
LEMMA InitElection ==
  ASSUME Init
  PROVE  Election!Init
<1>1. ASSUME NEW i \in Server
      PROVE  /\ node[i].role = "Follower" /\ node[i].term = 0 /\ node[i].vote = Nil
             /\ node[i].leader = Nil /\ node[i].preVoteTerm = 0 /\ node[i].preVoteMask = {}
             /\ node[i].voteMask = {} /\ node[i].faulted = FALSE
             /\ HardOf(node[i].disk) = Election!Hard(0, Nil)
  <2>1. node[i] = NewNodeWithStore(i, EmptyDisk)
    BY Zenon DEF Init
  <2> QED BY <2>1 DEF NewNodeWithStore, EmptyDisk, HardOf, Election!Hard
<1>2. seen = {}
  BY DEF Init, seen, SeenOf
<1>3. /\ roles = [i \in Server |-> "Follower"] /\ terms = [i \in Server |-> 0]
      /\ votes = [i \in Server |-> Nil] /\ leaders = [i \in Server |-> Nil]
  BY Zenon, <1>1 DEF roles, terms, votes, leaders
<1>4. /\ preVoteTerms = [i \in Server |-> 0] /\ preVoteMasks = [i \in Server |-> {}]
      /\ voteMasks = [i \in Server |-> {}] /\ faults = [i \in Server |-> FALSE]
      /\ hards = [i \in Server |-> Election!Hard(0, Nil)]
  BY Zenon, <1>1 DEF preVoteTerms, preVoteMasks, voteMasks, faults, hards
<1> QED BY Zenon, <1>2, <1>3, <1>4 DEF Election!Init

\* As long as no membership change may be asked for, a behaviour of the cluster is, with
\* logs, commits and snapshots forgotten, a behaviour of RaftElection.
THEOREM ClusterElects == Spec /\ scene.configs = {} => Election!Spec
<1> DEFINE C == scene.configs = {}
           Inv == C => ClusterInv
<1>1. Spec => []Inv
  BY ClusterInvariant
<1>2. C /\ [Next]_vars => C'
  BY Zenon, SceneKept
<1>3. C /\ Inv /\ [Next]_vars => [Election!Next]_(Election!vars)
  BY Zenon, StepImplements
<1>4. Init => Election!Init
  BY Zenon, InitElection
<1> QED BY <1>1, <1>2, <1>3, <1>4, PTL DEF Spec, Election!Spec

\* Who leads in the cluster leads as elections see it: an Append and a snapshot are both
\* sent by a leader.
LEMMA LeadsSeen ==
  ASSUME NEW i \in Server, NEW t, Leads(i, t)
  PROVE  Election!Leads(i, t)
<1>1. CASE node[i].role = "Leader" /\ node[i].term = t
  <2>1. roles[i] = node[i].role /\ terms[i] = node[i].term
    BY Zenon DEF roles, terms
  <2> QED BY Zenon, <1>1, <2>1 DEF Election!Leads
<1>2. ASSUME NEW m \in net, m.type \in {"Append", "InstallSnapshot"}, m.from = i, m.term = t
      PROVE  Election!Leads(i, t)
  <2>1. m.type # "PreVoteResponse"
    BY <1>2
  <2>2. Seen(m) \in seen
    BY Zenon, <2>1 DEF seen, SeenOf
  <2>3. Seen(m).type = "Append"
    <3>1. CASE m.type = "InstallSnapshot"
      BY Zenon, <3>1 DEF Seen
    <3>2. CASE m.type = "Append"
      <4>1. m.type # "InstallSnapshot" /\ m.type # "InstallSnapshotResponse"
        BY <3>2
      <4> QED BY Zenon, <3>2, <4>1 DEF Seen
    <3> QED BY Zenon, <1>2, <3>1, <3>2
  <2>4. Seen(m).from = i /\ Seen(m).term = t
    BY <1>2 DEF Seen
  <2> QED BY Zenon, <2>2, <2>3, <2>4 DEF Election!Leads
<1> QED BY Zenon, <1>1, <1>2 DEF Leads

-----------------------------------------------------------------------------
(***************************************************************************)
(* What is proved of elections, of the cluster.                            *)
(***************************************************************************)

EP == INSTANCE RaftElectionProofs WITH
  role <- roles, term <- terms, votedFor <- votes, leader <- leaders,
  preVoteTerm <- preVoteTerms, preVoteMask <- preVoteMasks, voteMask <- voteMasks,
  faulted <- faults, hard <- hards, net <- seen

\* The proofs about elections are about the elections this cluster implements.
LEMMA SameElection ==
  /\ Election!Next <=> EP!Next
  /\ UNCHANGED Election!vars => UNCHANGED EP!vars
  /\ Election!Init => EP!Init
<1>1. UNCHANGED Election!vars => UNCHANGED EP!vars
  BY Zenon DEF Election!vars, EP!vars, Election!volatile, EP!volatile
<1>2. Election!Next <=> EP!Next
  BY Zenon DEF Election!Become, EP!Become, Election!persistHardState, EP!persistHardState,
    Election!failStorage, EP!failStorage, Election!Newer, EP!Newer,
    Election!HardAfter, EP!HardAfter, Election!TermAfter, EP!TermAfter,
    Election!VoteAfter, EP!VoteAfter, Election!RoleAfter, EP!RoleAfter,
    Election!LeaderAfter, EP!LeaderAfter, Election!becomeLeader, EP!becomeLeader,
    Election!startElection, EP!startElection, Election!startPreVote, EP!startPreVote,
    Election!appendTo, EP!appendTo, Election!writeFails, EP!writeFails,
    Election!TransferLeadership, EP!TransferLeadership,
    Election!NewRecoveredNode, EP!NewRecoveredNode, Election!onPreVote, EP!onPreVote,
    Election!onPreVoteResponse, EP!onPreVoteResponse, Election!onVote, EP!onVote,
    Election!onVoteResponse, EP!onVoteResponse, Election!onAppend, EP!onAppend,
    Election!onNewerTerm, EP!onNewerTerm, Election!onTimeoutNow, EP!onTimeoutNow,
    Election!Step, EP!Step, Election!Next, EP!Next, Election!volatile, EP!volatile,
    Election!vars, EP!vars, Election!Peers, EP!Peers, Election!Msg, EP!Msg,
    Election!MsgsTo, EP!MsgsTo, Election!Hard, EP!Hard,
    Election!majorityMask, EP!majorityMask, Election!PreVoteTypes, EP!PreVoteTypes,
    Election!Cardinality, EP!Cardinality
<1>3. Election!Init => EP!Init
  BY Zenon DEF Election!Init, EP!Init, Election!Hard, EP!Hard
<1> QED BY Zenon, <1>1, <1>2, <1>3

\* ... step by step, and so as behaviours.
LEMMA SameBehaviour == Election!Spec => EP!Spec
<1>1. [Election!Next]_(Election!vars) => [EP!Next]_(EP!vars)
  BY Zenon, SameElection
<1>2. Election!Init => EP!Init
  BY Zenon, SameElection
<1> QED BY <1>1, <1>2, PTL DEF Election!Spec, EP!Spec

\* What elections know of the constants.
LEMMA ElectionConstants ==
  /\ EP!IsFiniteSet(Server) /\ Server # {} /\ Nil \notin Server /\ MaxTerm \in Nat
BY Zenon, ClusterAssumption DEF IsFiniteSet, EP!IsFiniteSet

\* As long as no membership change may be asked for, a term has one leader, whatever is
\* lost, reordered, duplicated, crashed or fails, for clusters of every size.
THEOREM ClusterElectionSafe == Spec => [](scene.configs = {} => ElectionSafety)
<1> DEFINE C == scene.configs = {}
<1>1. EP!ElectionSafety => ElectionSafety
  <2>1. ASSUME NEW i \in Server, NEW t, Election!Leads(i, t)
        PROVE  EP!Leads(i, t)
    BY Zenon, <2>1 DEF EP!Leads, Election!Leads
  <2>2. ASSUME NEW i \in Server, NEW t, Leads(i, t)
        PROVE  EP!Leads(i, t)
    BY Zenon, <2>1, <2>2, LeadsSeen
  <2> QED BY Zenon, <2>2 DEF EP!ElectionSafety, ElectionSafety
<1>2. (EP!IsFiniteSet(Server) /\ Server # {} /\ Nil \notin Server /\ MaxTerm \in Nat)
        => (EP!Spec => []EP!ElectionSafety)
  BY EP!ElectionSafe
<1>3. EP!Spec => []EP!ElectionSafety
  BY <1>2, ElectionConstants
<1>4. ~C /\ [Next]_vars => (~C)'
  BY Zenon, SceneKept
<1>5. Spec /\ C => EP!Spec
  BY ClusterElects, SameBehaviour
<1> QED BY <1>1, <1>3, <1>4, <1>5, PTL DEF Spec

\* As long as no membership change may be asked for, no node of the cluster votes for
\* two candidates in one term (onVote, startElection).
THEOREM ClusterVotesOnce == Spec => [](scene.configs = {} => Election!VoteOnce)
<1> DEFINE C == scene.configs = {}
<1>1. EP!VoteOnce => Election!VoteOnce
  BY Zenon DEF EP!VoteOnce, Election!VoteOnce, EP!IsVote, Election!IsVote,
    EP!VotedFor, Election!VotedFor
<1>2. (EP!IsFiniteSet(Server) /\ Server # {} /\ Nil \notin Server /\ MaxTerm \in Nat)
        => (EP!Spec => []EP!VoteOnce)
  BY EP!VotesOnce
<1>3. EP!Spec => []EP!VoteOnce
  BY <1>2, ElectionConstants
<1>4. ~C /\ [Next]_vars => (~C)'
  BY Zenon, SceneKept
<1>5. Spec /\ C => EP!Spec
  BY ClusterElects, SameBehaviour
<1> QED BY <1>1, <1>3, <1>4, <1>5, PTL DEF Spec

\* As long as no membership change may be asked for, a term on any disk of the cluster
\* was opened by a candidate with a majority's pre-votes, or by a leader that handed over
\* (startPreVote, onPreVoteResponse, onTimeoutNow).
THEOREM ClusterTermsNeedMajority ==
  Spec => [](scene.configs = {} => Election!TermNeedsPreVoteMajority)
<1> DEFINE C == scene.configs = {}
<1>1. EP!TermNeedsPreVoteMajority => Election!TermNeedsPreVoteMajority
  BY Zenon DEF EP!TermNeedsPreVoteMajority, Election!TermNeedsPreVoteMajority,
    EP!Opened, Election!Opened, EP!PreVoters, Election!PreVoters,
    EP!Transferred, Election!Transferred, EP!majorityMask, Election!majorityMask,
    EP!Cardinality, Election!Cardinality
<1>2. (EP!IsFiniteSet(Server) /\ Server # {} /\ Nil \notin Server /\ MaxTerm \in Nat)
        => (EP!Spec => []EP!TermNeedsPreVoteMajority)
  BY EP!TermsNeedMajority
<1>3. EP!Spec => []EP!TermNeedsPreVoteMajority
  BY <1>2, ElectionConstants
<1>4. ~C /\ [Next]_vars => (~C)'
  BY Zenon, SceneKept
<1>5. Spec /\ C => EP!Spec
  BY ClusterElects, SameBehaviour
<1> QED BY <1>1, <1>3, <1>4, <1>5, PTL DEF Spec

\* As long as no membership change may be asked for, no term on a disk of the cluster
\* falls, and no vote cast in a term is changed in it (persistHardState, recovery).
THEOREM ClusterHardStateKept ==
  Spec /\ scene.configs = {} => Election!HardStateNeverRegresses
<1>1. [EP!DurableVoteKept]_(EP!vars) => [Election!DurableVoteKept]_(Election!vars)
  BY Zenon DEF EP!DurableVoteKept, Election!DurableVoteKept, EP!vars, Election!vars,
    EP!volatile, Election!volatile
<1>2. (EP!IsFiniteSet(Server) /\ Server # {} /\ Nil \notin Server /\ MaxTerm \in Nat)
        => (EP!Spec => EP!HardStateNeverRegresses)
  BY EP!HardStateKept
<1>3. EP!Spec => EP!HardStateNeverRegresses
  BY <1>2, ElectionConstants
<1>4. Spec /\ scene.configs = {} => EP!Spec
  BY ClusterElects, SameBehaviour
<1> QED BY <1>1, <1>3, <1>4, PTL DEF EP!HardStateNeverRegresses, Election!HardStateNeverRegresses

=============================================================================
