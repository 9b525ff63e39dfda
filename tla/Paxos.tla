------------------------------- MODULE Paxos -------------------------------
(***************************************************************************)
(* Single-decree Paxos (examples/paxos): every node is a proposer and an   *)
(* acceptor.  The nodes are driven by dst.Engine: a message is delivered   *)
(* at most once, after any delay, or is lost.  net holds every message     *)
(* ever sent and got those that were delivered.                            *)
(*                                                                         *)
(* A proposal number, an acceptance and its absence are kept together: the *)
(* pair None, with number 0, stands for hasAccepted = false or hasBest =   *)
(* false.  Proposal numbers are positive, so no acceptance has number 0.   *)
(* The tick that reaches a proposer's timeout may be any tick.             *)
(***************************************************************************)
EXTENDS Naturals, Sequences, FiniteSets

CONSTANTS N,         \* the number of nodes
          Value,     \* the values clients propose
          Nil,       \* the value 0 of a node that has none
          MaxRound   \* bound: no proposer goes beyond this round

ASSUME NAssumption == N \in Nat \ {0}
ASSUME NilAssumption == Nil \notin Value
ASSUME MaxRoundAssumption == MaxRound \in Nat

Node == 1 .. N

VARIABLES node,  \* the proposer and acceptor state of each node
          net,   \* every message ever sent
          got    \* the messages that have been delivered

vars == <<node, net, got>>

Pair(num, val) == [num |-> num, val |-> val]
None == Pair(0, Nil)

NewNode ==
  [promised |-> 0, accepted |-> None, accepts |-> <<>>,
   phase |-> "idle", round |-> 0, myNum |-> 0, myVal |-> Nil,
   promiseMask |-> {}, acceptMask |-> {}, best |-> None, out |-> {}]

Init ==
  /\ node = [i \in Node |-> NewNode]
  /\ net = {}
  /\ got = {}

Quorum(mask) == Cardinality(mask) >= N \div 2 + 1

Msg(type, from, to, num, ok, pair) ==
  [type |-> type, from |-> from, to |-> to, num |-> num, ok |-> ok, pair |-> pair]

ToPeers(type, i, num, pair) == {Msg(type, i, p, num, TRUE, pair) : p \in Node \ {i}}

-----------------------------------------------------------------------------
(***************************************************************************)
(* The acceptor.                                                           *)
(***************************************************************************)

Promises(n, num) == num > n.promised

Accepts(n, num) == num >= n.promised

onPrepare(n, num) == IF Promises(n, num) THEN [n EXCEPT !.promised = num] ELSE n

\* Slip: accepting is no promise.
onAccept_noPromise(n, num, val) ==
  IF Accepts(n, num)
    THEN [n EXCEPT !.accepted = Pair(num, val), !.accepts = Append(@, Pair(num, val))]
    ELSE n

onAccept(n, num, val) ==
  IF Accepts(n, num)
    THEN [n EXCEPT !.promised = num, !.accepted = Pair(num, val),
                   !.accepts = Append(@, Pair(num, val))]
    ELSE n

-----------------------------------------------------------------------------
(***************************************************************************)
(* The proposer.                                                           *)
(***************************************************************************)

Better(n, pair) == IF pair.num > n.best.num THEN pair ELSE n.best

\* Slip: the proposer insists on its own value.
Adopted_own(n) == n.myVal

\* The value of phase two: that of the highest acceptance heard of, if any.
Adopted(n) == IF n.best.num # 0 THEN n.best.val ELSE n.myVal

\* Phase two begins with the proposer's own acceptance.
beginAccepting(n, i) ==
  LET val == Adopted(n)
      self == IF Accepts(n, n.myNum) THEN {i} ELSE {}
      m == onAccept([n EXCEPT !.myVal = val, !.phase = "accepting", !.acceptMask = self],
                    n.myNum, val)
  IN IF Quorum(self) THEN [m EXCEPT !.phase = "decided"]
     ELSE [m EXCEPT !.out = @ \cup ToPeers("Accept", i, n.myNum, Pair(n.myNum, val))]

recordPromise(n, i, from, pair) ==
  LET m == [n EXCEPT !.promiseMask = @ \cup {from}, !.best = Better(n, pair)]
  IN IF Quorum(m.promiseMask) THEN beginAccepting(m, i) ELSE m

NextRound(n) ==
  LET after == n.promised \div N + 1
  IN IF n.round + 1 > after THEN n.round + 1 ELSE after

\* Start a round for val; the proposer's own promise comes first.
Propose(n, i, val) ==
  LET num == NextRound(n) * N + i
      m == [n EXCEPT !.round = NextRound(n), !.myNum = num, !.myVal = val,
                     !.phase = "preparing", !.promiseMask = {}, !.acceptMask = {},
                     !.best = None, !.out = ToPeers("Prepare", i, num, None)]
  IN IF Promises(n, num) THEN recordPromise(onPrepare(m, num), i, i, n.accepted) ELSE m

-----------------------------------------------------------------------------
(***************************************************************************)
(* Step, by message type: node i, at n, handles m.                         *)
(***************************************************************************)

Reply(n, i, m, type, ok, pair) ==
  [n EXCEPT !.out = {Msg(type, i, m.from, m.num, ok, pair)}]

StepPrepare(n, i, m) ==
  LET ok == Promises(n, m.num)
  IN Reply(onPrepare(n, m.num), i, m, "Promise", ok, IF ok THEN n.accepted ELSE None)

\* Slip: a promise that comes after the quorum begins phase two again.
StepPromise_anyPhase(n, i, m) ==
  IF m.num # n.myNum \/ ~m.ok THEN n
  ELSE recordPromise(n, i, m.from, m.pair)

StepPromise(n, i, m) ==
  IF m.num # n.myNum \/ n.phase # "preparing" \/ ~m.ok THEN n
  ELSE recordPromise(n, i, m.from, m.pair)

StepAccept(n, i, m) ==
  Reply(onAccept(n, m.num, m.pair.val), i, m, "Accepted", Accepts(n, m.num), None)

\* Slip: an acceptance of an earlier round counts.
StepAccepted_anyRound(n, i, m) ==
  LET mask == n.acceptMask \cup {m.from} IN
  IF n.phase # "accepting" \/ ~m.ok THEN n
  ELSE [n EXCEPT !.acceptMask = mask, !.phase = IF Quorum(mask) THEN "decided" ELSE @]

StepAccepted(n, i, m) ==
  LET mask == n.acceptMask \cup {m.from} IN
  IF m.num # n.myNum \/ n.phase # "accepting" \/ ~m.ok THEN n
  ELSE [n EXCEPT !.acceptMask = mask, !.phase = IF Quorum(mask) THEN "decided" ELSE @]

Step(n, i, m) ==
  CASE m.type = "Prepare" -> StepPrepare(n, i, m)
    [] m.type = "Promise" -> StepPromise(n, i, m)
    [] m.type = "Accept" -> StepAccept(n, i, m)
    [] m.type = "Accepted" -> StepAccepted(n, i, m)

-----------------------------------------------------------------------------

\* One call leaves n at node i, and its outbound messages are collected.
Run(i, n) ==
  /\ node' = [node EXCEPT ![i] = [n EXCEPT !.out = {}]]
  /\ net' = net \cup n.out

ClientProposes(i, val) ==
  /\ NextRound(node[i]) <= MaxRound
  /\ Run(i, Propose(node[i], i, val))
  /\ UNCHANGED got

\* The tick at which elapsed reaches the timeout.
Tick(i) ==
  /\ node[i].phase \in {"preparing", "accepting"}
  /\ NextRound(node[i]) <= MaxRound
  /\ Run(i, Propose(node[i], i, node[i].myVal))
  /\ UNCHANGED got

Deliver(m) ==
  /\ m \notin got
  /\ Run(m.to, Step(node[m.to], m.to, m))
  /\ got' = got \cup {m}

Next ==
  \/ \E i \in Node : Tick(i) \/ \E val \in Value : ClientProposes(i, val)
  \/ \E m \in net : Deliver(m)

Spec == Init /\ [][Next]_vars

-----------------------------------------------------------------------------
(***************************************************************************)
(* Safety.                                                                 *)
(***************************************************************************)

\* Every acceptance node i ever made (Acceptances).
Votes(i) == {node[i].accepts[k] : k \in 1 .. Len(node[i].accepts)}

\* A quorum has accepted the proposal p.
Chosen(p) == Quorum({i \in Node : p \in Votes(i)})

\* At most one value reaches a quorum of acceptances, at whatever proposal numbers
\* (checkSingleChoice; recordPromise adopts the highest acceptance).
SingleChoice ==
  \A i, j \in Node : \A p \in Votes(i), q \in Votes(j) :
    Chosen(p) /\ Chosen(q) => p.val = q.val

\* The proposal numbers of a history never go down.
Ordered(s) == \A k, l \in 1 .. Len(s) : k <= l => s[k].num <= s[l].num

\* An acceptor's history never goes back in proposal number, and never beyond
\* what it has promised (checkHistoryMonotonic, checkPromiseRespected).
HistoryMonotonic ==
  \A i \in Node : node[i].accepted.num <= node[i].promised /\ Ordered(node[i].accepts)

\* A node that reports its proposal as decided has had its value chosen
\* (Decided; Step on Accepted).
DecidedChosen ==
  \A i \in Node : node[i].phase = "decided" => Chosen(Pair(node[i].myNum, node[i].myVal))

\* No acceptor accepts the same proposal twice, so that chosenValues, which counts
\* acceptances, counts acceptors (cluster.go; onAccept itself would accept again).
AcceptedOnce ==
  \A i \in Node : \A k, l \in 1 .. Len(node[i].accepts) :
    node[i].accepts[k] = node[i].accepts[l] => k = l

-----------------------------------------------------------------------------
(***************************************************************************)
(* The inductive invariant behind SingleChoice and DecidedChosen.          *)
(***************************************************************************)

PairType == [num : Nat, val : Value \cup {Nil}]

Message ==
  [type : {"Prepare", "Promise", "Accept", "Accepted"}, from : Node, to : Node,
   num : Nat, ok : BOOLEAN, pair : PairType]

NodeState ==
  [promised : Nat, accepted : PairType, accepts : Seq(PairType),
   phase : {"idle", "preparing", "accepting", "decided"},
   round : Nat, myNum : Nat, myVal : Value \cup {Nil},
   promiseMask : SUBSET Node, acceptMask : SUBSET Node,
   best : PairType, out : SUBSET Message]

TypeOK ==
  /\ node \in [Node -> NodeState] /\ \A i \in Node : node[i].out = {}
  /\ net \subseteq Message

\* The proposals that have reached phase two.
Issued ==
  {Pair(m.num, m.pair.val) : m \in {x \in net : x.type = "Accept"}}
    \cup UNION {Votes(i) : i \in Node}

\* Numbers of node i: distinct nodes use distinct residues.
Owner(i, num) == \E r \in 0 .. num : num = r * N + i

\* The value w will never be chosen at number c: a quorum has moved on without it.
Closed(c, w) ==
  \E Q \in SUBSET Node :
    Quorum(Q) /\ \A j \in Q : node[j].promised > c /\ Pair(c, w) \notin Votes(j)

\* No value but that of p is or will be chosen below p.
Safe(p) == \A c \in 0 .. p.num - 1 : \A w \in (Value \cup {Nil}) \ {p.val} : Closed(c, w)

\* Node j has promised num, and accepts nothing more between best and num.
Backs(j, num, best) ==
  node[j].promised >= num /\ \A p \in Votes(j) : p.num < num => p.num <= best.num

\* What a promise of num reports, if anything, has been proposed at a lower number.
Heard(num, best) == best.num # 0 => best.num < num /\ best \in Issued

AcceptorInv ==
  \A i \in Node :
    /\ node[i].accepted.num <= node[i].promised
    /\ node[i].accepted.num # 0 => node[i].accepted \in Votes(i)
    /\ \A p \in Votes(i) : p.num <= node[i].accepted.num
    /\ Ordered(node[i].accepts)

AnswerOK(m) ==
  m.ok =>
    /\ m.type = "Promise" => Backs(m.from, m.num, m.pair) /\ Heard(m.num, m.pair)
    /\ m.type = "Accepted" => \E p \in Votes(m.from) : p.num = m.num

ProposerOK(i) == LET n == node[i] IN
  /\ n.myNum = IF n.phase = "idle" THEN 0 ELSE n.round * N + i
  /\ n.phase = "preparing" =>
       Heard(n.myNum, n.best) /\ \A j \in n.promiseMask : Backs(j, n.myNum, n.best)
  /\ n.phase \in {"accepting", "decided"} =>
       \A j \in n.acceptMask : Pair(n.myNum, n.myVal) \in Votes(j)
  /\ n.phase = "decided" => Quorum(n.acceptMask)

\* p was issued by node i, which has moved on or is still at it.
IssuedBy(i, p) ==
  /\ Owner(i, p.num)
  /\ \/ p.num < node[i].myNum
     \/ /\ p = Pair(node[i].myNum, node[i].myVal)
        /\ node[i].phase \in {"accepting", "decided"}

IssuedInv ==
  /\ \A p \in Issued : Safe(p) /\ \E i \in Node : IssuedBy(i, p)
  /\ \A p, q \in Issued : p.num = q.num => p = q

\* Whatever is proposed in phase two is safe and its number is used once; promises
\* report what they must, and proposers count only what was promised or accepted.
PaxosInv ==
  /\ AcceptorInv /\ IssuedInv
  /\ \A m \in net : AnswerOK(m)
  /\ \A i \in Node : ProposerOK(i)

\* An Accept carries a proposal of its sender, and is delivered before its acceptor
\* accepts that proposal.
AcceptOnce(m) ==
  /\ m.ok /\ m.pair.num = m.num /\ Owner(m.from, m.num)
  /\ m \notin got => m.pair \notin Votes(m.to)

\* With PaxosInv, the inductive invariant behind AcceptedOnce.
OnceInv == AcceptedOnce /\ \A m \in net : m.type = "Accept" => AcceptOnce(m)

=============================================================================
