---------------------------- MODULE PaxosProofs -----------------------------
(****************************************************************************)
(* One value is chosen, for every number of nodes, values and rounds.       *)
(****************************************************************************)
EXTENDS Paxos, FiniteSetTheorems, TLAPS

\* The nodes are N in number (NewNode's peers and quorum).
LEMMA NodesFinite == IsFiniteSet(Node) /\ Cardinality(Node) = N
<1>1. N \in Nat /\ N >= 1
  BY NAssumption
<1>2. IsFiniteSet(1 .. N) /\ Cardinality(1 .. N) = N
  BY <1>1, FS_Interval
<1> QED BY Zenon, <1>2 DEF Node

\* Two quorums share a node (quorum).
LEMMA QuorumsIntersect ==
  ASSUME NEW Q \in SUBSET Node, NEW R \in SUBSET Node, Quorum(Q), Quorum(R)
  PROVE  \E j \in Node : j \in Q /\ j \in R
<1>1. Cardinality(Q) \in Nat /\ Cardinality(R) \in Nat /\ N \in Nat
  BY Zenon, NodesFinite, NAssumption, FS_Subset, FS_CardinalityType
<1>2. Cardinality(Q) >= N \div 2 + 1 /\ Cardinality(R) >= N \div 2 + 1
  BY Zenon DEF Quorum
<1>3. Cardinality(Q) + Cardinality(R) > Cardinality(Node)
  BY <1>1, <1>2, NodesFinite
<1>4. Q \cap R # {}
  BY Zenon, <1>3, NodesFinite, FS_MajoritiesIntersect
<1> QED BY Zenon, <1>4

\* What contains a quorum is one (quorum).
LEMMA QuorumMonotone ==
  ASSUME NEW Q \in SUBSET Node, NEW R \in SUBSET Node, Q \subseteq R, Quorum(Q)
  PROVE  Quorum(R)
<1>1. IsFiniteSet(R) /\ Cardinality(Q) <= Cardinality(R)
  BY Zenon, NodesFinite, FS_Subset
<1>2. Cardinality(Q) \in Nat /\ Cardinality(R) \in Nat /\ N \in Nat
  BY Zenon, NodesFinite, NAssumption, FS_Subset, FS_CardinalityType
<1>3. Cardinality(Q) >= N \div 2 + 1
  BY Zenon DEF Quorum
<1>4. Cardinality(R) >= N \div 2 + 1
  BY <1>1, <1>2, <1>3
<1> QED BY <1>4, Zenon DEF Quorum

\* A number belongs to one node (Propose: distinct ids occupy distinct residues).
LEMMA OwnerUnique ==
  ASSUME NEW i \in Node, NEW j \in Node, NEW num \in Nat, Owner(i, num), Owner(j, num)
  PROVE  i = j
<1>1. PICK r \in Nat : num = r * N + i
  BY DEF Owner
<1>2. PICK s \in Nat : num = s * N + j
  BY DEF Owner
<1>3. N \in Nat /\ i \in 1 .. N /\ j \in 1 .. N
  BY Zenon, NAssumption DEF Node
<1>4. \A x, y \in Nat : x < y => y * N >= x * N + N
  <2>1. SUFFICES ASSUME NEW x \in Nat, NEW y \in Nat, x < y PROVE y * N >= x * N + N
    BY Zenon
  <2>2. y * N = x * N + N + (y - x - 1) * N
    BY <1>3, <2>1
  <2>3. (y - x - 1) * N >= 0
    BY <1>3, <2>1
  <2> QED BY <2>2, <2>3, <1>3
<1>5. r * N \in Nat /\ s * N \in Nat
  BY <1>3
<1>6. CASE r < s
  <2>1. s * N >= r * N + N
    BY Zenon, <1>4, <1>6
  <2> QED BY <1>1, <1>2, <1>3, <1>5, <2>1
<1>7. CASE s < r
  <2>1. r * N >= s * N + N
    BY Zenon, <1>4, <1>7
  <2> QED BY <1>1, <1>2, <1>3, <1>5, <2>1
<1>8. CASE r = s
  BY <1>1, <1>2, <1>3, <1>5, <1>8
<1> QED BY <1>6, <1>7, <1>8

\* The number of a round belongs to the node and is positive (Propose).
LEMMA NumberOwned ==
  ASSUME NEW i \in Node, NEW s \in Nat
  PROVE  s * N + i \in Nat /\ s * N + i > 0 /\ Owner(i, s * N + i)
<1>1. N \in Nat /\ N >= 1 /\ i \in Nat /\ i >= 1
  BY NAssumption DEF Node
<1>2. s * N \in Nat /\ s * N >= s
  BY <1>1
<1>3. s * N + i \in Nat /\ s * N + i > 0 /\ s \in 0 .. s * N + i
  BY <1>1, <1>2
<1> QED BY Zenon, <1>3 DEF Owner

\* A later round has a higher number (Propose).
LEMMA NumbersGrow ==
  ASSUME NEW i \in Node, NEW r \in Nat, NEW s \in Nat, r < s
  PROVE  s * N + i > r * N + i
<1>1. N \in Nat /\ N >= 1 /\ i \in Nat
  BY NAssumption DEF Node
<1>2. (s - r) * N >= 1
  BY <1>1
<1>3. s * N = r * N + (s - r) * N
  BY <1>1
<1>4. r * N \in Nat /\ s * N \in Nat
  BY <1>1
<1> QED BY <1>1, <1>2, <1>3, <1>4

\* One more acceptance is one more vote (Acceptances).
LEMMA AppendAdds ==
  ASSUME NEW s \in Seq(PairType), NEW p \in PairType
  PROVE  {Append(s, p)[k] : k \in 1 .. Len(Append(s, p))} = {s[k] : k \in 1 .. Len(s)} \cup {p}
<1>1. Len(Append(s, p)) = Len(s) + 1 /\ Len(s) \in Nat
  OBVIOUS
<1>2. \A k \in 1 .. Len(s) : Append(s, p)[k] = s[k]
  OBVIOUS
<1>3. Append(s, p)[Len(s) + 1] = p
  OBVIOUS
<1>4. \A k \in 1 .. Len(s) + 1 : k \in 1 .. Len(s) \/ k = Len(s) + 1
  BY <1>1
<1> QED BY <1>1, <1>2, <1>3, <1>4

\* An acceptance at a number as high as any before keeps a history in order
\* (onAccept).
LEMMA AppendOrdered ==
  ASSUME NEW s \in Seq(PairType), NEW p \in PairType, Ordered(s),
         \A k \in 1 .. Len(s) : s[k].num <= p.num
  PROVE  Ordered(Append(s, p))
<1>1. Len(Append(s, p)) = Len(s) + 1 /\ Len(s) \in Nat /\ p.num \in Nat
  BY DEF PairType
<1>2. \A k \in 1 .. Len(s) : Append(s, p)[k] = s[k]
  OBVIOUS
<1>3. Append(s, p)[Len(s) + 1] = p
  OBVIOUS
<1>4. \A k \in 1 .. Len(s) + 1 : k \in 1 .. Len(s) \/ k = Len(s) + 1
  BY <1>1
<1>5. ASSUME NEW k \in 1 .. Len(s) + 1, NEW l \in 1 .. Len(s) + 1, k <= l
      PROVE  Append(s, p)[k].num <= Append(s, p)[l].num
  <2>1. CASE l \in 1 .. Len(s)
    <3>1. k \in 1 .. Len(s)
      BY <1>1, <1>5, <2>1
    <3> QED BY Zenon, <1>2, <1>5, <2>1, <3>1 DEF Ordered
  <2>2. CASE l = Len(s) + 1 /\ k \in 1 .. Len(s)
    BY Zenon, <1>2, <1>3, <2>2
  <2>3. CASE l = Len(s) + 1 /\ k = Len(s) + 1
    BY <1>1, <1>3, <2>3
  <2> QED BY Zenon, <1>4, <2>1, <2>2, <2>3
<1> QED BY Zenon, <1>1, <1>5 DEF Ordered

-----------------------------------------------------------------------------
(***************************************************************************)
(* What the handlers return.                                               *)
(***************************************************************************)

\* A number and a value make a pair (proposalNum, value).
LEMMA PairTyped ==
  ASSUME NEW num \in Nat, NEW val \in Value \cup {Nil}
  PROVE  Pair(num, val) \in PairType /\ Pair(num, val).num = num /\ Pair(num, val).val = val
BY Zenon DEF Pair, PairType

\* The absence of an acceptance has number 0 (hasAccepted = false).
LEMMA NoneTyped == None \in PairType /\ None.num = 0
BY Zenon DEF None, Pair, PairType

\* Prepares go to the other nodes (Propose).
LEMMA PreparesSent ==
  ASSUME NEW i \in Node, NEW num \in Nat, NEW pair \in PairType,
         NEW m \in ToPeers("Prepare", i, num, pair)
  PROVE  /\ m \in Message
         /\ m.type = "Prepare" /\ m.from = i /\ m.to # i /\ m.num = num /\ m.pair = pair
         /\ m = Msg("Prepare", i, m.to, num, TRUE, pair)
<1>1. PICK p \in Node \ {i} : m = Msg("Prepare", i, p, num, TRUE, pair)
  BY Zenon DEF ToPeers
<1>2. m = [type |-> "Prepare", from |-> i, to |-> p, num |-> num, ok |-> TRUE, pair |-> pair]
  BY Zenon, <1>1 DEF Msg
<1>3. m.type = "Prepare" /\ m.from = i /\ m.to = p /\ m.num = num /\ m.pair = pair
  BY Zenon, <1>2
<1>4. m \in Message
  BY Zenon, <1>2 DEF Message
<1> QED BY Zenon, <1>1, <1>3, <1>4

\* Accepts go to the other nodes (recordPromise).
LEMMA AcceptsSent ==
  ASSUME NEW i \in Node, NEW num \in Nat, NEW pair \in PairType,
         NEW m \in ToPeers("Accept", i, num, pair)
  PROVE  /\ m \in Message
         /\ m.type = "Accept" /\ m.from = i /\ m.to # i /\ m.num = num /\ m.pair = pair
         /\ m = Msg("Accept", i, m.to, num, TRUE, pair)
<1>1. PICK p \in Node \ {i} : m = Msg("Accept", i, p, num, TRUE, pair)
  BY Zenon DEF ToPeers
<1>2. m = [type |-> "Accept", from |-> i, to |-> p, num |-> num, ok |-> TRUE, pair |-> pair]
  BY Zenon, <1>1 DEF Msg
<1>3. m.type = "Accept" /\ m.from = i /\ m.to = p /\ m.num = num /\ m.pair = pair
  BY Zenon, <1>2
<1>4. m \in Message
  BY Zenon, <1>2 DEF Message
<1> QED BY Zenon, <1>1, <1>3, <1>4

\* The acceptor half of phase two (onAccept).
LEMMA OnAcceptIs ==
  ASSUME NEW n \in NodeState, NEW num \in Nat, NEW val \in Value \cup {Nil}, NEW r,
         r = onAccept(n, num, val)
  PROVE  /\ r \in NodeState
         /\ r.phase = n.phase /\ r.round = n.round /\ r.myNum = n.myNum /\ r.myVal = n.myVal
         /\ r.promiseMask = n.promiseMask /\ r.acceptMask = n.acceptMask
         /\ r.best = n.best /\ r.out = n.out
         /\ Accepts(n, num) => /\ r.promised = num /\ r.accepted = Pair(num, val)
                               /\ r.accepts = Append(n.accepts, Pair(num, val))
         /\ ~Accepts(n, num) => r = n
<1>1. CASE Accepts(n, num)
  <2>1. r = [n EXCEPT !.promised = num, !.accepted = Pair(num, val),
                      !.accepts = Append(@, Pair(num, val))]
    BY Zenon, <1>1 DEF onAccept
  <2>2. Pair(num, val) \in PairType
    BY Zenon, PairTyped
  <2>3. Append(n.accepts, Pair(num, val)) \in Seq(PairType)
    BY <2>2 DEF NodeState
  <2> HIDE DEF Pair
  <2>4. r \in NodeState
    BY Zenon, <2>1, <2>2, <2>3 DEF NodeState
  <2>5. /\ r.promised = num /\ r.accepted = Pair(num, val)
        /\ r.accepts = Append(n.accepts, Pair(num, val))
        /\ r.phase = n.phase /\ r.round = n.round /\ r.myNum = n.myNum /\ r.myVal = n.myVal
        /\ r.promiseMask = n.promiseMask /\ r.acceptMask = n.acceptMask
        /\ r.best = n.best /\ r.out = n.out
    BY Zenon, <2>1 DEF NodeState
  <2> QED BY Zenon, <1>1, <2>4, <2>5
<1>2. CASE ~Accepts(n, num)
  BY Zenon, <1>2 DEF onAccept
<1> QED BY Zenon, <1>1, <1>2

\* Phase two begins (recordPromise): the proposal is the one adopted, and the
\* acceptor of the same node accepts it or has promised beyond.
LEMMA BeginAcceptingIs ==
  ASSUME NEW n \in NodeState, NEW i \in Node, NEW r, r = beginAccepting(n, i)
  PROVE  /\ r \in NodeState
         /\ r.round = n.round /\ r.myNum = n.myNum /\ r.myVal = Adopted(n)
         /\ r.phase \in {"accepting", "decided"}
         /\ r.phase = "decided" => Quorum(r.acceptMask)
         /\ r.out \subseteq n.out \cup ToPeers("Accept", i, n.myNum, Pair(n.myNum, r.myVal))
         /\ Accepts(n, n.myNum) => /\ r.promised = n.myNum /\ r.accepted = Pair(n.myNum, r.myVal)
                                   /\ r.accepts = Append(n.accepts, r.accepted)
                                   /\ r.acceptMask = {i}
         /\ ~Accepts(n, n.myNum) => /\ r.promised = n.promised /\ r.accepted = n.accepted
                                    /\ r.accepts = n.accepts /\ r.acceptMask = {}
<1> DEFINE val == Adopted(n)
           self == IF Accepts(n, n.myNum) THEN {i} ELSE {}
           k == [n EXCEPT !.myVal = val, !.phase = "accepting", !.acceptMask = self]
           m == onAccept(k, n.myNum, val)
           sent == ToPeers("Accept", i, n.myNum, Pair(n.myNum, val))
<1>1. val \in Value \cup {Nil} /\ self \in SUBSET Node /\ n.myNum \in Nat
  BY Zenon DEF NodeState, Adopted, PairType
<1>2. /\ k \in NodeState /\ k.promised = n.promised /\ k.accepted = n.accepted
      /\ k.accepts = n.accepts /\ k.round = n.round /\ k.myNum = n.myNum /\ k.out = n.out
      /\ k.myVal = val /\ k.phase = "accepting" /\ k.acceptMask = self
  BY Zenon, <1>1 DEF NodeState
<1>3. Accepts(k, n.myNum) <=> Accepts(n, n.myNum)
  BY Zenon, <1>2 DEF Accepts
<1>4. sent \subseteq Message
  <2>1. Pair(n.myNum, val) \in PairType
    BY Zenon, <1>1, PairTyped
  <2>2. n.myNum \in Nat
    BY Zenon, <1>1
  <2> HIDE DEF val, self, k, m
  <2> QED BY Zenon, <2>1, <2>2, AcceptsSent
<1> HIDE DEF val, self, k, sent
<1>5. /\ m \in NodeState
      /\ m.phase = "accepting" /\ m.round = n.round /\ m.myNum = n.myNum /\ m.myVal = val
      /\ m.acceptMask = self /\ m.out = n.out
      /\ Accepts(n, n.myNum) => /\ m.promised = n.myNum /\ m.accepted = Pair(n.myNum, val)
                                /\ m.accepts = Append(n.accepts, Pair(n.myNum, val))
      /\ ~Accepts(n, n.myNum) => /\ m.promised = n.promised /\ m.accepted = n.accepted
                                 /\ m.accepts = n.accepts
  <2>1. m = onAccept(k, n.myNum, val)
    BY Zenon
  <2> HIDE DEF m
  <2>2. /\ m \in NodeState
        /\ m.phase = k.phase /\ m.round = k.round /\ m.myNum = k.myNum /\ m.myVal = k.myVal
        /\ m.acceptMask = k.acceptMask /\ m.out = k.out
    BY <1>1, <1>2, <2>1, OnAcceptIs
  <2>3. ASSUME Accepts(k, n.myNum)
        PROVE  /\ m.promised = n.myNum /\ m.accepted = Pair(n.myNum, val)
               /\ m.accepts = Append(k.accepts, Pair(n.myNum, val))
    <3>1. m = [k EXCEPT !.promised = n.myNum, !.accepted = Pair(n.myNum, val),
                        !.accepts = Append(@, Pair(n.myNum, val))]
      BY Zenon, <2>1, <2>3 DEF onAccept
    <3> QED BY Zenon, <1>2, <3>1 DEF NodeState
  <2>4. ~Accepts(k, n.myNum) => m = k
    BY <1>1, <1>2, <2>1, OnAcceptIs
  <2> QED BY Zenon, <1>2, <1>3, <2>2, <2>3, <2>4
<1>6. r = IF Quorum(self) THEN [m EXCEPT !.phase = "decided"] ELSE [m EXCEPT !.out = @ \cup sent]
  BY Zenon DEF beginAccepting, val, self, k, sent
<1> HIDE DEF m
<1>7. /\ r \in NodeState
      /\ r.round = n.round /\ r.myNum = n.myNum /\ r.myVal = val /\ r.acceptMask = self
      /\ r.phase \in {"accepting", "decided"}
      /\ r.phase = "decided" => Quorum(r.acceptMask)
      /\ r.out \subseteq n.out \cup sent
      /\ r.promised = m.promised /\ r.accepted = m.accepted /\ r.accepts = m.accepts
  <2>1. CASE Quorum(self)
    <3>1. r = [m EXCEPT !.phase = "decided"]
      BY Zenon, <1>6, <2>1
    <3>2. /\ r \in NodeState /\ r.phase = "decided" /\ r.out = m.out
          /\ r.round = m.round /\ r.myNum = m.myNum /\ r.myVal = m.myVal
          /\ r.acceptMask = m.acceptMask
          /\ r.promised = m.promised /\ r.accepted = m.accepted /\ r.accepts = m.accepts
      BY Zenon, <1>5, <3>1 DEF NodeState
    <3> QED BY Zenon, <1>5, <2>1, <3>2
  <2>2. CASE ~Quorum(self)
    <3>1. r = [m EXCEPT !.out = @ \cup sent]
      BY Zenon, <1>6, <2>2
    <3>2. m.out \cup sent \in SUBSET Message
      BY Zenon, <1>4, <1>5 DEF NodeState
    <3>3. /\ r \in NodeState /\ r.phase = m.phase /\ r.out = m.out \cup sent
          /\ r.round = m.round /\ r.myNum = m.myNum /\ r.myVal = m.myVal
          /\ r.acceptMask = m.acceptMask
          /\ r.promised = m.promised /\ r.accepted = m.accepted /\ r.accepts = m.accepts
      BY Zenon, <1>5, <3>1, <3>2 DEF NodeState
    <3> QED BY Zenon, <1>5, <3>3
  <2> QED BY Zenon, <2>1, <2>2
<1>8. val = Adopted(n) /\ sent = ToPeers("Accept", i, n.myNum, Pair(n.myNum, val))
  BY Zenon DEF val, sent
<1>9. (Accepts(n, n.myNum) => self = {i}) /\ (~Accepts(n, n.myNum) => self = {})
  BY Zenon DEF self
<1> QED BY Zenon, <1>5, <1>7, <1>8, <1>9

\* One promise is recorded (recordPromise).
LEMMA RecordPromiseIs ==
  ASSUME NEW n \in NodeState, NEW i \in Node, NEW from \in Node, NEW pair \in PairType
  PROVE  \E m \in NodeState :
           /\ m.promiseMask = n.promiseMask \cup {from} /\ m.best = Better(n, pair)
           /\ m.promised = n.promised /\ m.accepted = n.accepted /\ m.accepts = n.accepts
           /\ m.phase = n.phase /\ m.round = n.round /\ m.myNum = n.myNum /\ m.myVal = n.myVal
           /\ m.acceptMask = n.acceptMask /\ m.out = n.out
           /\ recordPromise(n, i, from, pair) =
                IF Quorum(m.promiseMask) THEN beginAccepting(m, i) ELSE m
<1> DEFINE m == [n EXCEPT !.promiseMask = @ \cup {from}, !.best = Better(n, pair)]
<1>1. Better(n, pair) \in PairType
  BY Zenon DEF Better, NodeState
<1>2. m \in NodeState
  BY Zenon, <1>1 DEF NodeState
<1>3. /\ m.promiseMask = n.promiseMask \cup {from} /\ m.best = Better(n, pair)
      /\ m.promised = n.promised /\ m.accepted = n.accepted /\ m.accepts = n.accepts
      /\ m.phase = n.phase /\ m.round = n.round /\ m.myNum = n.myNum /\ m.myVal = n.myVal
      /\ m.acceptMask = n.acceptMask /\ m.out = n.out
  BY Zenon DEF NodeState
<1>4. recordPromise(n, i, from, pair) = IF Quorum(m.promiseMask) THEN beginAccepting(m, i) ELSE m
  BY Zenon DEF recordPromise
<1> HIDE DEF m
<1> QED BY Zenon, <1>2, <1>3, <1>4

\* A call leaves states of the shape of the Go structs.
LEMMA RunTyped ==
  ASSUME TypeOK, NEW i \in Node, NEW n \in NodeState, Run(i, n)
  PROVE  /\ TypeOK'
         /\ \A j \in Node \ {i} : node'[j] = node[j]
         /\ node'[i].promised = n.promised /\ node'[i].accepted = n.accepted
         /\ node'[i].accepts = n.accepts /\ node'[i].phase = n.phase
         /\ node'[i].round = n.round /\ node'[i].myNum = n.myNum /\ node'[i].myVal = n.myVal
         /\ node'[i].promiseMask = n.promiseMask /\ node'[i].acceptMask = n.acceptMask
         /\ node'[i].best = n.best
         /\ net' = net \cup n.out
<1> DEFINE c == [n EXCEPT !.out = {}]
<1>1. /\ c \in NodeState /\ c.out = {}
      /\ c.promised = n.promised /\ c.accepted = n.accepted
      /\ c.accepts = n.accepts /\ c.phase = n.phase
      /\ c.round = n.round /\ c.myNum = n.myNum /\ c.myVal = n.myVal
      /\ c.promiseMask = n.promiseMask /\ c.acceptMask = n.acceptMask
      /\ c.best = n.best
  BY Zenon DEF NodeState
<1>2. node' = [node EXCEPT ![i] = c] /\ net' = net \cup n.out
  BY Zenon DEF Run
<1>3. n.out \subseteq Message
  BY Zenon DEF NodeState
<1> HIDE DEF c
<1>4. node'[i] = c /\ \A j \in Node \ {i} : node'[j] = node[j]
  BY Zenon, <1>2 DEF TypeOK
<1>5. TypeOK'
  BY Zenon, <1>1, <1>2, <1>3, <1>4 DEF TypeOK
<1> QED BY Zenon, <1>1, <1>2, <1>4, <1>5

-----------------------------------------------------------------------------
(***************************************************************************)
(* What survives a step of node i.                                         *)
(***************************************************************************)

\* Node i promises no less than before, and accepts p or nothing.
AcceptorStep(i) ==
  /\ \A j \in Node \ {i} : node'[j] = node[j]
  /\ node'[i].promised >= node[i].promised
  /\ \/ node'[i].accepted = node[i].accepted /\ node'[i].accepts = node[i].accepts
     \/ /\ node'[i].accepted.num >= node[i].promised
        /\ node'[i].accepted.num = node'[i].promised
        /\ node'[i].accepts = Append(node[i].accepts, node'[i].accepted)

\* No node accepts anything, and no Accept is sent.
Abstains ==
  /\ \A j \in Node : node'[j].accepts = node[j].accepts
  /\ \A k \in net' \ net : k.type # "Accept"

\* Node i accepts p or nothing, and the others nothing.
Takes(i, p) ==
  /\ \A j \in Node \ {i} : node'[j].accepts = node[j].accepts
  /\ node'[i].accepts \in {node[i].accepts, Append(node[i].accepts, p)}

\* Node i issues p, at a number of its own that is new, with Accepts to the others.
Issues(i, p) ==
  /\ Takes(i, p)
  /\ Owner(i, p.num) /\ \A q \in Issued : q.num # p.num
  /\ \A k \in net' \ net :
       k.type = "Accept" => k.to # i /\ k = Msg("Accept", i, k.to, p.num, TRUE, p)

Proposes(i) == Abstains \/ \E p \in PairType : Issues(i, p)

\* A history holds pairs (Acceptances).
LEMMA VotesTyped ==
  ASSUME TypeOK, NEW j \in Node
  PROVE  Votes(j) \subseteq PairType
BY DEF TypeOK, NodeState, Votes

\* Votes are only added, and at numbers no lower than what was promised
\* (onPrepare, onAccept).
LEMMA VotesGrow ==
  ASSUME TypeOK, TypeOK', NEW i \in Node, AcceptorStep(i), NEW j \in Node
  PROVE  /\ Votes(j) \subseteq Votes(j)' /\ Votes(j)' \subseteq PairType
         /\ node'[j].promised \in Nat /\ node[j].promised \in Nat
         /\ node'[j].promised >= node[j].promised
         /\ \A p \in Votes(j)' :
              p \in Votes(j) \/ (j = i /\ p = node'[i].accepted /\ p.num >= node[i].promised)
<1>1. Votes(j)' \subseteq PairType
  BY SMTT(30) DEF TypeOK, NodeState, Votes
<1>2. node'[j].promised \in Nat /\ node[j].promised \in Nat
  BY Zenon DEF TypeOK, NodeState
<1>3. CASE node'[j] = node[j]
  BY <1>1, <1>2, <1>3 DEF Votes
<1>4. CASE j = i
  <2>1. CASE node'[i].accepts = node[i].accepts
    BY Zenon, <1>1, <1>2, <1>4, <2>1 DEF Votes, AcceptorStep
  <2>2. CASE /\ node'[i].accepted.num >= node[i].promised
             /\ node'[i].accepts = Append(node[i].accepts, node'[i].accepted)
    <3>1. node[i].accepts \in Seq(PairType) /\ node'[i].accepted \in PairType
      BY Zenon DEF TypeOK, NodeState
    <3>2. Votes(i)' = Votes(i) \cup {node'[i].accepted}
      BY SMTT(30), <2>2, <3>1, AppendAdds DEF Votes
    <3> QED BY Zenon, <1>1, <1>2, <1>4, <2>2, <3>2 DEF AcceptorStep
  <2> QED BY Zenon, <2>1, <2>2 DEF AcceptorStep
<1> QED BY Zenon, <1>3, <1>4 DEF AcceptorStep

\* An acceptor's promise covers its last acceptance, the highest of its history
\* (onPrepare, onAccept).
LEMMA AcceptorKept ==
  ASSUME TypeOK, TypeOK', AcceptorInv, NEW i \in Node, AcceptorStep(i)
  PROVE  AcceptorInv'
<1> SUFFICES ASSUME NEW j \in Node
             PROVE  /\ node'[j].accepted.num <= node'[j].promised
                    /\ node'[j].accepted.num # 0 => node'[j].accepted \in Votes(j)'
                    /\ \A p \in Votes(j)' : p.num <= node'[j].accepted.num
                    /\ Ordered(node'[j].accepts)
  BY Zenon DEF AcceptorInv
<1>1. /\ node[j].accepted.num <= node[j].promised
      /\ node[j].accepted.num # 0 => node[j].accepted \in Votes(j)
      /\ \A p \in Votes(j) : p.num <= node[j].accepted.num
      /\ Ordered(node[j].accepts)
  BY Zenon DEF AcceptorInv
<1>2. /\ node[j].accepted \in PairType /\ node'[j].accepted \in PairType
      /\ node[j].promised \in Nat /\ node'[j].promised \in Nat
      /\ node[j].accepted.num \in Nat /\ node'[j].accepted.num \in Nat
  BY Zenon DEF TypeOK, NodeState, PairType
<1>3. Votes(j) \subseteq Votes(j)' /\ \A p \in Votes(j) : p.num \in Nat
  BY VotesGrow, VotesTyped DEF PairType
<1>4. CASE node'[j].accepted = node[j].accepted /\ node'[j].accepts = node[j].accepts
  <2>1. Votes(j)' = Votes(j)
    BY Zenon, <1>4 DEF Votes
  <2>2. node'[j].promised >= node[j].promised
    BY Zenon, VotesGrow
  <2> QED BY <1>1, <1>2, <1>4, <2>1, <2>2
<1>5. CASE /\ node'[j].accepted.num >= node[j].promised
           /\ node'[j].accepted.num = node'[j].promised
           /\ node'[j].accepts = Append(node[j].accepts, node'[j].accepted)
  <2>1. Votes(j)' = Votes(j) \cup {node'[j].accepted}
    <3>1. node[j].accepts \in Seq(PairType)
      BY Zenon DEF TypeOK, NodeState
    <3> QED BY SMTT(30), <1>2, <1>5, <3>1, AppendAdds DEF Votes
  <2>2. \A p \in Votes(j) : p.num <= node'[j].accepted.num
    BY <1>1, <1>2, <1>3, <1>5
  <2>3. Ordered(node'[j].accepts)
    <3>1. node[j].accepts \in Seq(PairType)
      BY Zenon DEF TypeOK, NodeState
    <3>2. \A k \in 1 .. Len(node[j].accepts) : node[j].accepts[k].num <= node'[j].accepted.num
      BY Zenon, <2>2 DEF Votes
    <3>3. Ordered(Append(node[j].accepts, node'[j].accepted))
      BY Zenon, <1>1, <1>2, <3>1, <3>2, AppendOrdered
    <3> QED BY Zenon, <1>5, <3>3
  <2> QED BY <1>2, <1>5, <2>1, <2>2, <2>3
<1>6. j # i => node'[j] = node[j]
  BY Zenon DEF AcceptorStep
<1> QED BY Zenon, <1>4, <1>5, <1>6 DEF AcceptorStep

\* What a promise says stays true (onPrepare; Promise messages).
LEMMA BacksKept ==
  ASSUME TypeOK, TypeOK', NEW i \in Node, AcceptorStep(i), NEW j \in Node,
         NEW num \in Nat, NEW best \in PairType, Backs(j, num, best)
  PROVE  Backs(j, num, best)'
<1>1. node[j].promised >= num /\ \A p \in Votes(j) : p.num < num => p.num <= best.num
  BY Zenon DEF Backs
<1>2. node'[j].promised >= num
  BY <1>1, VotesGrow
<1>3. ASSUME NEW p \in Votes(j)', p.num < num PROVE p.num <= best.num
  <2>1. p \in PairType /\ p.num \in Nat
    BY VotesGrow DEF PairType
  <2>2. p \in Votes(j) \/ p.num >= node[j].promised
    BY Zenon, VotesGrow
  <2> QED BY <1>1, <1>3, <2>1, <2>2, VotesGrow
<1> QED BY Zenon, <1>2, <1>3 DEF Backs

\* A number that a quorum has moved beyond stays closed (onAccept).
LEMMA ClosedKept ==
  ASSUME TypeOK, TypeOK', NEW i \in Node, AcceptorStep(i),
         NEW c \in Nat, NEW w \in Value \cup {Nil}, Closed(c, w)
  PROVE  Closed(c, w)'
<1>1. PICK Q \in SUBSET Node :
        Quorum(Q) /\ \A j \in Q : node[j].promised > c /\ Pair(c, w) \notin Votes(j)
  BY Zenon DEF Closed
<1>2. Pair(c, w).num = c
  BY Zenon, PairTyped
<1>3. ASSUME NEW j \in Q PROVE node'[j].promised > c /\ Pair(c, w) \notin Votes(j)'
  <2>1. node[j].promised > c /\ Pair(c, w) \notin Votes(j) /\ j \in Node
    BY Zenon, <1>1
  <2>2. /\ node'[j].promised \in Nat /\ node[j].promised \in Nat
        /\ node'[j].promised >= node[j].promised
        /\ \A p \in Votes(j)' :
              p \in Votes(j) \/ (j = i /\ p = node'[i].accepted /\ p.num >= node[i].promised)
    BY Zenon, <2>1, VotesGrow
  <2> QED BY <1>2, <2>1, <2>2
<1> QED BY Zenon, <1>1, <1>3 DEF Closed

\* A proposal that is safe stays safe (onAccept).
LEMMA SafeKept ==
  ASSUME TypeOK, TypeOK', NEW i \in Node, AcceptorStep(i), NEW p \in PairType, Safe(p)
  PROVE  Safe(p)'
<1>1. p.num \in Nat
  BY Zenon DEF PairType
<1>2. \A c \in 0 .. p.num - 1 : c \in Nat
  BY <1>1
<1> QED BY Zenon, <1>2, ClosedKept DEF Safe

\* Proposals are pairs (beginAccepting).
LEMMA IssuedTyped ==
  ASSUME TypeOK
  PROVE  Issued \subseteq PairType
<1> SUFFICES ASSUME NEW p \in Issued PROVE p \in PairType
  BY Zenon
<1>1. CASE \E m \in net : p = Pair(m.num, m.pair.val)
  BY <1>1, PairTyped DEF TypeOK, Message, PairType
<1>2. CASE \E j \in Node : p \in Votes(j)
  BY Zenon, <1>2, VotesTyped
<1> QED BY Zenon, <1>1, <1>2 DEF Issued

\* A proposal is new in a step of node i only if i accepts or sends it.
LEMMA IssuedFrom ==
  ASSUME TypeOK, TypeOK', NEW i \in Node, AcceptorStep(i), net \subseteq net'
  PROVE  /\ Issued \subseteq Issued'
         /\ \A p \in Issued' :
              \/ p \in Issued
              \/ p \in Votes(i)' /\ p \notin Votes(i) /\ p = node'[i].accepted
              \/ \E m \in net' \ net : m.type = "Accept" /\ p = Pair(m.num, m.pair.val)
<1>1. \A p : p \in Issued <=> \/ \E m \in net : m.type = "Accept" /\ p = Pair(m.num, m.pair.val)
                              \/ \E j \in Node : p \in Votes(j)
  BY Zenon DEF Issued
<1>2. \A p : p \in Issued' <=> \/ \E m \in net' : m.type = "Accept" /\ p = Pair(m.num, m.pair.val)
                               \/ \E j \in Node : p \in Votes(j)'
  BY Zenon DEF Issued
<1>3. Issued \subseteq Issued'
  BY <1>1, <1>2, VotesGrow
<1>4. ASSUME NEW p \in Issued', p \notin Issued
      PROVE  \/ p \in Votes(i)' /\ p \notin Votes(i) /\ p = node'[i].accepted
             \/ \E m \in net' \ net : m.type = "Accept" /\ p = Pair(m.num, m.pair.val)
  <2>1. CASE \E m \in net' : m.type = "Accept" /\ p = Pair(m.num, m.pair.val)
    BY Zenon, <1>1, <1>4, <2>1
  <2>2. CASE \E j \in Node : p \in Votes(j)'
    <3>1. PICK j \in Node : p \in Votes(j)'
      BY Zenon, <2>2
    <3>2. p \notin Votes(j)
      BY Zenon, <1>1, <1>4
    <3> QED BY Zenon, <3>1, <3>2, VotesGrow
  <2> QED BY Zenon, <1>2, <1>4, <2>1, <2>2
<1> QED BY Zenon, <1>3, <1>4

\* What was proposed remains proposed (Step on Promise).
LEMMA HeardKept ==
  ASSUME Issued \subseteq Issued', NEW num, NEW best, Heard(num, best)
  PROVE  Heard(num, best)'
BY Zenon DEF Heard

\* An answer on its way remains true (Step on Promise and Accepted).
LEMMA AnswerKept ==
  ASSUME TypeOK, TypeOK', NEW i \in Node, AcceptorStep(i), Issued \subseteq Issued',
         NEW m \in Message, AnswerOK(m)
  PROVE  AnswerOK(m)'
<1> SUFFICES ASSUME m.ok PROVE /\ m.type = "Promise" => Backs(m.from, m.num, m.pair)' /\ Heard(m.num, m.pair)'
                               /\ m.type = "Accepted" => \E p \in Votes(m.from)' : p.num = m.num
  BY Zenon DEF AnswerOK
<1>1. m.from \in Node /\ m.num \in Nat /\ m.pair \in PairType
  BY Zenon DEF Message
<1>2. CASE m.type = "Promise"
  <2>1. Backs(m.from, m.num, m.pair) /\ Heard(m.num, m.pair)
    BY Zenon, <1>2 DEF AnswerOK
  <2> QED BY Zenon, <1>1, <1>2, <2>1, BacksKept, HeardKept
<1>3. CASE m.type = "Accepted"
  <2>1. PICK p \in Votes(m.from) : p.num = m.num
    BY Zenon, <1>3 DEF AnswerOK
  <2>2. Votes(m.from) \subseteq Votes(m.from)'
    BY Zenon, <1>1, VotesGrow
  <2> QED BY Zenon, <1>3, <2>1, <2>2
<1> QED BY Zenon, <1>2, <1>3

\* A proposer whose own fields are left alone.
SameProposer(j) ==
  /\ node'[j].round = node[j].round /\ node'[j].myNum = node[j].myNum
  /\ node'[j].myVal = node[j].myVal /\ node'[j].phase = node[j].phase
  /\ node'[j].promiseMask = node[j].promiseMask /\ node'[j].best = node[j].best
  /\ node'[j].acceptMask = node[j].acceptMask

\* What a proposer has counted remains true while it does nothing (recordPromise).
LEMMA ProposerKept ==
  ASSUME TypeOK, TypeOK', NEW i \in Node, AcceptorStep(i), Issued \subseteq Issued',
         NEW j \in Node, SameProposer(j), ProposerOK(j)
  PROVE  ProposerOK(j)'
<1> DEFINE n == node[j]
<1>1. /\ n.myNum \in Nat /\ n.best \in PairType /\ n.promiseMask \subseteq Node
      /\ n.acceptMask \subseteq Node
  BY Zenon DEF TypeOK, NodeState
<1>2. n.myNum = IF n.phase = "idle" THEN 0 ELSE n.round * N + j
  BY Zenon DEF ProposerOK
<1>3. n.phase = "preparing" =>
        Heard(n.myNum, n.best)' /\ \A k \in n.promiseMask : Backs(k, n.myNum, n.best)'
  <2> SUFFICES ASSUME n.phase = "preparing"
               PROVE  Heard(n.myNum, n.best)' /\ \A k \in n.promiseMask : Backs(k, n.myNum, n.best)'
    BY Zenon
  <2>1. Heard(n.myNum, n.best) /\ \A k \in n.promiseMask : Backs(k, n.myNum, n.best)
    BY Zenon DEF ProposerOK
  <2> QED BY Zenon, <1>1, <2>1, HeardKept, BacksKept DEF SameProposer
<1>4. n.phase \in {"accepting", "decided"} =>
        \A k \in n.acceptMask : Pair(n.myNum, n.myVal) \in Votes(k)'
  <2>1. n.phase \in {"accepting", "decided"} =>
          \A k \in n.acceptMask : Pair(n.myNum, n.myVal) \in Votes(k)
    BY Zenon DEF ProposerOK
  <2>2. \A k \in n.acceptMask : Votes(k) \subseteq Votes(k)'
    BY Zenon, <1>1, VotesGrow
  <2> QED BY Zenon, <2>1, <2>2
<1>5. n.phase = "decided" => Quorum(n.acceptMask)
  BY Zenon DEF ProposerOK
<1> QED BY Zenon, <1>2, <1>3, <1>4, <1>5 DEF ProposerOK, SameProposer

\* The proposer of node j stays with what it has issued or starts a higher round.
Onward(j) ==
  \/ node'[j].myNum > node[j].myNum
  \/ /\ node'[j].myNum = node[j].myNum
     /\ node[j].phase \in {"accepting", "decided"} =>
          node'[j].phase \in {"accepting", "decided"} /\ node'[j].myVal = node[j].myVal

\* A proposer only leaves a proposal for one of a higher number (Propose).
LEMMA IssuedByKept ==
  ASSUME TypeOK, TypeOK', NEW j \in Node, Onward(j), NEW p \in PairType, IssuedBy(j, p)
  PROVE  IssuedBy(j, p)'
<1>1. p.num \in Nat /\ node[j].myNum \in Nat /\ node'[j].myNum \in Nat
  BY Zenon DEF TypeOK, NodeState, PairType
<1>2. Owner(j, p.num)
  BY Zenon DEF IssuedBy
<1>3. CASE p.num < node[j].myNum
  <2>1. p.num < node'[j].myNum
    BY <1>1, <1>3 DEF Onward
  <2> QED BY Zenon, <1>2, <2>1 DEF IssuedBy
<1>4. CASE p = Pair(node[j].myNum, node[j].myVal) /\ node[j].phase \in {"accepting", "decided"}
  <2>1. p.num = node[j].myNum
    BY Zenon, <1>4 DEF Pair
  <2>2. CASE node'[j].myNum > node[j].myNum
    BY Zenon, <1>1, <1>2, <2>1, <2>2 DEF IssuedBy
  <2>3. CASE /\ node'[j].myNum = node[j].myNum
             /\ node'[j].phase \in {"accepting", "decided"} /\ node'[j].myVal = node[j].myVal
    BY Zenon, <1>2, <1>4, <2>3 DEF IssuedBy
  <2> QED BY Zenon, <1>4, <2>2, <2>3 DEF Onward
<1> QED BY Zenon, <1>3, <1>4 DEF IssuedBy

\* A step of node i that issues at most p keeps the invariant, if p is safe and its
\* number is new, the messages it sends tell the truth, and its proposer is right.
LEMMA StepKeeps ==
  ASSUME TypeOK, TypeOK', PaxosInv, NEW i \in Node, AcceptorStep(i), net \subseteq net',
         Onward(i), ProposerOK(i)', \A m \in net' \ net : AnswerOK(m)',
         NEW p, \A q \in Issued' : q \in Issued \/ q = p,
         \/ Issued' \subseteq Issued
         \/ Safe(p)' /\ IssuedBy(i, p)' /\ \A q \in Issued : q.num # p.num
  PROVE  PaxosInv'
<1>1. Issued \subseteq Issued' /\ Issued \subseteq PairType
  BY Zenon, IssuedFrom, IssuedTyped
<1>2. AcceptorInv'
  BY Zenon, AcceptorKept DEF PaxosInv
<1>3. \A m \in net' : AnswerOK(m)'
  <2>1. ASSUME NEW m \in net PROVE AnswerOK(m)'
    <3>1. m \in Message /\ AnswerOK(m)
      BY Zenon DEF TypeOK, PaxosInv
    <3> QED BY Zenon, <1>1, <3>1, AnswerKept
  <2> QED BY Zenon, <2>1
<1>4. ASSUME NEW j \in Node PROVE ProposerOK(j)' /\ Onward(j)
  <2>1. CASE j = i
    BY Zenon, <2>1
  <2>2. CASE j # i
    <3>1. node'[j] = node[j]
      BY Zenon, <2>2 DEF AcceptorStep
    <3>2. SameProposer(j) /\ Onward(j)
      BY Zenon, <3>1 DEF SameProposer, Onward
    <3>3. ProposerOK(j)
      BY Zenon DEF PaxosInv
    <3> QED BY Zenon, <1>1, <3>2, <3>3, ProposerKept
  <2> QED BY Zenon, <2>1, <2>2
<1>5. ASSUME NEW q \in Issued PROVE Safe(q)' /\ \E j \in Node : IssuedBy(j, q)'
  <2>1. q \in PairType /\ Safe(q)
    BY Zenon, <1>1 DEF PaxosInv, IssuedInv
  <2>2. PICK j \in Node : IssuedBy(j, q)
    BY Zenon DEF PaxosInv, IssuedInv
  <2>3. Safe(q)'
    BY Zenon, <2>1, SafeKept
  <2>4. IssuedBy(j, q)'
    BY Zenon, <1>4, <2>1, <2>2, IssuedByKept
  <2> QED BY Zenon, <2>3, <2>4
<1>6. \A q \in Issued' : Safe(q)' /\ \E j \in Node : IssuedBy(j, q)'
  BY Zenon, <1>5
<1>7. \A q, r \in Issued' : q.num = r.num => q = r
  BY Zenon DEF PaxosInv, IssuedInv
<1>8. IssuedInv'
  BY Zenon, <1>6, <1>7 DEF IssuedInv
<1> QED BY Zenon, <1>2, <1>3, <1>4, <1>8 DEF PaxosInv

\* The value of the highest acceptance a quorum reports, or any value if it reports
\* none, is safe: no other can have been chosen below (recordPromise).
LEMMA SafeToIssue ==
  ASSUME TypeOK, TypeOK', PaxosInv, NEW i \in Node, AcceptorStep(i),
         NEW p \in PairType, NEW best \in PairType, NEW Q \in SUBSET Node, Quorum(Q),
         Heard(p.num, best), best.num # 0 => best.val = p.val,
         \A j \in Q : node'[j].promised >= p.num,
         \A j \in Q : \A q \in Votes(j) : q.num < p.num => q.num <= best.num,
         \A j \in Q : \A q \in Votes(j)' : q \in Votes(j) \/ q.num >= p.num
  PROVE  Safe(p)'
<1> SUFFICES ASSUME NEW c \in 0 .. p.num - 1, NEW w \in (Value \cup {Nil}) \ {p.val}
             PROVE  Closed(c, w)'
  BY Zenon DEF Safe
<1>1. c \in Nat /\ p.num \in Nat /\ best.num \in Nat /\ c < p.num
  BY DEF PairType
<1>2. Pair(c, w).num = c /\ Pair(c, w).val = w
  BY Zenon, <1>1, PairTyped
<1>3. CASE c < best.num
  <2>1. best \in Issued /\ best.val = p.val
    BY SMTT(30), <1>1, <1>3 DEF Heard
  <2>2. Closed(c, w)
    BY <1>1, <1>3, <2>1 DEF PaxosInv, IssuedInv, Safe
  <2> QED BY Zenon, <1>1, <2>2, ClosedKept
<1>4. CASE c >= best.num
  <2>1. ASSUME NEW j \in Q PROVE node'[j].promised > c /\ Pair(c, w) \notin Votes(j)'
    <3>1. node'[j].promised \in Nat /\ node'[j].promised >= p.num
      BY Zenon DEF TypeOK, NodeState
    <3>2. SUFFICES ASSUME Pair(c, w) \in Votes(j)' PROVE FALSE
      BY <1>1, <3>1
    <3>3. Pair(c, w) \in Votes(j)
      BY <1>1, <1>2, <3>2
    <3>4. c = best.num
      BY <1>1, <1>2, <1>4, <3>3
    <3>5. Pair(c, w) \in Issued
      BY Zenon, <3>3 DEF Issued
    <3>6. c # 0
      <4>1. PICK k \in Node : Owner(k, c)
        BY Zenon, <1>2, <3>5 DEF PaxosInv, IssuedInv, IssuedBy
      <4>2. PICK r \in Nat : c = r * N + k
        BY <4>1 DEF Owner
      <4>3. N \in Nat /\ k \in Nat /\ k >= 1 /\ r * N \in Nat
        BY NAssumption DEF Node
      <4> QED BY <4>2, <4>3
    <3>7. best \in Issued /\ best.val = p.val
      BY Zenon, <3>4, <3>6 DEF Heard
    <3>8. best = Pair(c, w)
      BY Zenon, <1>2, <3>4, <3>5, <3>7 DEF PaxosInv, IssuedInv
    <3> QED BY Zenon, <1>2, <3>7, <3>8
  <2> QED BY Zenon, <2>1 DEF Closed
<1> QED BY <1>1, <1>3, <1>4

-----------------------------------------------------------------------------
(****************************************************************************)
(* The acceptor handlers keep the invariant.                                *)
(****************************************************************************)

\* An answer a is all that a call sends (Step).
LEMMA ReplyIs ==
  ASSUME NEW n \in NodeState, NEW a \in Message, NEW r, r = [n EXCEPT !.out = {a}]
  PROVE  /\ r \in NodeState
         /\ r.promised = n.promised /\ r.accepted = n.accepted /\ r.accepts = n.accepts
         /\ r.phase = n.phase /\ r.round = n.round /\ r.myNum = n.myNum /\ r.myVal = n.myVal
         /\ r.promiseMask = n.promiseMask /\ r.acceptMask = n.acceptMask /\ r.best = n.best
         /\ r.out = {a}
BY Zenon DEF NodeState

\* A step of node i that leaves its proposer alone and issues nothing.
LEMMA AcceptorKeeps ==
  ASSUME TypeOK, TypeOK', PaxosInv, NEW i \in Node, AcceptorStep(i), net \subseteq net',
         SameProposer(i), Issued' \subseteq Issued, \A m \in net' \ net : AnswerOK(m)'
  PROVE  PaxosInv'
<1>1. Onward(i)
  BY Zenon DEF SameProposer, Onward
<1>2. Issued \subseteq Issued'
  BY Zenon, IssuedFrom
<1>3. ProposerOK(i)
  BY Zenon DEF PaxosInv
<1>4. ProposerOK(i)'
  BY Zenon, <1>2, <1>3, ProposerKept
<1> QED BY Zenon, <1>1, <1>4, StepKeeps

\* A Prepare is answered with what the acceptor has accepted (onPrepare).
LEMMA PrepareKeeps ==
  ASSUME TypeOK, PaxosInv, NEW i \in Node, NEW m \in net, m.type = "Prepare",
         Run(i, StepPrepare(node[i], i, m))
  PROVE  TypeOK' /\ PaxosInv' /\ Abstains
<1>1. /\ m \in Message /\ m.num \in Nat /\ m.from \in Node /\ node[i] \in NodeState
      /\ node[i].promised \in Nat /\ node[i].accepted \in PairType
  BY Zenon DEF TypeOK, Message, NodeState
<1>2. PICK pair \in PairType :
        pair = IF Promises(node[i], m.num) THEN node[i].accepted ELSE None
  BY Zenon, <1>1, NoneTyped
<1>3. PICK n \in NodeState :
      /\ n = onPrepare(node[i], m.num)
      /\ n.promised >= node[i].promised /\ (Promises(node[i], m.num) => n.promised = m.num)
      /\ n.accepted = node[i].accepted /\ n.accepts = node[i].accepts
      /\ n.phase = node[i].phase /\ n.round = node[i].round /\ n.myNum = node[i].myNum
      /\ n.myVal = node[i].myVal /\ n.promiseMask = node[i].promiseMask
      /\ n.acceptMask = node[i].acceptMask /\ n.best = node[i].best
  <2>1. CASE Promises(node[i], m.num)
    <3> DEFINE n == [node[i] EXCEPT !.promised = m.num]
    <3>1. n = onPrepare(node[i], m.num)
      BY Zenon, <2>1 DEF onPrepare
    <3>2. /\ n \in NodeState /\ n.promised >= node[i].promised /\ n.promised = m.num
          /\ n.accepted = node[i].accepted /\ n.accepts = node[i].accepts
          /\ n.phase = node[i].phase /\ n.round = node[i].round /\ n.myNum = node[i].myNum
          /\ n.myVal = node[i].myVal /\ n.promiseMask = node[i].promiseMask
          /\ n.acceptMask = node[i].acceptMask /\ n.best = node[i].best
      BY <1>1, <2>1 DEF NodeState, Promises
    <3> HIDE DEF n
    <3> QED BY Zenon, <3>1, <3>2
  <2>2. CASE ~Promises(node[i], m.num)
    <3>1. node[i] = onPrepare(node[i], m.num)
      BY Zenon, <2>2 DEF onPrepare
    <3> QED BY <1>1, <2>2, <3>1
  <2> QED BY Zenon, <2>1, <2>2
<1>4. PICK a \in Message :
        /\ StepPrepare(node[i], i, m) = [n EXCEPT !.out = {a}]
        /\ a.type = "Promise" /\ a.from = i /\ a.num = m.num /\ a.pair = pair
        /\ a.ok <=> Promises(node[i], m.num)
  <2> DEFINE a == Msg("Promise", i, m.from, m.num, Promises(node[i], m.num), pair)
  <2>1. StepPrepare(node[i], i, m) = [n EXCEPT !.out = {a}]
    BY Zenon, <1>2, <1>3 DEF StepPrepare, Reply
  <2>2. Promises(node[i], m.num) \in BOOLEAN
    BY DEF Promises
  <2>3. /\ a \in Message /\ a.type = "Promise" /\ a.from = i /\ a.num = m.num /\ a.pair = pair
        /\ a.ok = Promises(node[i], m.num)
    BY Zenon, <1>1, <2>2 DEF Msg, Message
  <2> HIDE DEF a
  <2> QED BY Zenon, <2>1, <2>3
<1>5. PICK r : r = [n EXCEPT !.out = {a}]
  BY Zenon
<1>6. /\ r \in NodeState
      /\ r.promised = n.promised /\ r.accepted = n.accepted /\ r.accepts = n.accepts
      /\ r.phase = n.phase /\ r.round = n.round /\ r.myNum = n.myNum /\ r.myVal = n.myVal
      /\ r.promiseMask = n.promiseMask /\ r.acceptMask = n.acceptMask /\ r.best = n.best
      /\ r.out = {a}
  BY <1>5, ReplyIs
<1>7. /\ TypeOK' /\ \A j \in Node \ {i} : node'[j] = node[j]
      /\ node'[i].promised = r.promised /\ node'[i].accepted = r.accepted
      /\ node'[i].accepts = r.accepts /\ node'[i].phase = r.phase
      /\ node'[i].round = r.round /\ node'[i].myNum = r.myNum /\ node'[i].myVal = r.myVal
      /\ node'[i].promiseMask = r.promiseMask /\ node'[i].acceptMask = r.acceptMask
      /\ node'[i].best = r.best
      /\ net' = net \cup r.out
  <2>1. Run(i, r)
    BY Zenon, <1>4, <1>5
  <2> QED BY Zenon, <1>6, <2>1, RunTyped
<1>8. AcceptorStep(i) /\ SameProposer(i) /\ net \subseteq net'
  BY Zenon, <1>3, <1>6, <1>7 DEF AcceptorStep, SameProposer
<1>9. Votes(i)' = Votes(i)
  BY <1>3, <1>6, <1>7 DEF Votes
<1>10. Issued' \subseteq Issued /\ Issued \subseteq Issued'
  BY Zenon, <1>4, <1>6, <1>7, <1>8, <1>9, IssuedFrom
<1>11. AnswerOK(a)'
  <2> SUFFICES ASSUME Promises(node[i], m.num)
               PROVE  Backs(i, a.num, pair)' /\ Heard(a.num, pair)'
    BY Zenon, <1>4 DEF AnswerOK
  <2>1. pair = node[i].accepted /\ a.num > node[i].promised /\ a.num \in Nat
    BY Zenon, <1>1, <1>2, <1>4 DEF Promises
  <2>2. /\ node[i].accepted.num <= node[i].promised
        /\ node[i].accepted.num # 0 => node[i].accepted \in Votes(i)
        /\ \A p \in Votes(i) : p.num <= node[i].accepted.num
    BY Zenon DEF PaxosInv, AcceptorInv
  <2>3. Backs(i, a.num, pair)'
    <3>1. node'[i].promised = a.num
      BY <1>3, <1>4, <1>6, <1>7
    <3> QED BY <1>9, <2>1, <2>2, <3>1 DEF Backs
  <2>4. Heard(a.num, pair)'
    <3>1. pair.num # 0 => pair.num < a.num
      BY <1>1, <2>1, <2>2 DEF PairType
    <3>2. pair.num # 0 => pair \in Issued
      BY Zenon, <2>1, <2>2 DEF Issued
    <3> QED BY Zenon, <1>10, <3>1, <3>2 DEF Heard
  <2> QED BY Zenon, <2>3, <2>4
<1>12. \A k \in net' \ net : AnswerOK(k)'
  BY Zenon, <1>6, <1>7, <1>11
<1>13. Abstains
  <2>1. \A j \in Node : node'[j].accepts = node[j].accepts
    BY Zenon, <1>3, <1>6, <1>7
  <2>2. a.type # "Accept"
    BY <1>4
  <2> QED BY Zenon, <1>6, <1>7, <2>1, <2>2 DEF Abstains
<1> QED BY Zenon, <1>7, <1>8, <1>10, <1>12, <1>13, AcceptorKeeps

\* An Accept is accepted unless the acceptor has promised beyond it (onAccept).
LEMMA AcceptKeeps ==
  ASSUME TypeOK, PaxosInv, NEW i \in Node, NEW m \in net, m.type = "Accept",
         Run(i, StepAccept(node[i], i, m))
  PROVE  /\ TypeOK' /\ PaxosInv' /\ Takes(i, Pair(m.num, m.pair.val))
         /\ \A k \in net' \ net : k.type # "Accept"
<1>1. /\ m \in Message /\ m.num \in Nat /\ m.from \in Node /\ node[i] \in NodeState
      /\ m.pair.val \in Value \cup {Nil} /\ node[i].promised \in Nat
  BY Zenon DEF TypeOK, Message, NodeState, PairType
<1>2. PICK p \in PairType : p = Pair(m.num, m.pair.val) /\ p.num = m.num
  BY <1>1, PairTyped
<1>3. PICK n : n = onAccept(node[i], m.num, m.pair.val)
  BY Zenon
<1>4. /\ n \in NodeState
      /\ n.phase = node[i].phase /\ n.round = node[i].round /\ n.myNum = node[i].myNum
      /\ n.myVal = node[i].myVal /\ n.promiseMask = node[i].promiseMask
      /\ n.acceptMask = node[i].acceptMask /\ n.best = node[i].best
      /\ Accepts(node[i], m.num) => /\ n.promised = m.num /\ n.accepted = p
                                    /\ n.accepts = Append(node[i].accepts, p)
      /\ ~Accepts(node[i], m.num) => n = node[i]
  <2>1. PICK k \in NodeState : k = node[i]
    BY Zenon, <1>1
  <2>2. PICK num \in Nat : num = m.num
    BY Zenon, <1>1
  <2>3. PICK val \in Value \cup {Nil} : val = m.pair.val
    BY Zenon, <1>1
  <2>4. n = onAccept(k, num, val) /\ p = Pair(num, val)
    BY Zenon, <1>2, <1>3, <2>1, <2>2, <2>3
  <2>5. /\ n \in NodeState
        /\ n.phase = k.phase /\ n.round = k.round /\ n.myNum = k.myNum /\ n.myVal = k.myVal
        /\ n.promiseMask = k.promiseMask /\ n.acceptMask = k.acceptMask
        /\ n.best = k.best
        /\ Accepts(k, num) => /\ n.promised = num /\ n.accepted = Pair(num, val)
                              /\ n.accepts = Append(k.accepts, Pair(num, val))
        /\ ~Accepts(k, num) => n = k
    BY <2>4, OnAcceptIs
  <2> QED BY Zenon, <2>1, <2>2, <2>4, <2>5
<1>5. PICK a \in Message :
        /\ StepAccept(node[i], i, m) = [n EXCEPT !.out = {a}]
        /\ a.type = "Accepted" /\ a.from = i /\ a.num = m.num
        /\ a.ok <=> Accepts(node[i], m.num)
  <2> DEFINE a == Msg("Accepted", i, m.from, m.num, Accepts(node[i], m.num), None)
  <2>1. StepAccept(node[i], i, m) = [n EXCEPT !.out = {a}]
    BY Zenon, <1>3 DEF StepAccept, Reply
  <2>2. Accepts(node[i], m.num) \in BOOLEAN
    BY DEF Accepts
  <2>3. /\ a \in Message /\ a.type = "Accepted" /\ a.from = i /\ a.num = m.num
        /\ a.ok = Accepts(node[i], m.num)
    BY Zenon, <1>1, <2>2, NoneTyped DEF Msg, Message
  <2> HIDE DEF a
  <2> QED BY Zenon, <2>1, <2>3
<1>6. PICK r : r = [n EXCEPT !.out = {a}]
  BY Zenon
<1>7. /\ r \in NodeState
      /\ r.promised = n.promised /\ r.accepted = n.accepted /\ r.accepts = n.accepts
      /\ r.phase = n.phase /\ r.round = n.round /\ r.myNum = n.myNum /\ r.myVal = n.myVal
      /\ r.promiseMask = n.promiseMask /\ r.acceptMask = n.acceptMask /\ r.best = n.best
      /\ r.out = {a}
  BY <1>4, <1>6, ReplyIs
<1>8. /\ TypeOK' /\ \A j \in Node \ {i} : node'[j] = node[j]
      /\ node'[i].promised = r.promised /\ node'[i].accepted = r.accepted
      /\ node'[i].accepts = r.accepts /\ node'[i].phase = r.phase
      /\ node'[i].round = r.round /\ node'[i].myNum = r.myNum /\ node'[i].myVal = r.myVal
      /\ node'[i].promiseMask = r.promiseMask /\ node'[i].acceptMask = r.acceptMask
      /\ node'[i].best = r.best
      /\ net' = net \cup r.out
  <2>1. Run(i, r)
    BY Zenon, <1>5, <1>6
  <2> QED BY Zenon, <1>7, <2>1, RunTyped
<1>9. SameProposer(i) /\ net \subseteq net'
  BY Zenon, <1>4, <1>7, <1>8 DEF SameProposer
<1>10. AcceptorStep(i)
  BY <1>1, <1>2, <1>4, <1>7, <1>8 DEF AcceptorStep, Accepts
<1>11. \A q \in Votes(i)' : q \in Votes(i) \/ q = p
  <2>1. CASE Accepts(node[i], m.num)
    BY Zenon, <1>4, <1>7, <1>8, <1>10, <2>1, VotesGrow
  <2>2. CASE ~Accepts(node[i], m.num)
    BY <1>4, <1>7, <1>8, <2>2 DEF Votes
  <2> QED BY Zenon, <2>1, <2>2
<1>12. Issued' \subseteq Issued
  <2>1. p \in Issued
    BY Zenon, <1>2 DEF Issued
  <2> QED BY Zenon, <1>5, <1>7, <1>8, <1>9, <1>10, <1>11, <2>1, IssuedFrom
<1>13. AnswerOK(a)'
  <2>1. ASSUME Accepts(node[i], m.num) PROVE p \in Votes(i)'
    <3>1. node'[i].accepts = Append(node[i].accepts, p)
      BY Zenon, <1>4, <1>7, <1>8, <2>1
    <3>2. node[i].accepts \in Seq(PairType)
      BY Zenon, <1>1 DEF NodeState
    <3> QED BY SMTT(30), <3>1, <3>2, AppendAdds DEF Votes
  <2> QED BY Zenon, <1>2, <1>5, <2>1 DEF AnswerOK
<1>14. \A k \in net' \ net : AnswerOK(k)'
  BY Zenon, <1>7, <1>8, <1>13
<1>15. Takes(i, p) /\ \A k \in net' \ net : k.type # "Accept"
  BY Zenon, <1>4, <1>5, <1>7, <1>8 DEF Takes
<1> QED BY Zenon, <1>2, <1>8, <1>9, <1>10, <1>12, <1>14, <1>15, AcceptorKeeps

\* A call that leaves its node as it was keeps everything.
LEMMA IdleKeeps ==
  ASSUME TypeOK, PaxosInv, NEW i \in Node, Run(i, node[i])
  PROVE  TypeOK' /\ PaxosInv' /\ Abstains
<1>1. node[i] \in NodeState /\ node[i].out = {} /\ node[i].promised \in Nat
  BY Zenon DEF TypeOK, NodeState
<1>2. /\ TypeOK' /\ AcceptorStep(i) /\ SameProposer(i) /\ net' = net
      /\ node'[i].accepts = node[i].accepts
  <2>1. PICK n \in NodeState : n = node[i]
    BY Zenon, <1>1
  <2>2. Run(i, n)
    BY Zenon, <2>1
  <2>3. /\ TypeOK' /\ \A j \in Node \ {i} : node'[j] = node[j]
        /\ node'[i].promised = n.promised /\ node'[i].accepted = n.accepted
        /\ node'[i].accepts = n.accepts /\ node'[i].phase = n.phase
        /\ node'[i].round = n.round /\ node'[i].myNum = n.myNum /\ node'[i].myVal = n.myVal
        /\ node'[i].promiseMask = n.promiseMask /\ node'[i].acceptMask = n.acceptMask
        /\ node'[i].best = n.best
        /\ net' = net \cup n.out
    BY Zenon, <2>2, RunTyped
  <2> QED BY <1>1, <2>1, <2>3 DEF AcceptorStep, SameProposer
<1>3. Issued' \subseteq Issued
  <2>1. Votes(i)' = Votes(i)
    BY Zenon, <1>2 DEF Votes
  <2> QED BY Zenon, <1>2, <2>1, IssuedFrom
<1>4. Abstains
  BY Zenon, <1>2 DEF Abstains, AcceptorStep
<1> QED BY Zenon, <1>2, <1>3, <1>4, AcceptorKeeps

-----------------------------------------------------------------------------
(****************************************************************************)
(* The proposer operations keep the invariant.                              *)
(****************************************************************************)

\* j, or the node i that is at n by now, has promised n's number and reported best.
Counted(j, i, n, best) ==
  /\ (IF j = i THEN n.promised ELSE node[j].promised) >= n.myNum
  /\ \A p \in Votes(j) : p.num < n.myNum => p.num <= best.num

\* Within a call, node i is at m: it has asked for promises of its own new number,
\* and what it has counted of them is right.
Recorded(i, m) ==
  /\ m.accepted = node[i].accepted /\ m.accepts = node[i].accepts
  /\ m.promised >= node[i].promised
  /\ m.phase = "preparing" /\ m.myNum = m.round * N + i /\ Owner(i, m.myNum)
  /\ \/ m.myNum > node[i].myNum
     \/ m.myNum = node[i].myNum /\ node[i].phase = "preparing"
  /\ Heard(m.myNum, m.best)
  /\ \A j \in m.promiseMask : Counted(j, i, m, m.best)
  /\ \A k \in m.out : k.type = "Prepare"

\* The number of a proposer that still collects promises has not been proposed
\* (Propose: every round has a number of its own).
LEMMA NumberFresh ==
  ASSUME TypeOK, PaxosInv, NEW i \in Node, NEW m \in NodeState, Recorded(i, m)
  PROVE  \A q \in Issued : q.num # m.myNum
<1> SUFFICES ASSUME NEW q \in Issued, q.num = m.myNum PROVE FALSE
  BY Zenon
<1>1. m.myNum \in Nat /\ node[i].myNum \in Nat
  BY Zenon DEF NodeState, TypeOK
<1>2. /\ Owner(i, m.myNum)
      /\ \/ m.myNum > node[i].myNum
         \/ m.myNum = node[i].myNum /\ node[i].phase = "preparing"
  BY Zenon DEF Recorded
<1>3. PICK j \in Node : IssuedBy(j, q)
  BY Zenon DEF PaxosInv, IssuedInv
<1>4. j = i
  BY Zenon, <1>1, <1>2, <1>3, OwnerUnique DEF IssuedBy
<1>5. q.num < node[i].myNum \/ (q.num = node[i].myNum /\ node[i].phase # "preparing")
  BY <1>3, <1>4 DEF IssuedBy, Pair
<1> QED BY <1>1, <1>2, <1>5

\* Short of a quorum of promises the proposer waits (recordPromise).
LEMMA WaitKeeps ==
  ASSUME TypeOK, PaxosInv, NEW i \in Node, NEW m \in NodeState, Recorded(i, m), Run(i, m)
  PROVE  TypeOK' /\ PaxosInv' /\ Abstains
<1>1. /\ m.accepted = node[i].accepted /\ m.accepts = node[i].accepts
      /\ m.promised >= node[i].promised
      /\ m.phase = "preparing" /\ m.myNum = m.round * N + i /\ Owner(i, m.myNum)
      /\ \/ m.myNum > node[i].myNum
         \/ m.myNum = node[i].myNum /\ node[i].phase = "preparing"
      /\ Heard(m.myNum, m.best)
      /\ \A k \in m.out : k.type = "Prepare"
  BY Zenon DEF Recorded
<1>2. /\ m.best \in PairType /\ m.best.num \in Nat /\ m.myNum \in Nat /\ m.promised \in Nat
      /\ m.promiseMask \subseteq Node
      /\ node[i].promised \in Nat /\ node[i].myNum \in Nat
  BY Zenon DEF NodeState, PairType, TypeOK
<1>3. ASSUME NEW j \in m.promiseMask
      PROVE  /\ j = i => m.promised >= m.myNum
             /\ j # i => node[j].promised >= m.myNum
             /\ \A p \in Votes(j) : p.num < m.myNum => p.num <= m.best.num
  BY Zenon DEF Recorded, Counted
<1>4. /\ TypeOK' /\ \A j \in Node \ {i} : node'[j] = node[j]
      /\ node'[i].promised = m.promised /\ node'[i].accepted = m.accepted
      /\ node'[i].accepts = m.accepts /\ node'[i].phase = m.phase
      /\ node'[i].round = m.round /\ node'[i].myNum = m.myNum /\ node'[i].myVal = m.myVal
      /\ node'[i].promiseMask = m.promiseMask /\ node'[i].best = m.best
      /\ net' = net \cup m.out
  BY Zenon, RunTyped
<1>5. AcceptorStep(i) /\ net \subseteq net'
  BY Zenon, <1>1, <1>4 DEF AcceptorStep
<1>6. Onward(i)
  BY Zenon, <1>1, <1>4 DEF Onward
<1>7. \A k \in net' \ net : k.type = "Prepare"
  BY Zenon, <1>1, <1>4
<1>8. Issued \subseteq Issued' /\ \A q \in Issued' : q \in Issued
  <2>1. Votes(i)' = Votes(i)
    BY <1>1, <1>4 DEF Votes
  <2> QED BY Zenon, <1>4, <1>5, <1>7, <2>1, IssuedFrom
<1>9. \A k \in net' \ net : AnswerOK(k)'
  BY Zenon, <1>7 DEF AnswerOK
<1>10. ProposerOK(i)'
  <2>1. Heard(m.myNum, m.best)'
    BY Zenon, <1>1, <1>4, <1>8, HeardKept
  <2>2. ASSUME NEW j \in m.promiseMask PROVE Backs(j, m.myNum, m.best)'
    <3>1. j \in Node
      BY Zenon, <1>2
    <3>2. node'[j].promised >= m.myNum
      BY Zenon, <1>3, <1>4, <3>1
    <3>3. Votes(j)' = Votes(j)
      BY <1>1, <1>4, <3>1 DEF Votes
    <3> QED BY Zenon, <1>3, <3>2, <3>3 DEF Backs
  <2> QED BY Zenon, <1>1, <1>4, <2>1, <2>2 DEF ProposerOK
<1>11. Abstains
  BY Zenon, <1>1, <1>4, <1>7 DEF Abstains
<1> QED BY Zenon, <1>4, <1>5, <1>6, <1>8, <1>9, <1>10, <1>11, StepKeeps

\* With a quorum of promises phase two begins (recordPromise).
LEMMA BeginKeeps ==
  ASSUME TypeOK, PaxosInv, NEW i \in Node, NEW m \in NodeState, Recorded(i, m),
         Quorum(m.promiseMask), Run(i, beginAccepting(m, i))
  PROVE  TypeOK' /\ PaxosInv' /\ \E p \in PairType : Issues(i, p)
<1>1. /\ m.accepted = node[i].accepted /\ m.accepts = node[i].accepts
      /\ m.promised >= node[i].promised
      /\ m.phase = "preparing" /\ m.myNum = m.round * N + i /\ Owner(i, m.myNum)
      /\ \/ m.myNum > node[i].myNum
         \/ m.myNum = node[i].myNum /\ node[i].phase = "preparing"
      /\ Heard(m.myNum, m.best)
      /\ \A k \in m.out : k.type = "Prepare"
  BY Zenon DEF Recorded
<1>2. /\ m.best \in PairType /\ m.best.num \in Nat /\ m.myNum \in Nat /\ m.promised \in Nat
      /\ m.promiseMask \subseteq Node
      /\ node[i].promised \in Nat /\ node[i].myNum \in Nat
  BY Zenon DEF NodeState, PairType, TypeOK
<1>3. ASSUME NEW j \in m.promiseMask
      PROVE  /\ j = i => m.promised >= m.myNum
             /\ j # i => node[j].promised >= m.myNum
             /\ \A p \in Votes(j) : p.num < m.myNum => p.num <= m.best.num
  BY Zenon DEF Recorded, Counted
<1>4. \A q \in Issued : q.num # m.myNum
  BY Zenon, NumberFresh
<1>5. PICK r : r = beginAccepting(m, i)
  BY Zenon
<1>6. /\ r \in NodeState
      /\ r.round = m.round /\ r.myNum = m.myNum /\ r.myVal = Adopted(m)
      /\ r.phase \in {"accepting", "decided"}
      /\ r.phase = "decided" => Quorum(r.acceptMask)
      /\ r.out \subseteq m.out \cup ToPeers("Accept", i, m.myNum, Pair(m.myNum, r.myVal))
      /\ Accepts(m, m.myNum) => /\ r.promised = m.myNum /\ r.accepted = Pair(m.myNum, r.myVal)
                                /\ r.accepts = Append(m.accepts, r.accepted)
                                /\ r.acceptMask = {i}
      /\ ~Accepts(m, m.myNum) => /\ r.promised = m.promised /\ r.accepted = m.accepted
                                 /\ r.accepts = m.accepts /\ r.acceptMask = {}
  BY <1>5, BeginAcceptingIs
<1>7. Run(i, r)
  BY Zenon, <1>5
<1>8. /\ TypeOK' /\ \A j \in Node \ {i} : node'[j] = node[j]
      /\ node'[i].promised = r.promised /\ node'[i].accepted = r.accepted
      /\ node'[i].accepts = r.accepts /\ node'[i].phase = r.phase
      /\ node'[i].round = r.round /\ node'[i].myNum = r.myNum /\ node'[i].myVal = r.myVal
      /\ node'[i].acceptMask = r.acceptMask
      /\ net' = net \cup r.out
  BY Zenon, <1>6, <1>7, RunTyped
<1>9. PICK p \in PairType : p = Pair(m.myNum, r.myVal) /\ p.num = m.myNum /\ p.val = r.myVal
  <2>1. r.myVal \in Value \cup {Nil}
    BY Zenon, <1>6 DEF NodeState
  <2> QED BY <1>2, <2>1, PairTyped
<1>10. AcceptorStep(i) /\ net \subseteq net'
  BY SMTT(60), <1>1, <1>2, <1>6, <1>8, <1>9 DEF AcceptorStep, Accepts
<1>11. Onward(i)
  BY Zenon, <1>1, <1>6, <1>8 DEF Onward
<1>12. \A k \in net' \ net :
        k.type = "Prepare" \/ (k.type = "Accept" /\ k.num = p.num /\ k.pair = p)
  <2>1. \A k \in ToPeers("Accept", i, m.myNum, p) : k.type = "Accept" /\ k.num = p.num /\ k.pair = p
    BY <1>9 DEF ToPeers, Msg
  <2> QED BY Zenon, <1>1, <1>6, <1>8, <1>9, <2>1
<1>13. \A q \in Votes(i)' : q \in Votes(i) \/ q = p
  <2>1. CASE Accepts(m, m.myNum)
    BY Zenon, <1>6, <1>8, <1>9, <1>10, <2>1, VotesGrow
  <2>2. CASE ~Accepts(m, m.myNum)
    BY <1>1, <1>6, <1>8, <2>2 DEF Votes
  <2> QED BY Zenon, <2>1, <2>2
<1>14. \A q \in Issued' : q \in Issued \/ q = p
  <2>1. \A k \in net' \ net : k.type = "Accept" => Pair(k.num, k.pair.val) = p
    BY Zenon, <1>9, <1>12
  <2> QED BY Zenon, <1>8, <1>10, <1>13, <2>1, IssuedFrom
<1>15. \A k \in net' \ net : AnswerOK(k)'
  BY Zenon, <1>12 DEF AnswerOK
<1>16. ProposerOK(i)'
  <2>1. \A j \in r.acceptMask : p \in Votes(j)'
    <3>1. CASE Accepts(m, m.myNum)
      <4>1. node'[i].accepts = Append(node[i].accepts, p)
        BY Zenon, <1>1, <1>6, <1>8, <1>9, <3>1
      <4>2. node[i].accepts \in Seq(PairType)
        BY Zenon DEF TypeOK, NodeState
      <4>3. p \in Votes(i)'
        BY SMTT(30), <4>1, <4>2, AppendAdds DEF Votes
      <4> QED BY Zenon, <1>6, <3>1, <4>3
    <3>2. CASE ~Accepts(m, m.myNum)
      BY Zenon, <1>6, <3>2
    <3> QED BY Zenon, <3>1, <3>2
  <2> QED BY Zenon, <1>1, <1>6, <1>8, <1>9, <2>1 DEF ProposerOK
<1>17. IssuedBy(i, p)'
  BY SMTT(30), <1>1, <1>6, <1>8, <1>9 DEF IssuedBy
<1>18. Safe(p)'
  <2>1. \A j \in m.promiseMask : node'[j].promised >= p.num
    BY <1>2, <1>3, <1>6, <1>8, <1>9
  <2>2. \A j \in m.promiseMask : \A q \in Votes(j) : q.num < p.num => q.num <= m.best.num
    BY Zenon, <1>3, <1>9
  <2>3. \A j \in m.promiseMask : \A q \in Votes(j)' : q \in Votes(j) \/ q.num >= p.num
    <3>1. \A j \in m.promiseMask : j # i => Votes(j)' = Votes(j)
      BY SMTT(30), <1>2, <1>8 DEF Votes
    <3>2. p.num >= p.num
      BY <1>2, <1>9
    <3> QED BY Zenon, <1>13, <3>1, <3>2
  <2>4. m.best.num # 0 => m.best.val = p.val
    BY Zenon, <1>6, <1>9 DEF Adopted
  <2>5. Heard(p.num, m.best)
    BY Zenon, <1>1, <1>9
  <2> QED BY SMTT(30), <1>2, <1>8, <1>10, <2>1, <2>2, <2>3, <2>4, <2>5, SafeToIssue
<1>19. \A q \in Issued : q.num # p.num
  BY Zenon, <1>4, <1>9
<1>20. Issues(i, p)
  <2>1. Takes(i, p)
    BY Zenon, <1>1, <1>6, <1>8, <1>9 DEF Takes
  <2>2. \A k \in ToPeers("Accept", i, m.myNum, p) :
          k.to # i /\ k = Msg("Accept", i, k.to, m.myNum, TRUE, p)
    <3>1. SUFFICES ASSUME NEW k \in ToPeers("Accept", i, m.myNum, p)
                   PROVE  k.to # i /\ k = Msg("Accept", i, k.to, m.myNum, TRUE, p)
      BY Zenon
    <3>2. PICK to \in Node \ {i} : k = Msg("Accept", i, to, m.myNum, TRUE, p)
      BY Zenon DEF ToPeers
    <3>3. k.to = to
      BY <3>2 DEF Msg
    <3> QED BY Zenon, <3>2, <3>3
  <2>3. \A k \in net' \ net : k.type = "Accept" => k \in ToPeers("Accept", i, m.myNum, p)
    BY Zenon, <1>1, <1>6, <1>8, <1>9
  <2> QED BY Zenon, <1>1, <1>9, <1>19, <2>1, <2>2, <2>3 DEF Issues
<1> QED BY Zenon, <1>8, <1>10, <1>11, <1>14, <1>15, <1>16, <1>17, <1>18, <1>19, <1>20, StepKeeps

\* Node i, at n within a call, records a promise and may begin phase two
\* (recordPromise, called by Propose and by Step on Promise).
LEMMA RecordKeeps ==
  ASSUME TypeOK, PaxosInv, NEW i \in Node, NEW n \in NodeState, Recorded(i, n),
         NEW from \in Node, NEW pair \in PairType, Run(i, recordPromise(n, i, from, pair)),
         Heard(n.myNum, pair), Counted(from, i, n, pair)
  PROVE  TypeOK' /\ PaxosInv' /\ Proposes(i)
<1>1. PICK m \in NodeState :
           /\ m.promiseMask = n.promiseMask \cup {from} /\ m.best = Better(n, pair)
           /\ m.promised = n.promised /\ m.accepted = n.accepted /\ m.accepts = n.accepts
           /\ m.phase = n.phase /\ m.round = n.round /\ m.myNum = n.myNum /\ m.myVal = n.myVal
           /\ m.acceptMask = n.acceptMask /\ m.out = n.out
           /\ recordPromise(n, i, from, pair) =
                IF Quorum(m.promiseMask) THEN beginAccepting(m, i) ELSE m
  BY RecordPromiseIs
<1>2. /\ m.best.num \in Nat /\ n.best.num \in Nat /\ pair.num \in Nat
      /\ m.promiseMask \subseteq Node
  BY Zenon DEF NodeState, PairType
<1>3. /\ Heard(m.myNum, m.best)
      /\ m.best.num >= n.best.num /\ m.best.num >= pair.num
  <2>1. Heard(n.myNum, n.best)
    BY Zenon DEF Recorded
  <2> QED BY <1>1, <1>2, <2>1 DEF Better, Heard
<1>4. ASSUME NEW j \in m.promiseMask PROVE Counted(j, i, m, m.best)
  <2>1. \A p \in Votes(j) : p.num \in Nat
    BY Zenon, <1>2, VotesTyped DEF PairType
  <2>2. Counted(j, i, n, n.best) \/ Counted(j, i, n, pair)
    BY Zenon, <1>1 DEF Recorded
  <2> QED BY <1>1, <1>2, <1>3, <2>1, <2>2 DEF Counted
<1>5. Recorded(i, m)
  BY Zenon, <1>1, <1>3, <1>4 DEF Recorded
<1>6. CASE Quorum(m.promiseMask)
  BY Zenon, <1>1, <1>5, <1>6, BeginKeeps DEF Proposes
<1>7. CASE ~Quorum(m.promiseMask)
  BY Zenon, <1>1, <1>5, <1>7, WaitKeeps DEF Proposes
<1> QED BY Zenon, <1>6, <1>7

\* A Promise of the current round is recorded, any other ignored (Step).
LEMMA PromiseKeeps ==
  ASSUME TypeOK, PaxosInv, NEW i \in Node, NEW m \in net, m.type = "Promise",
         Run(i, StepPromise(node[i], i, m))
  PROVE  TypeOK' /\ PaxosInv' /\ Proposes(i)
<1>1. CASE m.num # node[i].myNum \/ node[i].phase # "preparing" \/ ~m.ok
  BY Zenon, <1>1, IdleKeeps DEF StepPromise, Proposes
<1>2. CASE m.num = node[i].myNum /\ node[i].phase = "preparing" /\ m.ok
  <2>1. /\ m \in Message /\ m.from \in Node /\ m.pair \in PairType /\ node[i] \in NodeState
        /\ node[i].out = {} /\ node[i].promised \in Nat /\ node[i].round \in Nat
    BY Zenon DEF TypeOK, Message, NodeState
  <2>2. Run(i, recordPromise(node[i], i, m.from, m.pair))
    BY Zenon, <1>2 DEF StepPromise
  <2>3. node[i].myNum = node[i].round * N + i /\ Owner(i, node[i].myNum)
    <3>1. node[i].myNum = node[i].round * N + i
      BY Zenon, <1>2 DEF PaxosInv, ProposerOK
    <3> QED BY Zenon, <2>1, <3>1, NumberOwned
  <2>4. /\ Heard(node[i].myNum, node[i].best)
        /\ \A j \in node[i].promiseMask : Backs(j, node[i].myNum, node[i].best)
    BY Zenon, <1>2 DEF PaxosInv, ProposerOK
  <2>5. Heard(node[i].myNum, m.pair) /\ Backs(m.from, node[i].myNum, m.pair)
    BY Zenon, <1>2 DEF PaxosInv, AnswerOK
  <2>6. /\ \A j \in node[i].promiseMask : Counted(j, i, node[i], node[i].best)
        /\ Counted(m.from, i, node[i], m.pair)
    BY Zenon, <2>4, <2>5 DEF Counted, Backs
  <2>7. \A k \in node[i].out : k.type = "Prepare"
    BY Zenon, <2>1
  <2>8. node[i].promised >= node[i].promised
    BY <2>1
  <2>9. Recorded(i, node[i])
    BY Zenon, <1>2, <2>3, <2>4, <2>6, <2>7, <2>8 DEF Recorded
  <2> QED BY Zenon, <2>1, <2>2, <2>5, <2>6, <2>9, RecordKeeps
<1> QED BY Zenon, <1>1, <1>2

\* An acceptance of the current proposal is counted, any other ignored (Step).
LEMMA AcceptedKeeps ==
  ASSUME TypeOK, PaxosInv, NEW i \in Node, NEW m \in net, m.type = "Accepted",
         Run(i, StepAccepted(node[i], i, m))
  PROVE  TypeOK' /\ PaxosInv' /\ Abstains
<1>1. CASE m.num # node[i].myNum \/ node[i].phase # "accepting" \/ ~m.ok
  BY Zenon, <1>1, IdleKeeps DEF StepAccepted
<1>2. CASE m.num = node[i].myNum /\ node[i].phase = "accepting" /\ m.ok
  <2>1. /\ m.from \in Node /\ node[i] \in NodeState /\ node[i].out = {}
        /\ node[i].promised \in Nat /\ node[i].round \in Nat /\ node[i].myNum \in Nat
        /\ node[i].acceptMask \subseteq Node
    BY Zenon DEF TypeOK, Message, NodeState
  <2>2. PICK mask \in SUBSET Node : mask = node[i].acceptMask \cup {m.from}
    BY Zenon, <2>1
  <2>3. PICK r \in NodeState :
          /\ r = StepAccepted(node[i], i, m)
          /\ r.promised = node[i].promised /\ r.accepted = node[i].accepted
          /\ r.accepts = node[i].accepts /\ r.round = node[i].round
          /\ r.myNum = node[i].myNum /\ r.myVal = node[i].myVal /\ r.acceptMask = mask
          /\ r.phase = IF Quorum(mask) THEN "decided" ELSE "accepting"
          /\ r.out = {}
    <3> DEFINE r == [node[i] EXCEPT !.acceptMask = mask,
                                    !.phase = IF Quorum(mask) THEN "decided" ELSE @]
    <3>1. r = StepAccepted(node[i], i, m)
      BY Zenon, <1>2, <2>2 DEF StepAccepted
    <3>2. /\ r \in NodeState
          /\ r.promised = node[i].promised /\ r.accepted = node[i].accepted
          /\ r.accepts = node[i].accepts /\ r.round = node[i].round
          /\ r.myNum = node[i].myNum /\ r.myVal = node[i].myVal /\ r.acceptMask = mask
          /\ r.phase = IF Quorum(mask) THEN "decided" ELSE "accepting"
          /\ r.out = {}
      BY Zenon, <1>2, <2>1 DEF NodeState
    <3> HIDE DEF r
    <3> QED BY Zenon, <3>1, <3>2
  <2>4. /\ TypeOK' /\ \A j \in Node \ {i} : node'[j] = node[j]
        /\ node'[i].promised = r.promised /\ node'[i].accepted = r.accepted
        /\ node'[i].accepts = r.accepts /\ node'[i].phase = r.phase
        /\ node'[i].round = r.round /\ node'[i].myNum = r.myNum /\ node'[i].myVal = r.myVal
        /\ node'[i].acceptMask = r.acceptMask
        /\ net' = net \cup r.out
    BY Zenon, <2>3, RunTyped
  <2>5. AcceptorStep(i) /\ net' = net
    BY <2>1, <2>3, <2>4 DEF AcceptorStep
  <2>6. Onward(i)
    BY Zenon, <2>3, <2>4 DEF Onward
  <2>7. Issued' \subseteq Issued
    <3>1. Votes(i)' = Votes(i)
      BY <2>3, <2>4 DEF Votes
    <3> QED BY Zenon, <2>4, <2>5, <3>1, IssuedFrom
  <2>8. Pair(node[i].myNum, node[i].myVal) \in Votes(m.from)
    <3>1. PICK p \in Votes(m.from) : p.num = node[i].myNum
      BY Zenon, <1>2 DEF PaxosInv, AnswerOK
    <3>2. p \in Issued
      BY Zenon, <2>1, <3>1 DEF Issued
    <3>3. PICK j \in Node : IssuedBy(j, p)
      BY Zenon, <3>2 DEF PaxosInv, IssuedInv
    <3>4. Owner(i, node[i].myNum)
      <4>1. node[i].myNum = node[i].round * N + i
        BY Zenon, <1>2 DEF PaxosInv, ProposerOK
      <4> QED BY Zenon, <2>1, <4>1, NumberOwned
    <3>5. j = i
      BY Zenon, <2>1, <3>1, <3>3, <3>4, OwnerUnique DEF IssuedBy
    <3>6. p = Pair(node[i].myNum, node[i].myVal)
      BY <2>1, <3>1, <3>3, <3>5 DEF IssuedBy
    <3> QED BY Zenon, <3>1, <3>6
  <2>9. ProposerOK(i)'
    <3>1. /\ node[i].myNum = node[i].round * N + i
          /\ \A j \in node[i].acceptMask : Pair(node[i].myNum, node[i].myVal) \in Votes(j)
      BY Zenon, <1>2 DEF PaxosInv, ProposerOK
    <3>2. \A j \in mask : Pair(node[i].myNum, node[i].myVal) \in Votes(j)
      BY Zenon, <2>2, <2>8, <3>1
    <3>3. \A j \in mask : Pair(node[i].myNum, node[i].myVal) \in Votes(j)'
      BY SMTT(30), <2>4, <2>5, <3>2, VotesGrow
    <3>4. \A j \in node'[i].acceptMask : Pair(node'[i].myNum, node'[i].myVal) \in Votes(j)'
      BY Zenon, <2>3, <2>4, <3>3
    <3>5. node'[i].myNum = node'[i].round * N + i /\ node'[i].phase \in {"accepting", "decided"}
      BY Zenon, <2>3, <2>4, <3>1
    <3>6. node'[i].phase = "decided" => Quorum(node'[i].acceptMask)
      BY Zenon, <2>3, <2>4
    <3> QED BY SMTT(30), <3>4, <3>5, <3>6 DEF ProposerOK
  <2>10. Abstains
    BY Zenon, <2>3, <2>4, <2>5 DEF Abstains
  <2> QED BY Zenon, <2>4, <2>5, <2>6, <2>7, <2>9, <2>10, StepKeeps
<1> QED BY Zenon, <1>1, <1>2

\* A new round asks for promises, that of the own acceptor first (Propose, called
\* by clients and by Tick).
LEMMA ProposeKeeps ==
  ASSUME TypeOK, PaxosInv, NEW i \in Node, NEW val \in Value \cup {Nil},
         Run(i, Propose(node[i], i, val))
  PROVE  TypeOK' /\ PaxosInv' /\ Proposes(i)
<1>1. /\ node[i] \in NodeState /\ node[i].promised \in Nat /\ node[i].round \in Nat
      /\ node[i].accepted \in PairType /\ node[i].accepted.num \in Nat /\ node[i].myNum \in Nat
  BY Zenon DEF TypeOK, NodeState, PairType
<1>2. PICK round \in Nat : round = NextRound(node[i]) /\ round > node[i].round
  <2>1. N \in Nat /\ N >= 1
    BY NAssumption
  <2>2. node[i].promised \div N \in Nat
    BY <1>1, <2>1
  <2> QED BY <1>1, <2>2 DEF NextRound
<1>3. PICK num \in Nat : num = round * N + i /\ Owner(i, num) /\ num > node[i].myNum /\ num > 0
  <2>1. round * N + i \in Nat /\ round * N + i > 0 /\ Owner(i, round * N + i)
    BY Zenon, NumberOwned
  <2>2. round * N + i > node[i].round * N + i
    BY Zenon, <1>1, <1>2, NumbersGrow
  <2>3. node[i].myNum = IF node[i].phase = "idle" THEN 0 ELSE node[i].round * N + i
    BY Zenon DEF PaxosInv, ProposerOK
  <2> QED BY Zenon, <2>1, <2>2, <2>3
<1>4. PICK sent \in SUBSET Message :
        /\ sent = ToPeers("Prepare", i, num, None)
        /\ \A k \in sent : k.type = "Prepare"
  <2>1. ToPeers("Prepare", i, num, None) \subseteq Message
    BY Zenon, NoneTyped, PreparesSent
  <2>2. \A k \in ToPeers("Prepare", i, num, None) : k.type = "Prepare"
    BY DEF ToPeers, Msg
  <2> QED BY Zenon, <2>1, <2>2
<1>5. PICK m \in NodeState :
        /\ m = [node[i] EXCEPT !.round = round, !.myNum = num, !.myVal = val,
                               !.phase = "preparing", !.promiseMask = {}, !.acceptMask = {},
                               !.best = None, !.out = sent]
        /\ m.round = round /\ m.myNum = num /\ m.phase = "preparing"
        /\ m.promiseMask = {} /\ m.best = None /\ m.out = sent
        /\ m.promised = node[i].promised /\ m.accepted = node[i].accepted
        /\ m.accepts = node[i].accepts
  <2> DEFINE m == [node[i] EXCEPT !.round = round, !.myNum = num, !.myVal = val,
                                  !.phase = "preparing", !.promiseMask = {}, !.acceptMask = {},
                                  !.best = None, !.out = sent]
  <2>1. /\ m \in NodeState
        /\ m.round = round /\ m.myNum = num /\ m.phase = "preparing"
        /\ m.promiseMask = {} /\ m.best = None /\ m.out = sent
        /\ m.promised = node[i].promised /\ m.accepted = node[i].accepted
        /\ m.accepts = node[i].accepts
    BY Zenon, <1>1, NoneTyped DEF NodeState
  <2> QED BY Zenon, <2>1
<1>6. Propose(node[i], i, val) =
        IF Promises(node[i], num) THEN recordPromise(onPrepare(m, num), i, i, node[i].accepted)
        ELSE m
  BY Zenon, <1>2, <1>3, <1>4, <1>5 DEF Propose
<1>7. Heard(num, None)
  BY Zenon, NoneTyped DEF Heard
<1>8. CASE Promises(node[i], num)
  <2>1. PICK n \in NodeState :
          /\ n = onPrepare(m, num)
          /\ n.round = round /\ n.myNum = num /\ n.phase = "preparing"
          /\ n.promiseMask = {} /\ n.best = None /\ n.out = sent
          /\ n.promised = num /\ n.accepted = node[i].accepted
          /\ n.accepts = node[i].accepts
    <3> DEFINE n == [m EXCEPT !.promised = num]
    <3>1. n = onPrepare(m, num)
      BY Zenon, <1>5, <1>8 DEF onPrepare, Promises
    <3>2. /\ n \in NodeState
          /\ n.round = m.round /\ n.myNum = m.myNum /\ n.phase = m.phase
          /\ n.promiseMask = m.promiseMask /\ n.best = m.best /\ n.out = m.out
          /\ n.promised = num /\ n.accepted = m.accepted
          /\ n.accepts = m.accepts
      BY Zenon DEF NodeState
    <3> HIDE DEF n
    <3> QED BY <1>5, <3>1, <3>2
  <2>2. Run(i, recordPromise(n, i, i, node[i].accepted))
    BY Zenon, <1>6, <1>8, <2>1
  <2>3. num > node[i].promised
    BY Zenon, <1>8 DEF Promises
  <2>4. /\ node[i].accepted.num <= node[i].promised
        /\ node[i].accepted.num # 0 => node[i].accepted \in Votes(i)
        /\ \A p \in Votes(i) : p.num <= node[i].accepted.num
    BY Zenon DEF PaxosInv, AcceptorInv
  <2>5. Heard(n.myNum, node[i].accepted)
    <3>1. node[i].accepted.num # 0 => node[i].accepted \in Issued
      BY Zenon, <2>4 DEF Issued
    <3> QED BY <1>1, <2>1, <2>3, <2>4, <3>1 DEF Heard
  <2>6. Counted(i, i, n, node[i].accepted)
    BY <2>1, <2>4 DEF Counted
  <2>7. Recorded(i, n)
    <3>1. n.promised >= node[i].promised /\ n.myNum > node[i].myNum
      BY <1>1, <1>3, <2>1, <2>3
    <3>2. n.myNum = n.round * N + i /\ Owner(i, n.myNum) /\ Heard(n.myNum, n.best)
      BY Zenon, <1>3, <1>7, <2>1
    <3>3. /\ \A j \in n.promiseMask : Counted(j, i, n, n.best)
          /\ \A k \in n.out : k.type = "Prepare"
      BY SMTT(30), <1>4, <2>1
    <3> QED BY Zenon, <2>1, <3>1, <3>2, <3>3 DEF Recorded
  <2> QED BY Zenon, <1>1, <2>1, <2>2, <2>5, <2>6, <2>7, RecordKeeps
<1>9. CASE ~Promises(node[i], num)
  <2>1. Run(i, m)
    BY Zenon, <1>6, <1>9
  <2>2. /\ TypeOK' /\ \A j \in Node \ {i} : node'[j] = node[j]
        /\ node'[i].promised = m.promised /\ node'[i].accepted = m.accepted
        /\ node'[i].accepts = m.accepts /\ node'[i].phase = m.phase
        /\ node'[i].round = m.round /\ node'[i].myNum = m.myNum
        /\ node'[i].promiseMask = m.promiseMask /\ node'[i].best = m.best
        /\ net' = net \cup m.out
    BY Zenon, <2>1, RunTyped
  <2>3. AcceptorStep(i) /\ Onward(i) /\ net \subseteq net'
    BY <1>1, <1>3, <1>5, <2>2 DEF AcceptorStep, Onward
  <2>4. \A k \in net' \ net : k.type = "Prepare"
    BY Zenon, <1>4, <1>5, <2>2
  <2>5. \A k \in net' \ net : AnswerOK(k)'
    BY Zenon, <2>4 DEF AnswerOK
  <2>6. Issued' \subseteq Issued /\ Issued \subseteq Issued'
    <3>1. Votes(i)' = Votes(i)
      BY <1>5, <2>2 DEF Votes
    <3> QED BY Zenon, <2>2, <2>3, <2>4, <3>1, IssuedFrom
  <2>7. ProposerOK(i)'
    <3>1. Heard(num, None)'
      BY Zenon, NoneTyped DEF Heard
    <3> QED BY Zenon, <1>3, <1>5, <2>2, <3>1 DEF ProposerOK
  <2>8. Abstains
    BY Zenon, <1>5, <2>2, <2>4 DEF Abstains
  <2> QED BY Zenon, <2>2, <2>3, <2>5, <2>6, <2>7, <2>8, StepKeeps DEF Proposes
<1> QED BY Zenon, <1>8, <1>9

-----------------------------------------------------------------------------
(****************************************************************************)
(* The cluster.                                                             *)
(****************************************************************************)

\* The fresh nodes of NewCluster satisfy the invariant.
LEMMA InitInv == Init => TypeOK /\ PaxosInv
<1> SUFFICES ASSUME Init PROVE TypeOK /\ PaxosInv
  BY Zenon
<1>1. NewNode \in NodeState /\ NewNode.out = {}
  BY NoneTyped DEF NewNode, NodeState
<1>2. \A i \in Node : node[i] = NewNode
  BY Zenon DEF Init
<1>3. TypeOK
  BY Zenon, <1>1 DEF Init, TypeOK
<1>4. \A i \in Node : Votes(i) = {}
  BY <1>2 DEF Votes, NewNode
<1>5. Issued = {}
  BY Zenon, <1>4 DEF Issued, Init
<1>6. AcceptorInv
  BY <1>2, <1>4, NoneTyped DEF AcceptorInv, NewNode, Ordered
<1>7. \A i \in Node : ProposerOK(i)
  BY <1>2 DEF ProposerOK, NewNode
<1>8. IssuedInv
  BY Zenon, <1>5 DEF IssuedInv
<1>9. \A m \in net : AnswerOK(m)
  BY Zenon DEF Init
<1> QED BY Zenon, <1>3, <1>6, <1>7, <1>8, <1>9 DEF PaxosInv

\* A proposal that is not in a history can be added to it once (onAccept).
LEMMA AppendOnce ==
  ASSUME NEW s \in Seq(PairType), NEW p \in PairType,
         \A k, l \in 1 .. Len(s) : s[k] = s[l] => k = l,
         \A k \in 1 .. Len(s) : s[k] # p
  PROVE  \A k, l \in 1 .. Len(Append(s, p)) : Append(s, p)[k] = Append(s, p)[l] => k = l
OBVIOUS

\* A step in which node i accepts at most p, which it had not accepted, keeps every
\* history free of repetitions, if no Accept of p to i remains and those that are sent
\* carry proposals their acceptors have not accepted (Acceptances).
LEMMA OnceKept ==
  ASSUME TypeOK, TypeOK', OnceInv, NEW i \in Node, NEW p \in PairType, Takes(i, p),
         p \notin Votes(i), got \subseteq got',
         \A k \in net : k.type = "Accept" /\ k.to = i /\ k \notin got' => k.pair # p,
         \A k \in net' \ net :
           k.type = "Accept" => /\ k.ok /\ k.pair.num = k.num /\ Owner(k.from, k.num)
                                /\ k.pair \notin Votes(k.to) /\ k.to # i
  PROVE  OnceInv'
<1>1. /\ \A j \in Node : node[j].accepts \in Seq(PairType) /\ node'[j].accepts \in Seq(PairType)
      /\ \A m \in net' : m.to \in Node
  BY Zenon DEF TypeOK, NodeState, Message
<1>2. /\ \A j \in Node \ {i} : node'[j].accepts = node[j].accepts
      /\ node'[i].accepts \in {node[i].accepts, Append(node[i].accepts, p)}
  BY Zenon DEF Takes
<1>3. \A j \in Node \ {i} : Votes(j)' = Votes(j)
  BY <1>2 DEF Votes
<1>4. \A q \in Votes(i)' : q \in Votes(i) \/ q = p
  <2>1. CASE node'[i].accepts = node[i].accepts
    BY Zenon, <2>1 DEF Votes
  <2>2. CASE node'[i].accepts = Append(node[i].accepts, p)
    <3>1. Votes(i)' = Votes(i) \cup {p}
      BY <1>1, <2>2, AppendAdds DEF Votes
    <3> QED BY Zenon, <3>1
  <2> QED BY Zenon, <1>2, <2>1, <2>2
<1>5. AcceptedOnce'
  <2> SUFFICES ASSUME NEW j \in Node
               PROVE  \A k, l \in 1 .. Len(node'[j].accepts) :
                        node'[j].accepts[k] = node'[j].accepts[l] => k = l
    BY Zenon DEF AcceptedOnce
  <2>1. \A k, l \in 1 .. Len(node[j].accepts) : node[j].accepts[k] = node[j].accepts[l] => k = l
    BY Zenon DEF OnceInv, AcceptedOnce
  <2>2. CASE node'[j].accepts = node[j].accepts
    BY Zenon, <2>1, <2>2
  <2>3. CASE j = i /\ node'[i].accepts = Append(node[i].accepts, p)
    <3>1. PICK s \in Seq(PairType) : s = node[i].accepts
      BY Zenon, <1>1
    <3>2. \A k \in 1 .. Len(s) : s[k] # p
      BY Zenon, <3>1 DEF Votes
    <3>3. \A k, l \in 1 .. Len(Append(s, p)) : Append(s, p)[k] = Append(s, p)[l] => k = l
      BY <2>1, <2>3, <3>1, <3>2, AppendOnce
    <3> QED BY ZenonT(60), <2>3, <3>1, <3>3
  <2> QED BY Zenon, <1>2, <2>2, <2>3
<1>6. ASSUME NEW m \in net', m.type = "Accept" PROVE AcceptOnce(m)'
  <2>1. m.to \in Node
    BY Zenon, <1>1
  <2>2. CASE m \in net
    <3>1. /\ m.ok /\ m.pair.num = m.num /\ Owner(m.from, m.num)
          /\ m \notin got' => m.pair \notin Votes(m.to)
      BY Zenon, <1>6, <2>2 DEF OnceInv, AcceptOnce
    <3>2. m \notin got' => m.pair \notin Votes(m.to)'
      BY Zenon, <1>3, <1>4, <1>6, <2>1, <2>2, <3>1
    <3> QED BY Zenon, <3>1, <3>2 DEF AcceptOnce, Owner
  <2>3. CASE m \notin net
    BY Zenon, <1>3, <1>6, <2>1, <2>3 DEF AcceptOnce, Owner
  <2> QED BY Zenon, <2>2, <2>3
<1> QED BY Zenon, <1>5, <1>6 DEF OnceInv

\* No node accepts and no Accept is sent: nothing changes for the histories.
LEMMA AbstainingOnce ==
  ASSUME OnceInv, Abstains, got \subseteq got', TypeOK'
  PROVE  OnceInv'
<1>1. \A j \in Node : Votes(j)' = Votes(j) /\ node'[j].accepts = node[j].accepts
  BY Zenon DEF Abstains, Votes
<1>2. AcceptedOnce'
  BY Zenon, <1>1 DEF OnceInv, AcceptedOnce
<1>3. ASSUME NEW m \in net', m.type = "Accept" PROVE AcceptOnce(m)'
  <2>1. m \in net /\ m.to \in Node
    BY Zenon, <1>3 DEF Abstains, TypeOK, Message
  <2> QED BY Zenon, <1>1, <1>3, <2>1 DEF OnceInv, AcceptOnce, Owner
<1> QED BY Zenon, <1>2, <1>3 DEF OnceInv

\* A proposal is issued at a new number, and accepted by its proposer at most
\* (recordPromise).
LEMMA ProposingOnce ==
  ASSUME TypeOK, TypeOK', PaxosInv, OnceInv, NEW i \in Node, Proposes(i), got \subseteq got'
  PROVE  OnceInv'
<1>1. ASSUME NEW p \in PairType, Issues(i, p) PROVE OnceInv'
  <2>1. \A j \in Node : \A q \in Votes(j) : q.num # p.num
    BY Zenon, <1>1 DEF Issues, Issued
  <2>2. p \notin Votes(i)
    BY Zenon, <2>1
  <2>3. ASSUME NEW k \in net, k.type = "Accept" PROVE k.pair # p
    <3>1. Pair(k.num, k.pair.val) \in Issued /\ k.pair.num = k.num
      BY Zenon, <2>3 DEF Issued, OnceInv, AcceptOnce
    <3>2. k.num # p.num
      BY <1>1, <3>1 DEF Issues, Pair
    <3> QED BY Zenon, <3>1, <3>2
  <2>4. ASSUME NEW k \in net' \ net, k.type = "Accept"
        PROVE  /\ k.ok /\ k.pair.num = k.num /\ Owner(k.from, k.num)
               /\ k.pair \notin Votes(k.to) /\ k.to # i
    <3>1. k.to # i /\ k = Msg("Accept", i, k.to, p.num, TRUE, p) /\ Owner(i, p.num)
      BY Zenon, <1>1, <2>4 DEF Issues
    <3>2. k.from = i /\ k.num = p.num /\ k.ok = TRUE /\ k.pair = p
      BY <3>1 DEF Msg
    <3>3. k.to \in Node
      BY Zenon DEF TypeOK, Message
    <3> QED BY Zenon, <2>1, <3>1, <3>2, <3>3
  <2>5. \A k \in net : k.type = "Accept" /\ k.to = i /\ k \notin got' => k.pair # p
    BY Zenon, <2>3
  <2>6. \A k \in net' \ net :
          k.type = "Accept" => /\ k.ok /\ k.pair.num = k.num /\ Owner(k.from, k.num)
                               /\ k.pair \notin Votes(k.to) /\ k.to # i
    BY Zenon, <2>4
  <2>7. Takes(i, p)
    BY Zenon, <1>1 DEF Issues
  <2> QED BY <2>2, <2>5, <2>6, <2>7, OnceKept
<1> QED BY Zenon, <1>1, AbstainingOnce DEF Proposes

\* A proposal reaches an acceptor in one Accept, which is delivered once (onAccept).
LEMMA AcceptingOnce ==
  ASSUME TypeOK, TypeOK', PaxosInv, OnceInv, NEW m \in net, m.type = "Accept",
         m \notin got, got' = got \cup {m}, Takes(m.to, Pair(m.num, m.pair.val)),
         \A k \in net' \ net : k.type # "Accept"
  PROVE  OnceInv'
<1>1. /\ m.ok /\ m.pair.num = m.num /\ Owner(m.from, m.num) /\ m.pair \notin Votes(m.to)
      /\ m \in Message /\ m.to \in Node /\ m.from \in Node /\ m.pair \in PairType /\ m.num \in Nat
  BY Zenon DEF OnceInv, AcceptOnce, TypeOK, Message
<1>2. m.pair = Pair(m.num, m.pair.val)
  BY <1>1 DEF PairType, Pair
<1>3. ASSUME NEW k \in net, k.type = "Accept", k.to = m.to, k.pair = m.pair PROVE k = m
  <2>1. /\ k.ok /\ k.pair.num = k.num /\ Owner(k.from, k.num) /\ k \in Message /\ k.from \in Node
    BY Zenon, <1>3 DEF OnceInv, AcceptOnce, TypeOK, Message
  <2>2. k.num = m.num
    BY Zenon, <1>1, <1>3, <2>1
  <2>3. k.from = m.from
    BY Zenon, <1>1, <2>1, <2>2, OwnerUnique
  <2>4. /\ k = Msg(k.type, k.from, k.to, k.num, k.ok, k.pair)
        /\ m = Msg(m.type, m.from, m.to, m.num, m.ok, m.pair)
    BY Zenon, <1>1, <2>1 DEF Message, Msg
  <2>5. k.ok = TRUE /\ m.ok = TRUE
    BY Zenon, <1>1, <2>1 DEF Message
  <2> QED BY Zenon, <1>3, <2>2, <2>3, <2>4, <2>5
<1>4. PICK i \in Node, p \in PairType : i = m.to /\ p = m.pair
  BY Zenon, <1>1
<1>5. Takes(i, p) /\ p \notin Votes(i)
  BY Zenon, <1>1, <1>2, <1>4
<1>6. \A k \in net : k.type = "Accept" /\ k.to = i /\ k \notin got' => k.pair # p
  BY Zenon, <1>3, <1>4
<1>7. \A k \in net' \ net :
        k.type = "Accept" => /\ k.ok /\ k.pair.num = k.num /\ Owner(k.from, k.num)
                             /\ k.pair \notin Votes(k.to) /\ k.to # i
  BY Zenon
<1> QED BY <1>5, <1>6, <1>7, OnceKept

\* Every call of Propose, Tick and Step keeps the invariant.
LEMMA NextInv ==
  TypeOK /\ PaxosInv /\ [Next]_vars => TypeOK' /\ PaxosInv' /\ (OnceInv => OnceInv')
<1> SUFFICES ASSUME TypeOK, PaxosInv, [Next]_vars
             PROVE  TypeOK' /\ PaxosInv' /\ (OnceInv => OnceInv')
  BY Zenon
<1>1. ASSUME NEW i \in Node, Tick(i) PROVE TypeOK' /\ PaxosInv' /\ (OnceInv => OnceInv')
  <2>1. PICK val \in Value \cup {Nil} : val = node[i].myVal
    BY Zenon DEF TypeOK, NodeState
  <2> QED BY Zenon, <1>1, <2>1, ProposeKeeps, ProposingOnce DEF Tick
<1>2. ASSUME NEW i \in Node, NEW val \in Value, ClientProposes(i, val)
      PROVE  TypeOK' /\ PaxosInv' /\ (OnceInv => OnceInv')
  BY Zenon, <1>2, ProposeKeeps, ProposingOnce DEF ClientProposes
<1>3. ASSUME NEW m \in net, Deliver(m) PROVE TypeOK' /\ PaxosInv' /\ (OnceInv => OnceInv')
  <2>1. m.to \in Node /\ m.type \in {"Prepare", "Promise", "Accept", "Accepted"}
    BY Zenon DEF TypeOK, Message
  <2>2. Run(m.to, Step(node[m.to], m.to, m)) /\ m \notin got /\ got' = got \cup {m}
    BY Zenon, <1>3 DEF Deliver
  <2>3. CASE m.type = "Prepare"
    <3>1. Step(node[m.to], m.to, m) = StepPrepare(node[m.to], m.to, m)
      BY Zenon, <2>3 DEF Step
    <3> QED BY Zenon, <2>1, <2>2, <2>3, <3>1, PrepareKeeps, AbstainingOnce
  <2>4. CASE m.type = "Promise"
    <3>1. Step(node[m.to], m.to, m) = StepPromise(node[m.to], m.to, m)
      BY Zenon, <2>4 DEF Step
    <3> QED BY Zenon, <2>1, <2>2, <2>4, <3>1, PromiseKeeps, ProposingOnce
  <2>5. CASE m.type = "Accept"
    <3>1. Step(node[m.to], m.to, m) = StepAccept(node[m.to], m.to, m)
      BY Zenon, <2>5 DEF Step
    <3> QED BY Zenon, <2>1, <2>2, <2>5, <3>1, AcceptKeeps, AcceptingOnce
  <2>6. CASE m.type = "Accepted"
    <3>1. Step(node[m.to], m.to, m) = StepAccepted(node[m.to], m.to, m)
      BY Zenon, <2>6 DEF Step
    <3> QED BY Zenon, <2>1, <2>2, <2>6, <3>1, AcceptedKeeps, AbstainingOnce
  <2> QED BY Zenon, <2>1, <2>3, <2>4, <2>5, <2>6
<1>4. CASE UNCHANGED vars
  <2>1. 1 \in Node
    BY NAssumption DEF Node
  <2>2. node' = node /\ net' = net /\ got' = got
    BY Zenon, <1>4 DEF vars
  <2>3. TypeOK'
    BY Zenon, <2>2 DEF TypeOK
  <2>4. node[1].promised \in Nat
    BY Zenon, <2>1 DEF TypeOK, NodeState
  <2>5. AcceptorStep(1) /\ SameProposer(1)
    BY <2>2, <2>4 DEF AcceptorStep, SameProposer
  <2>6. Issued' \subseteq Issued
    <3>1. \A i \in Node : Votes(i)' = Votes(i)
      BY Zenon, <2>2 DEF Votes
    <3> QED BY Zenon, <2>1, <2>2, <2>3, <2>5, <3>1, IssuedFrom
  <2>7. Abstains
    BY Zenon, <2>2 DEF Abstains
  <2> QED BY Zenon, <2>1, <2>2, <2>3, <2>5, <2>6, <2>7, AcceptorKeeps, AbstainingOnce
<1> QED BY Zenon, <1>1, <1>2, <1>3, <1>4 DEF Next

\* A value chosen at a number is the value of every proposal above: a quorum that
\* closed the number shares a node with the quorum that chose (checkSingleChoice).
LEMMA ChosenBelow ==
  ASSUME TypeOK, PaxosInv, NEW i \in Node, NEW j \in Node,
         NEW p \in Votes(i), NEW q \in Votes(j), p.num < q.num, Chosen(p)
  PROVE  p.val = q.val
<1>1. p \in PairType /\ q \in PairType /\ p = Pair(p.num, p.val)
  BY Zenon, VotesTyped DEF PairType, Pair
<1>2. q \in Issued
  BY Zenon DEF Issued
<1>3. Safe(q)
  BY Zenon, <1>2 DEF PaxosInv, IssuedInv
<1> SUFFICES ASSUME p.val # q.val PROVE FALSE
  BY Zenon
<1>4. p.num \in 0 .. q.num - 1 /\ p.val \in (Value \cup {Nil}) \ {q.val}
  BY <1>1 DEF PairType
<1>5. Closed(p.num, p.val)
  BY Zenon, <1>3, <1>4 DEF Safe
<1>6. PICK Q \in SUBSET Node : Quorum(Q) /\ \A k \in Q : Pair(p.num, p.val) \notin Votes(k)
  BY Zenon, <1>5 DEF Closed
<1>7. PICK V \in SUBSET Node : V = {k \in Node : p \in Votes(k)} /\ Quorum(V)
  BY Zenon DEF Chosen
<1>8. PICK k \in Node : k \in Q /\ k \in V
  BY Zenon, <1>6, <1>7, QuorumsIntersect
<1> QED BY Zenon, <1>1, <1>6, <1>7, <1>8

\* At most one value is chosen in any state of the invariant (checkSingleChoice).
LEMMA OneChoice == TypeOK /\ PaxosInv => SingleChoice
<1> SUFFICES ASSUME TypeOK, PaxosInv, NEW i \in Node, NEW j \in Node,
                    NEW p \in Votes(i), NEW q \in Votes(j), Chosen(p), Chosen(q)
             PROVE  p.val = q.val
  BY DEF SingleChoice
<1>1. p.num \in Nat /\ q.num \in Nat
  BY Zenon, VotesTyped DEF PairType
<1>2. p \in Issued /\ q \in Issued
  BY Zenon DEF Issued
<1>3. CASE p.num = q.num
  BY Zenon, <1>2, <1>3 DEF PaxosInv, IssuedInv
<1>4. CASE p.num < q.num
  BY <1>4, ChosenBelow
<1>5. CASE q.num < p.num
  BY <1>5, ChosenBelow
<1> QED BY <1>1, <1>3, <1>4, <1>5

\* The acceptances a proposer has counted are votes for its proposal (Decided).
LEMMA DecisionChosen == TypeOK /\ PaxosInv => DecidedChosen
<1> SUFFICES ASSUME TypeOK, PaxosInv, NEW i \in Node, node[i].phase = "decided"
             PROVE  Chosen(Pair(node[i].myNum, node[i].myVal))
  BY Zenon DEF DecidedChosen
<1>1. PICK p : p = Pair(node[i].myNum, node[i].myVal)
  BY Zenon
<1>2. PICK Q \in SUBSET Node : Q = node[i].acceptMask
  BY Zenon DEF TypeOK, NodeState
<1>3. Quorum(Q) /\ \A j \in Q : p \in Votes(j)
  BY Zenon, <1>1, <1>2 DEF PaxosInv, ProposerOK
<1>4. PICK V \in SUBSET Node : V = {j \in Node : p \in Votes(j)}
  BY Zenon
<1>5. Quorum(V)
  BY Zenon, <1>3, <1>4, QuorumMonotone
<1> QED BY Zenon, <1>1, <1>4, <1>5 DEF Chosen

\* The invariant always holds: whatever enters phase two is safe (Propose, Tick, Step).
THEOREM PaxosCorrect == Spec => [](TypeOK /\ PaxosInv)
BY InitInv, NextInv, PTL DEF Spec

\* Whatever is lost, delayed or reordered, and however many proposers compete, no
\* two values are ever accepted by quorums (checkSingleChoice).
THEOREM ChoiceUnique == Spec => []SingleChoice
BY PaxosCorrect, OneChoice, PTL

\* A proposer that reports a decision reports a chosen value (Decided).
THEOREM DecisionRight == Spec => []DecidedChosen
BY PaxosCorrect, DecisionChosen, PTL

\* An acceptor never accepts below an earlier acceptance, nor beyond its promise
\* (checkHistoryMonotonic, checkPromiseRespected).
THEOREM HistoryOrdered == Spec => []HistoryMonotonic
<1>1. TypeOK /\ PaxosInv => HistoryMonotonic
  BY Zenon DEF PaxosInv, AcceptorInv, HistoryMonotonic
<1> QED BY <1>1, PaxosCorrect, PTL

\* No acceptor accepts the same proposal twice, so that chosenValues, which counts
\* acceptances, counts acceptors (cluster.go): each proposal is sent to an acceptor
\* once, and is delivered at most once.
THEOREM AcceptancesDistinct == Spec => []AcceptedOnce
<1>1. Init => OnceInv
  <2> SUFFICES ASSUME Init PROVE OnceInv
    BY Zenon
  <2>1. net = {} /\ \A i \in Node : node[i].accepts = <<>>
    BY DEF Init, NewNode
  <2>2. \A i \in Node : Len(node[i].accepts) = 0
    BY <2>1
  <2> QED BY <2>1, <2>2 DEF OnceInv, AcceptedOnce
<1>2. OnceInv => AcceptedOnce
  BY Zenon DEF OnceInv
<1> QED BY <1>1, <1>2, NextInv, PaxosCorrect, PTL DEF Spec

=============================================================================
