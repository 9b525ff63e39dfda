--------------------------- MODULE DstEngineProofs ---------------------------
(***************************************************************************)
(* The engine's heap implements its schedule, messages are delivered in    *)
(* order, and faults do not shift the schedule: for any nodes, delays,     *)
(* faults and messages.                                                    *)
(***************************************************************************)
EXTENDS DstEngine, WellFoundedInduction, TLAPS

-----------------------------------------------------------------------------
(***************************************************************************)
(* Loops.                                                                  *)
(***************************************************************************)

\* Every set of naturals that is not empty has a least element.
LEMMA LeastOf ==
  ASSUME NEW U \in SUBSET Nat, U # {}
  PROVE  \E x \in U : \A y \in U : x <= y
<1> DEFINE R == OpToRel(<, Nat)
<1>1. IsWellFoundedOn(R, Nat)
  BY Zenon, NatLessThanWellFounded
<1> HIDE DEF R
<1>2. PICK x \in U : \A y \in U : ~(<<y, x>> \in R)
  BY Zenon, <1>1, WFMin, U \subseteq Nat, U # {}
<1>3. ASSUME NEW y \in U PROVE x <= y
  <2>1. ~(<<y, x>> \in R) /\ y \in Nat /\ x \in Nat
    BY Zenon, <1>2
  <2> QED BY <2>1 DEF R, OpToRel
<1> QED BY Zenon, <1>3

\* What holds before the first round of a loop and is kept by every round holds
\* after each of them: S[k] are the states allowed after k rounds, and f[k] is the state.
LEMMA LoopKeeps ==
  ASSUME NEW n \in Nat, NEW f, NEW S, f[0] \in S[0],
         \A k \in 1 .. n : f[k - 1] \in S[k - 1] => f[k] \in S[k]
  PROVE  \A k \in 0 .. n : f[k] \in S[k]
<1> SUFFICES ASSUME NEW z \in 0 .. n, f[z] \notin S[z] PROVE FALSE
  BY Zenon
<1> DEFINE U == {k \in 0 .. n : f[k] \notin S[k]}
<1>1. U \subseteq Nat /\ U # {}
  OBVIOUS
<1>2. PICK x \in U : \A y \in U : x <= y
  BY Zenon, <1>1, LeastOf
<1>3. x # 0 /\ x \in 0 .. n /\ f[x] \notin S[x]
  BY Zenon
<1>4. x \in 1 .. n /\ x - 1 \in 0 .. n /\ ~(x <= x - 1)
  BY <1>3
<1>5. f[x - 1] \in S[x - 1]
  BY Zenon, <1>2, <1>4
<1> QED BY Zenon, <1>3, <1>4, <1>5

\* n rounds of a loop that starts with c and goes from c to G[<<k, c>>] in round k.
Rounds(f, n, c, G) == f = [k \in 0 .. n |-> IF k = 0 THEN c ELSE G[<<k, f[k - 1]>>]]

\* A loop of n rounds runs.
LEMMA LoopRuns ==
  ASSUME NEW n \in Nat, NEW c, NEW G
  PROVE  \E f : Rounds(f, n, c, G)
<1> DEFINE U == {m \in Nat : ~\E f : Rounds(f, m, c, G)}
<1> SUFFICES ASSUME U # {} PROVE FALSE
  BY Zenon
<1>1. PICK x \in U : \A y \in U : x <= y
  <2> HIDE DEF U
  <2>1. U \subseteq Nat
    BY Zenon DEF U
  <2> QED BY Zenon, <2>1, LeastOf
<1>2. x # 0
  <2>1. Rounds([k \in 0 .. 0 |-> c], 0, c, G)
    BY DEF Rounds
  <2> QED BY Zenon, <2>1
<1>3. x \in Nat /\ x - 1 \in Nat /\ ~(x <= x - 1)
  BY <1>2
<1>4. PICK f : Rounds(f, x - 1, c, G)
  BY Zenon, <1>1, <1>3
<1> DEFINE g == [k \in 0 .. x |-> IF k = x THEN G[<<x, f[x - 1]>>] ELSE f[k]]
<1>5. ASSUME NEW k \in 0 .. x PROVE g[k] = IF k = 0 THEN c ELSE G[<<k, g[k - 1]>>]
  <2>1. CASE k = x
    BY <1>2, <1>3, <2>1
  <2>2. CASE k # x
    <3>1. k \in 0 .. x - 1 /\ (k # 0 => k - 1 \in 0 .. x /\ k - 1 # x)
      BY <1>3, <2>2
    <3>2. f[k] = IF k = 0 THEN c ELSE G[<<k, f[k - 1]>>]
      BY <1>4, <3>1 DEF Rounds
    <3> QED BY <2>2, <3>1, <3>2
  <2> QED BY <2>1, <2>2
<1>6. Rounds(g, x, c, G)
  BY Zenon, <1>5 DEF Rounds
<1> QED BY Zenon, <1>6

\* A run of that loop within S: f[k] is in S[k].
Within(f, n, c, G, S) ==
  /\ f = [k \in 0 .. n |-> f[k]] /\ f[0] = c
  /\ \A k \in 1 .. n : f[k - 1] \in S[k - 1] /\ f[k] = G[<<k, f[k - 1]>>]

LEMMA LoopRunsWithin ==
  ASSUME NEW n \in Nat, NEW c, NEW G, NEW S, c \in S[0],
         \A k \in 1 .. n : \A x \in S[k - 1] : G[<<k, x>>] \in S[k]
  PROVE  \E f : Within(f, n, c, G, S)
<1>1. PICK f : Rounds(f, n, c, G)
  BY Zenon, LoopRuns
<1>2. \A k \in 0 .. n : f[k] = IF k = 0 THEN c ELSE G[<<k, f[k - 1]>>]
  BY Zenon, <1>1 DEF Rounds
<1>3. 0 \in 0 .. n /\ \A k \in 1 .. n : k \in 0 .. n /\ k - 1 \in 0 .. n /\ k # 0
  OBVIOUS
<1>4. \A k \in 1 .. n : f[k - 1] \in S[k - 1] => f[k] \in S[k]
  BY Zenon, <1>2, <1>3
<1>5. f[0] \in S[0]
  BY Zenon, <1>2, <1>3
<1>6. \A k \in 0 .. n : f[k] \in S[k]
  BY Zenon, <1>4, <1>5, LoopKeeps
<1>7. f = [k \in 0 .. n |-> f[k]]
  BY Zenon, <1>1 DEF Rounds
<1>8. Within(f, n, c, G, S)
  BY Zenon, <1>2, <1>3, <1>6, <1>7 DEF Within
<1> QED BY Zenon, <1>8

-----------------------------------------------------------------------------
(***************************************************************************)
(* The order.                                                              *)
(***************************************************************************)

Event == Sched!Event

LEMMA EventFields ==
  ASSUME NEW e \in Event
  PROVE  /\ e.at \in Nat /\ e.seq \in Nat /\ e.id \in Nat
         /\ e.from \in Node /\ e.to \in Node
BY DEF Event, Sched!Event

\* earlier is a strict order.
LEMMA Asymmetric ==
  ASSUME NEW a \in Event, NEW b \in Event, earlier(a, b)
  PROVE  ~earlier(b, a)
BY EventFields DEF earlier

\* What is not earlier than b is not earlier than anything earlier than b or like it.
LEMMA NotEarlier ==
  ASSUME NEW a \in Event, NEW b \in Event, NEW c \in Event, ~earlier(a, b), ~earlier(b, c)
  PROVE  ~earlier(a, c)
BY EventFields DEF earlier

\* It is total on messages with numbers of their own.
LEMMA Total ==
  ASSUME NEW a \in Event, NEW b \in Event, a.seq # b.seq, ~earlier(a, b)
  PROVE  earlier(b, a)
BY EventFields DEF earlier

-----------------------------------------------------------------------------
(***************************************************************************)
(* Queues.                                                                 *)
(***************************************************************************)

\* A queue holds messages with numbers of their own.
Queue(q) ==
  /\ q \in Seq(Event)
  /\ \A j, k \in 1 .. Len(q) : q[j].seq = q[k].seq => j = k

In(q) == {q[k] : k \in 1 .. Len(q)}

\* r has the messages of q, in some order.
Reordered(q, r) == Queue(r) /\ Len(r) = Len(q) /\ In(r) = In(q)

LEMMA ReorderedAgain ==
  ASSUME NEW q, NEW r, NEW s, Reordered(q, r), Reordered(r, s)
  PROVE  Reordered(q, s)
BY Zenon DEF Reordered

LEMMA QueueFacts ==
  ASSUME NEW q, Queue(q)
  PROVE  /\ Len(q) \in Nat /\ DOMAIN q = 1 .. Len(q)
         /\ \A k \in 1 .. Len(q) : q[k] \in Event
BY DEF Queue

LEMMA SwapFacts ==
  ASSUME NEW q, Queue(q), NEW i \in 1 .. Len(q), NEW j \in 1 .. Len(q)
  PROVE  /\ Swap(q, i, j) \in Seq(Event) /\ Len(Swap(q, i, j)) = Len(q)
         /\ Swap(q, i, j)[i] = q[j] /\ Swap(q, i, j)[j] = q[i]
         /\ \A k \in 1 .. Len(q) : k # i /\ k # j => Swap(q, i, j)[k] = q[k]
BY DEF Swap, Queue

LEMMA SwapReorders ==
  ASSUME NEW q, Queue(q), NEW i \in 1 .. Len(q), NEW j \in 1 .. Len(q)
  PROVE  Reordered(q, Swap(q, i, j))
<1> DEFINE s == Swap(q, i, j)
           n == Len(q)
           back == [k \in 1 .. n |-> IF k = i THEN j ELSE IF k = j THEN i ELSE k]
<1>1. s \in Seq(Event) /\ Len(s) = n
  BY Zenon, SwapFacts
<1>2. \A k \in 1 .. n : back[k] \in 1 .. n /\ back[back[k]] = k
  OBVIOUS
<1>3. \A k \in 1 .. n : s[k] = q[back[k]]
  <2> SUFFICES ASSUME NEW k \in 1 .. n PROVE s[k] = q[back[k]]
    BY Zenon
  <2>1. back[k] = IF k = i THEN j ELSE IF k = j THEN i ELSE k
    BY Zenon
  <2> HIDE DEF s, n, back
  <2>2. s[i] = q[j] /\ s[j] = q[i] /\ (k # i /\ k # j => s[k] = q[k])
    BY Zenon, SwapFacts DEF s, n
  <2> QED BY Zenon, <2>1, <2>2
<1> HIDE DEF s, back
<1>4. Queue(s)
  <2> SUFFICES ASSUME NEW k \in 1 .. n, NEW l \in 1 .. n, s[k].seq = s[l].seq PROVE k = l
    BY Zenon, <1>1 DEF Queue
  <2>1. back[k] = back[l]
    <3>1. \A x, y \in 1 .. n : q[x].seq = q[y].seq => x = y
      BY Zenon DEF Queue
    <3>2. q[back[k]].seq = q[back[l]].seq
      BY Zenon, <1>3
    <3> QED BY Zenon, <1>2, <3>1, <3>2
  <2> QED BY Zenon, <1>2, <2>1
<1>5. In(s) = In(q)
  <2>1. ASSUME NEW e \in In(q) PROVE e \in In(s)
    <3>1. PICK k \in 1 .. n : e = q[k]
      BY Zenon DEF In
    <3>2. s[back[k]] = e /\ back[k] \in 1 .. n
      BY Zenon, <1>2, <1>3, <3>1
    <3> QED BY Zenon, <3>2, <1>1 DEF In
  <2>2. ASSUME NEW e \in In(s) PROVE e \in In(q)
    <3>1. PICK k \in 1 .. n : e = s[k]
      BY Zenon, <1>1 DEF In
    <3> QED BY Zenon, <3>1, <1>2, <1>3 DEF In
  <2> QED BY Zenon, <2>1, <2>2
<1> QED BY Zenon, <1>1, <1>4, <1>5 DEF Reordered, s

\* A queue to which a message with a number of its own is appended.
LEMMA Appended ==
  ASSUME NEW r, Queue(r), NEW ev \in Event, \A e \in In(r) : e.seq # ev.seq
  PROVE  Queue(Append(r, ev)) /\ In(Append(r, ev)) = In(r) \cup {ev}
<1> DEFINE s == Append(r, ev)
           n == Len(r)
<1>1. n \in Nat /\ r \in Seq(Event)
  BY Zenon, QueueFacts DEF Queue
<1>2. s \in Seq(Event) /\ Len(s) = n + 1 /\ s[n + 1] = ev /\ \A k \in 1 .. n : s[k] = r[k]
  BY <1>1
<1> HIDE DEF s
<1>3. /\ n + 1 \in 1 .. n + 1
      /\ \A k \in 1 .. n + 1 : k = n + 1 \/ k \in 1 .. n
      /\ \A k \in 1 .. n : k \in 1 .. n + 1
  BY <1>1
<1>4. \A k \in 1 .. n : s[k].seq # ev.seq
  BY Zenon, <1>2 DEF In
<1>5. Queue(s)
  <2> SUFFICES ASSUME NEW j \in 1 .. n + 1, NEW k \in 1 .. n + 1, s[j].seq = s[k].seq PROVE j = k
    BY Zenon, <1>2 DEF Queue
  <2>1. CASE j \in 1 .. n /\ k \in 1 .. n
    BY Zenon, <2>1, <1>2 DEF Queue
  <2> QED BY Zenon, <2>1, <1>2, <1>3, <1>4
<1>6. In(s) = In(r) \cup {ev}
  <2>1. ASSUME NEW e \in In(s) PROVE e \in In(r) \cup {ev}
    BY Zenon, <1>2, <1>3 DEF In
  <2>2. ASSUME NEW e \in In(r) \cup {ev} PROVE e \in In(s)
    BY Zenon, <1>2, <1>3 DEF In
  <2> QED BY Zenon, <2>1, <2>2
<1> QED BY Zenon, <1>5, <1>6 DEF s

-----------------------------------------------------------------------------
(***************************************************************************)
(* push.                                                                   *)
(***************************************************************************)

Parent(k) == k \div 2

LEMMA ParentFacts ==
  ASSUME NEW k \in Nat, k >= 2
  PROVE  Parent(k) \in Nat /\ 1 <= Parent(k) /\ Parent(k) < k
BY DEF Parent

\* The element k of q is in order with its parent.
Ordered(q, k) == ~earlier(q[k], q[Parent(k)])

Heap(q) == \A k \in 2 .. Len(q) : Ordered(q, k)

\* The loop of push has come to i: only i may be out of order, and its children are in
\* order with its parent.
Rising(q, i) ==
  /\ i \in 1 .. Len(q)
  /\ \A k \in 2 .. Len(q) : k # i => Ordered(q, k)
  /\ \A k \in 2 .. Len(q) : Parent(k) = i /\ i > 1 => ~earlier(q[k], q[Parent(i)])

\* A round that moves on keeps Rising.
LEMMA RisingOn ==
  ASSUME NEW q, Queue(q), NEW i, Rising(q, i), i > 1, earlier(q[i], q[Parent(i)])
  PROVE  Rising(Swap(q, i, Parent(i)), Parent(i))
<1> DEFINE p == Parent(i)
           s == Swap(q, i, p)
           n == Len(q)
<1>1. n \in Nat /\ i \in 1 .. n /\ i \in 2 .. n /\ p \in 1 .. n /\ p < i /\ p \in Nat /\ i \in Nat
  BY ParentFacts, QueueFacts DEF Rising
<1> HIDE DEF p, s, n
<1>2. Queue(s) /\ Len(s) = n /\ s[i] = q[p] /\ s[p] = q[i]
  BY Zenon, <1>1, SwapReorders, SwapFacts DEF Reordered, s, n
<1>3. \A k \in 1 .. n : k # i /\ k # p => s[k] = q[k]
  BY Zenon, <1>1, SwapFacts DEF s, n
<1>4. \A k \in 1 .. n : q[k] \in Event
  BY Zenon, QueueFacts DEF n
<1>5. earlier(q[i], q[p]) /\ ~earlier(q[p], q[i])
  BY Zenon, <1>1, <1>4, Asymmetric DEF p
<1>6. ASSUME NEW k \in 2 .. n PROVE k \in 1 .. n /\ Parent(k) \in 1 .. n /\ Parent(k) < k /\ k \in Nat
  BY <1>1, ParentFacts
<1>7. ASSUME NEW k \in 2 .. n, k # i PROVE ~earlier(q[k], q[Parent(k)])
  BY Zenon, <1>7 DEF Rising, Ordered, n
<1>8. ASSUME NEW k \in 2 .. n, Parent(k) = i PROVE ~earlier(q[k], q[p])
  BY Zenon, <1>8 DEF Rising, p, n
<1>9. ASSUME NEW k \in 2 .. n, k # p PROVE ~earlier(s[k], s[Parent(k)])
  <2>1. CASE k = i
    BY Zenon, <2>1, <1>2, <1>5 DEF p
  <2>2. CASE Parent(k) = i
    <3>1. k # i
      BY <2>2, <1>6, <1>1
    <3>2. s[k] = q[k]
      BY Zenon, <3>1, <1>3, <1>6, <1>9
    <3> QED BY Zenon, <2>2, <3>2, <1>2, <1>8
  <2>3. CASE k # i /\ Parent(k) = p
    <3>1. s[k] = q[k] /\ ~earlier(q[k], q[p])
      BY Zenon, <2>3, <1>3, <1>6, <1>7, <1>9
    <3>2. ~earlier(q[k], q[i])
      <4>1. SUFFICES ASSUME earlier(q[k], q[i]) PROVE FALSE
        OBVIOUS
      <4>2. ~earlier(q[i], q[k])
        BY Zenon, <4>1, <1>1, <1>4, <1>6, Asymmetric
      <4>3. ~earlier(q[i], q[p])
        BY Zenon, <4>2, <3>1, <1>1, <1>4, <1>6, NotEarlier
      <4> QED BY Zenon, <4>3, <1>5
    <3> QED BY Zenon, <2>3, <3>1, <3>2, <1>2
  <2>4. CASE k # i /\ Parent(k) # i /\ Parent(k) # p
    <3>1. s[k] = q[k] /\ s[Parent(k)] = q[Parent(k)]
      BY Zenon, <2>4, <1>3, <1>6, <1>9
    <3> QED BY Zenon, <2>4, <3>1, <1>7
  <2> QED BY Zenon, <2>1, <2>2, <2>3, <2>4
<1>10. ASSUME NEW k \in 2 .. n, Parent(k) = p, p > 1 PROVE ~earlier(s[k], s[Parent(p)])
  <2>1. p \in 2 .. n /\ p # i /\ Parent(p) # p /\ Parent(p) # i
    BY <1>1, <1>10, ParentFacts
  <2>2. s[Parent(p)] = q[Parent(p)] /\ Parent(p) \in 1 .. n
    BY Zenon, <2>1, <1>3, <1>6
  <2>3. ~earlier(q[p], q[Parent(p)])
    BY Zenon, <2>1, <1>7
  <2>4. CASE k = i
    BY Zenon, <2>4, <2>2, <2>3, <1>2
  <2>5. CASE k # i
    <3>1. k # p
      BY <1>10, <1>6, <1>1
    <3>2. s[k] = q[k] /\ ~earlier(q[k], q[p])
      BY Zenon, <2>5, <3>1, <1>3, <1>6, <1>7, <1>10
    <3>3. ~earlier(q[k], q[Parent(p)])
      BY Zenon, <3>2, <2>2, <2>3, <1>1, <1>4, <1>6, NotEarlier
    <3> QED BY Zenon, <3>2, <3>3, <2>2
  <2> QED BY Zenon, <2>4, <2>5
<1>11. p \in 1 .. Len(s)
  BY Zenon, <1>1, <1>2
<1> QED BY Zenon, <1>2, <1>9, <1>10, <1>11 DEF Rising, Ordered, p, s

\* What is known of the loop of push after k of n rounds, when it started with q.
Risen(q, k, c) ==
  /\ Reordered(q, c.q) /\ Rising(c.q, c.i)
  /\ Heap(c.q) \/ c.i <= Len(q) - k

\* The states of a loop over a queue.
Cursor == [q : Seq(Event), i : Nat]

LEMMA AtFacts ==
  ASSUME NEW q, Queue(q), NEW i \in Nat
  PROVE  At(q, i) \in Cursor /\ At(q, i).q = q /\ At(q, i).i = i
BY DEF At, Cursor, Queue

LEMMA RiseKeeps ==
  ASSUME NEW q, NEW k \in 1 .. Len(q), NEW c \in Cursor, Risen(q, k - 1, c)
  PROVE  Rise(c) \in Cursor /\ Risen(q, k, Rise(c))
<1>1. Reordered(q, c.q) /\ Rising(c.q, c.i) /\ Queue(c.q) /\ Len(c.q) = Len(q)
  BY Zenon DEF Risen, Reordered
<1>2. Len(q) \in Nat /\ c.i \in 1 .. Len(q)
  <2>1. Len(c.q) \in Nat /\ c.i \in 1 .. Len(c.q)
    BY Zenon, <1>1, QueueFacts DEF Rising
  <2> QED BY Zenon, <1>1, <2>1
<1>3. CASE c.i > 1 /\ earlier(c.q[c.i], c.q[Parent(c.i)])
  <2> DEFINE p == Parent(c.i)
             s == Swap(c.q, c.i, p)
  <2>1. Rise(c) = At(s, p)
    BY Zenon, <1>3 DEF Rise, Parent
  <2>2. p \in 1 .. Len(c.q) /\ p < c.i /\ c.i \in 2 .. Len(c.q)
    BY <1>1, <1>2, <1>3, ParentFacts
  <2>3. Rising(s, p)
    BY Zenon, <1>1, <1>3, RisingOn
  <2>4. Reordered(c.q, s) /\ Queue(s) /\ p \in Nat
    <3>1. Reordered(c.q, s)
      BY Zenon, <1>1, <1>2, <2>2, SwapReorders
    <3>2. p \in Nat
      BY <2>2
    <3> QED BY Zenon, <3>1, <3>2 DEF Reordered
  <2>5. Reordered(q, s)
    BY Zenon, <1>1, <2>4, ReorderedAgain
  <2> HIDE DEF p, s
  <2>6. Rise(c) \in Cursor /\ Rise(c).q = s /\ Rise(c).i = p
    <3>1. At(s, p) \in Cursor /\ At(s, p).q = s /\ At(s, p).i = p
      BY Zenon, <2>4, AtFacts
    <3> QED BY Zenon, <2>1, <3>1
  <2>7. ~Heap(c.q)
    <3>1. ~Ordered(c.q, c.i)
      BY Zenon, <1>3 DEF Ordered
    <3> QED BY Zenon, <3>1, <2>2 DEF Heap
  <2>8. c.i <= Len(q) - (k - 1)
    BY Zenon, <2>7 DEF Risen
  <2>9. p <= Len(q) - k
    BY <2>8, <2>2, <1>2, <1>1
  <2> QED BY Zenon, <2>3, <2>5, <2>6, <2>9 DEF Risen
<1>4. CASE ~(c.i > 1 /\ earlier(c.q[c.i], c.q[Parent(c.i)]))
  <2>1. Rise(c) = c
    BY Zenon, <1>4 DEF Rise, Parent
  <2>2. Heap(c.q)
    <3> SUFFICES ASSUME NEW j \in 2 .. Len(c.q) PROVE Ordered(c.q, j)
      BY Zenon DEF Heap
    <3>1. CASE j = c.i
      <4>1. c.i > 1
        BY <3>1, <1>1, <1>2
      <4> QED BY Zenon, <3>1, <4>1, <1>4 DEF Ordered
    <3>2. CASE j # c.i
      BY Zenon, <3>2, <1>1 DEF Rising
    <3> QED BY Zenon, <3>1, <3>2
  <2> QED BY Zenon, <2>1, <2>2, <1>1 DEF Risen
<1> QED BY Zenon, <1>3, <1>4

IsRise(f, q, i) == f = [k \in 0 .. i |-> IF k = 0 THEN At(q, i) ELSE Rise(f[k - 1])]

LEMMA SiftUpIs ==
  ASSUME NEW q, NEW i
  PROVE  siftUp(q, i) = (CHOOSE f : IsRise(f, q, i))[i].q
BY Zenon DEF siftUp, IsRise

\* An element at the end of a heap rises to its place.
LEMMA SiftUpOrders ==
  ASSUME NEW q, Queue(q), NEW n, n = Len(q), n >= 1, Rising(q, n)
  PROVE  Reordered(q, siftUp(q, n)) /\ Heap(siftUp(q, n))
<1>1. n \in Nat
  BY Zenon, QueueFacts
<1> DEFINE S == [k \in 0 .. n |-> {c \in Cursor : Risen(q, k, c)}]
           G == [p \in (1 .. n) \X Cursor |-> Rise(p[2])]
<1>2. \A k \in 1 .. n : k \in 0 .. n /\ k - 1 \in 0 .. n /\ k # 0
  BY <1>1
<1>3. At(q, n) \in S[0]
  <2>1. At(q, n) \in Cursor /\ At(q, n).q = q /\ At(q, n).i = n
    BY Zenon, <1>1, AtFacts
  <2>2. n <= Len(q) - 0 /\ 0 \in 0 .. n
    BY <1>1
  <2>3. Reordered(q, q)
    BY Zenon DEF Reordered
  <2> QED BY Zenon, <2>1, <2>2, <2>3 DEF Risen
<1>4. ASSUME NEW k \in 1 .. n, NEW c \in S[k - 1] PROVE Rise(c) \in S[k] /\ c \in Cursor
  <2>1. c \in Cursor /\ Risen(q, k - 1, c)
    BY Zenon, <1>2
  <2> HIDE DEF S
  <2>2. Rise(c) \in Cursor /\ Risen(q, k, Rise(c))
    BY Zenon, <2>1, RiseKeeps
  <2> QED BY Zenon, <1>2, <2>1, <2>2 DEF S
<1>5. \E f : IsRise(f, q, n)
  <2>1. \A k \in 1 .. n : \A c \in S[k - 1] : G[<<k, c>>] = Rise(c)
    <3> SUFFICES ASSUME NEW k \in 1 .. n, NEW c \in S[k - 1] PROVE G[<<k, c>>] = Rise(c)
      BY Zenon
    <3>1. c \in Cursor
      BY Zenon, <1>4
    <3> QED BY <3>1
  <2>2. \A k \in 1 .. n : \A c \in S[k - 1] : G[<<k, c>>] \in S[k]
    BY Zenon, <2>1, <1>4
  <2> HIDE DEF S, G
  <2>3. PICK f : Within(f, n, At(q, n), G, S)
    BY Zenon, <1>1, <1>3, <2>2, LoopRunsWithin
  <2>4. ASSUME NEW k \in 0 .. n PROVE f[k] = IF k = 0 THEN At(q, n) ELSE Rise(f[k - 1])
    <3>1. k = 0 \/ k \in 1 .. n
      BY <1>1
    <3> QED BY Zenon, <3>1, <2>1, <2>3, <1>2 DEF Within
  <2>5. f = [k \in 0 .. n |-> f[k]]
    BY Zenon, <2>3 DEF Within
  <2>6. IsRise(f, q, n)
    BY Zenon, <2>4, <2>5 DEF IsRise
  <2> QED BY Zenon, <2>6
<1>6. PICK f : IsRise(f, q, n) /\ siftUp(q, n) = f[n].q
  BY Zenon, <1>5, SiftUpIs
<1>7. \A k \in 0 .. n : f[k] = IF k = 0 THEN At(q, n) ELSE Rise(f[k - 1])
  BY Zenon, <1>6 DEF IsRise
<1> HIDE DEF G
<1>8. f[0] \in S[0] /\ n \in 0 .. n
  <2>1. 0 \in 0 .. n /\ n \in 0 .. n
    BY <1>1
  <2> QED BY Zenon, <2>1, <1>3, <1>7
<1>9. ASSUME NEW k \in 1 .. n, f[k - 1] \in S[k - 1] PROVE f[k] \in S[k]
  <2>1. f[k] = Rise(f[k - 1])
    BY Zenon, <1>2, <1>7
  <2> QED BY Zenon, <2>1, <1>4, <1>9
<1>10. f[n] \in S[n]
  <2> HIDE DEF S
  <2>1. \A k \in 0 .. n : f[k] \in S[k]
    BY Zenon, <1>1, <1>8, <1>9, LoopKeeps
  <2> QED BY Zenon, <2>1, <1>8
<1>11. Risen(q, n, f[n])
  BY Zenon, <1>8, <1>10
<1>12. ~(f[n].i <= Len(q) - n)
  <2>1. f[n].i \in 1 .. Len(f[n].q) /\ Len(f[n].q) = Len(q)
    BY Zenon, <1>11 DEF Risen, Rising, Reordered
  <2> QED BY <2>1, <1>1
<1> QED BY Zenon, <1>6, <1>11, <1>12 DEF Risen

\* A queue in heap order.
Sound(q) == Queue(q) /\ Heap(q)

\* push adds the message, and the queue is a heap again.
LEMMA PushSound ==
  ASSUME NEW q, Sound(q), NEW ev \in Event, \A e \in In(q) : e.seq # ev.seq
  PROVE  Sound(push(q, ev)) /\ In(push(q, ev)) = In(q) \cup {ev}
<1> DEFINE r == Append(q, ev)
           n == Len(q) + 1
<1>1. Len(q) \in Nat /\ q \in Seq(Event) /\ Queue(q) /\ Heap(q)
  BY Zenon, QueueFacts DEF Sound, Queue
<1>2. r \in Seq(Event) /\ Len(r) = n /\ r[n] = ev /\ \A k \in 1 .. Len(q) : r[k] = q[k]
  BY <1>1
<1> HIDE DEF r
<1>3. /\ n \in Nat /\ n >= 1 /\ n \in 1 .. n
      /\ \A k \in 1 .. n : k = n \/ k \in 1 .. Len(q)
      /\ \A k \in 1 .. Len(q) : k # n /\ k \in 1 .. n
  BY <1>1
<1> HIDE DEF n
<1>4. Queue(r) /\ In(r) = In(q) \cup {ev}
  BY Zenon, <1>1, Appended DEF r
<1>5. Rising(r, n)
  <2>1. ASSUME NEW k \in 2 .. n
        PROVE  /\ k # n => k \in 2 .. Len(q) /\ k \in 1 .. Len(q) /\ Parent(k) \in 1 .. Len(q)
               /\ Parent(k) # n
    BY <1>1, <1>3, ParentFacts DEF n
  <2>2. ASSUME NEW k \in 2 .. n, k # n PROVE Ordered(r, k)
    <3>1. Ordered(q, k) /\ r[k] = q[k] /\ r[Parent(k)] = q[Parent(k)]
      BY Zenon, <2>1, <2>2, <1>1, <1>2 DEF Heap
    <3> QED BY Zenon, <3>1 DEF Ordered
  <2> QED BY Zenon, <2>1, <2>2, <1>2, <1>3 DEF Rising
<1>6. Reordered(r, siftUp(r, n)) /\ Heap(siftUp(r, n))
  BY Zenon, <1>2, <1>3, <1>4, <1>5, SiftUpOrders
<1>7. push(q, ev) = siftUp(r, n)
  BY Zenon DEF push, r, n
<1> QED BY Zenon, <1>4, <1>6, <1>7 DEF Sound, Reordered

-----------------------------------------------------------------------------
(***************************************************************************)
(* siftDown.                                                               *)
(***************************************************************************)

\* The elements below s and their subtrees are in order.
HeapFrom(q, s) == \A k \in 2 .. Len(q) : Parent(k) >= s => Ordered(q, k)

\* The loop of siftDown, called for s, has come to i: only the children of i may be out
\* of order, and they are in order with the parent of i.
Falling(q, s, i) ==
  /\ i \in 1 .. Len(q) /\ i >= s
  /\ \A k \in 2 .. Len(q) : Parent(k) >= s /\ Parent(k) # i => Ordered(q, k)
  /\ \A k \in 2 .. Len(q) :
       Parent(k) = i /\ i >= 2 /\ Parent(i) >= s => ~earlier(q[k], q[Parent(i)])

LEMMA ChildrenFacts ==
  ASSUME NEW q, Queue(q), NEW i \in 1 .. Len(q), NEW k
  PROVE  k \in Children(q, i) <=> k \in 2 .. Len(q) /\ Parent(k) = i
<1>1. Len(q) \in Nat /\ DOMAIN q = 1 .. Len(q) /\ i \in Nat
  BY QueueFacts
<1>2. ASSUME k \in Children(q, i) PROVE k \in 2 .. Len(q) /\ Parent(k) = i
  <2>1. (k = 2 * i \/ k = 2 * i + 1) /\ k \in 1 .. Len(q)
    BY Zenon, <1>1, <1>2 DEF Children
  <2> QED BY <1>1, <2>1 DEF Parent
<1>3. ASSUME k \in 2 .. Len(q), Parent(k) = i PROVE k \in Children(q, i)
  <2>1. (k = 2 * i \/ k = 2 * i + 1) /\ k \in 1 .. Len(q)
    BY <1>1, <1>3 DEF Parent
  <2> QED BY Zenon, <1>1, <2>1 DEF Children
<1> QED BY Zenon, <1>2, <1>3

\* Smallest is not later than i and the children of i.
IsSmallest(q, i, k) ==
  /\ k \in {i} \cup Children(q, i)
  /\ \A c \in {i} \cup Children(q, i) : ~earlier(q[c], q[k])

LEMMA SmallestFacts ==
  ASSUME NEW q, Queue(q), NEW i \in 1 .. Len(q)
  PROVE  IsSmallest(q, i, Smallest(q, i))
<1> DEFINE C == {i} \cup Children(q, i)
           Small(k) == \A c \in C \ {k} : ~earlier(q[c], q[k])
<1>1. ASSUME NEW k \in C PROVE q[k] \in Event /\ ~earlier(q[k], q[k])
  <2>1. DOMAIN q = 1 .. Len(q) /\ \A j \in 1 .. Len(q) : q[j] \in Event
    BY Zenon, QueueFacts
  <2>2. k \in 1 .. Len(q)
    BY Zenon, <2>1 DEF Children
  <2> QED BY Zenon, <2>1, <2>2, Asymmetric
<1>2. C \subseteq {i, 2 * i, 2 * i + 1}
  BY Zenon DEF Children
<1>3. \A a, b \in C : earlier(q[a], q[b]) => ~earlier(q[b], q[a])
  BY Zenon, <1>1, Asymmetric
<1>4. \A a, b, c \in C : ~earlier(q[a], q[b]) /\ ~earlier(q[b], q[c]) => ~earlier(q[a], q[c])
  BY Zenon, <1>1, NotEarlier
<1>5. ASSUME NEW a \in C, NEW b \in C
      PROVE  \E k \in {a, b} : ~earlier(q[a], q[k]) /\ ~earlier(q[b], q[k])
  BY Zenon, <1>1, <1>3
<1>6. \E k \in C : Small(k)
  <2> HIDE DEF C
  <2>0. i \in C
    BY Zenon DEF C
  <2> DEFINE l == IF 2 * i \in C THEN 2 * i ELSE i
             r == IF 2 * i + 1 \in C THEN 2 * i + 1 ELSE i
  <2>1. l \in C /\ r \in C /\ \A c \in C : c = i \/ c = l \/ c = r
    BY Zenon, <2>0, <1>2
  <2> HIDE DEF l, r
  <2>2. PICK x \in {i, l} : ~earlier(q[i], q[x]) /\ ~earlier(q[l], q[x])
    BY Zenon, <2>0, <2>1, <1>5
  <2>3. x \in C
    BY Zenon, <2>0, <2>1
  <2>4. PICK k \in {x, r} : ~earlier(q[x], q[k]) /\ ~earlier(q[r], q[k])
    BY Zenon, <2>1, <2>3, <1>5
  <2>5. k \in C
    BY Zenon, <2>1, <2>3
  <2>6. ~earlier(q[i], q[k]) /\ ~earlier(q[l], q[k])
    BY Zenon, <2>0, <2>1, <2>2, <2>3, <2>4, <2>5, <1>4
  <2> QED BY Zenon, <2>1, <2>4, <2>5, <2>6
<1>7. Smallest(q, i) = CHOOSE k \in C : Small(k)
  BY Zenon DEF Smallest
<1>8. Smallest(q, i) \in C /\ Small(Smallest(q, i))
  BY Zenon, <1>6, <1>7
<1>9. \A c \in C : ~earlier(q[c], q[Smallest(q, i)])
  BY Zenon, <1>8, <1>1
<1> QED BY Zenon, <1>8, <1>9 DEF IsSmallest

\* What a round of siftDown that moves on from i to m leads to.
Moved(q, s, i, m) ==
  /\ Falling(Swap(q, i, m), s, m) /\ m > i
  /\ i \in 1 .. Len(q) /\ m \in 1 .. Len(q)

\* A round that moves on keeps Falling.
LEMMA FallingOn ==
  ASSUME NEW q, Queue(q), NEW s \in Nat, NEW i, Falling(q, s, i),
         NEW m, m = Smallest(q, i), m # i
  PROVE  Moved(q, s, i, m)
<1> DEFINE t == Swap(q, i, m)
           n == Len(q)
<1>1. n \in Nat /\ i \in 1 .. n /\ i >= s
  BY Zenon, QueueFacts DEF Falling
<1>2. IsSmallest(q, i, m)
  BY Zenon, <1>1, SmallestFacts
<1>3. m \in 2 .. n /\ Parent(m) = i
  BY Zenon, <1>1, <1>2, ChildrenFacts DEF IsSmallest
<1>4. ASSUME NEW k \in 2 .. n
      PROVE  k \in 1 .. n /\ Parent(k) \in 1 .. n /\ Parent(k) < k /\ k \in Nat /\ Parent(k) \in Nat
  BY <1>1, ParentFacts
<1>5. m \in 1 .. n /\ i < m /\ m > i /\ m >= s /\ i \in Nat /\ m \in Nat
  BY <1>1, <1>3, <1>4
<1> HIDE DEF t, n
<1>6. Len(t) = n /\ t[i] = q[m] /\ t[m] = q[i]
  BY Zenon, <1>1, <1>5, SwapFacts DEF t, n
<1>7. \A k \in 1 .. n : k # i /\ k # m => t[k] = q[k]
  BY Zenon, <1>1, <1>5, SwapFacts DEF t, n
<1>8. ASSUME NEW k \in 2 .. n, Parent(k) >= s, Parent(k) # i PROVE ~earlier(q[k], q[Parent(k)])
  BY Zenon, <1>8 DEF Falling, Ordered, n
<1>9. ~earlier(q[i], q[m]) /\ \A k \in 2 .. n : Parent(k) = i => ~earlier(q[k], q[m])
  <2>1. \A k \in 2 .. n : Parent(k) = i => k \in Children(q, i)
    BY Zenon, <1>1, ChildrenFacts DEF n
  <2> QED BY Zenon, <2>1, <1>2 DEF IsSmallest
<1>10. ASSUME NEW k \in 2 .. n, Parent(k) >= s, Parent(k) # m PROVE ~earlier(t[k], t[Parent(k)])
  <2>1. CASE k = m
    BY Zenon, <2>1, <1>3, <1>6, <1>9
  <2>2. CASE Parent(k) = i /\ k # m
    <3>1. k # i
      BY <2>2, <1>1, <1>4
    <3>2. t[k] = q[k] /\ t[Parent(k)] = q[m]
      BY Zenon, <2>2, <3>1, <1>4, <1>6, <1>7, <1>10
    <3> QED BY Zenon, <2>2, <3>2, <1>9
  <2>3. CASE k = i
    <3>1. Parent(i) # i /\ Parent(i) # m /\ i >= 2
      BY <2>3, <1>4, <1>5
    <3>2. t[Parent(i)] = q[Parent(i)]
      BY Zenon, <3>1, <2>3, <1>4, <1>7
    <3>3. ~earlier(q[m], q[Parent(i)])
      BY Zenon, <2>3, <3>1, <1>3, <1>10 DEF Falling, n
    <3> QED BY Zenon, <2>3, <3>2, <3>3, <1>6
  <2>4. CASE k # i /\ k # m /\ Parent(k) # i
    <3>1. t[k] = q[k] /\ t[Parent(k)] = q[Parent(k)]
      BY Zenon, <2>4, <1>4, <1>7, <1>10
    <3> QED BY Zenon, <3>1, <2>4, <1>8, <1>10
  <2> QED BY Zenon, <2>1, <2>2, <2>3, <2>4
<1>11. ASSUME NEW k \in 2 .. n, Parent(k) = m PROVE ~earlier(t[k], t[Parent(m)])
  <2>1. k # i /\ k # m /\ m # i
    BY <1>4, <1>5, <1>11
  <2>2. t[k] = q[k] /\ t[Parent(m)] = q[m]
    BY Zenon, <2>1, <1>3, <1>4, <1>6, <1>7
  <2>3. ~earlier(q[k], q[m])
    BY Zenon, <2>1, <1>5, <1>8, <1>11
  <2> QED BY Zenon, <2>2, <2>3
<1>12. Falling(t, s, m)
  BY Zenon, <1>5, <1>6, <1>10, <1>11 DEF Falling, Ordered
<1> QED BY Zenon, <1>1, <1>5, <1>12 DEF Moved, t, n

\* What is known of the loop of siftDown after k rounds, when it started with q at s.
Sunk(q, s, k, c) ==
  /\ Reordered(q, c.q) /\ Falling(c.q, s, c.i)
  /\ HeapFrom(c.q, s) \/ c.i >= s + k

LEMMA SinkKeeps ==
  ASSUME NEW q, NEW s \in Nat, NEW k \in 1 .. Len(q), NEW c \in Cursor, Sunk(q, s, k - 1, c)
  PROVE  Sink(c) \in Cursor /\ Sunk(q, s, k, Sink(c))
<1> DEFINE m == Smallest(c.q, c.i)
<1>1. Reordered(q, c.q) /\ Falling(c.q, s, c.i) /\ Queue(c.q) /\ Len(c.q) = Len(q)
  BY Zenon DEF Sunk, Reordered
<1>2. c.i \in 1 .. Len(c.q)
  BY Zenon, <1>1 DEF Falling
<1>3. Len(q) \in Nat /\ k \in Nat /\ c.i \in Nat
  <2>1. Len(c.q) \in Nat
    BY Zenon, <1>1, QueueFacts
  <2> QED BY <2>1, <1>1, <1>2
<1> HIDE DEF m
<1>4. CASE m # c.i
  <2> DEFINE t == Swap(c.q, c.i, m)
  <2>1. Sink(c) = At(t, m)
    BY Zenon, <1>4 DEF Sink, m
  <2>2. Falling(t, s, m) /\ m > c.i /\ m \in 1 .. Len(c.q)
    <3>1. m = Smallest(c.q, c.i)
      BY Zenon DEF m
    <3>2. Moved(c.q, s, c.i, m)
      BY Zenon, <1>1, <1>4, <3>1, FallingOn
    <3> QED BY Zenon, <3>2 DEF Moved
  <2>3. Reordered(c.q, t)
    BY Zenon, <1>1, <1>2, <2>2, SwapReorders
  <2>4. Queue(t) /\ Reordered(q, t) /\ m \in Nat
    <3>1. m \in Nat
      BY <2>2
    <3> QED BY Zenon, <1>1, <2>3, <3>1, ReorderedAgain DEF Reordered
  <2> HIDE DEF t
  <2>5. At(t, m) \in Cursor /\ At(t, m).q = t /\ At(t, m).i = m
    BY Zenon, <2>4, AtFacts
  <2>6. ~HeapFrom(c.q, s)
    <3> SUFFICES ASSUME HeapFrom(c.q, s) PROVE FALSE
      BY Zenon
    <3>1. IsSmallest(c.q, c.i, m)
      BY Zenon, <1>1, <1>2, SmallestFacts DEF m
    <3>2. m \in 2 .. Len(c.q) /\ Parent(m) = c.i
      BY Zenon, <3>1, <1>1, <1>2, <1>4, ChildrenFacts DEF IsSmallest
    <3>3. ~earlier(c.q[m], c.q[c.i])
      BY Zenon, <3>2, <1>1 DEF HeapFrom, Ordered, Falling
    <3>4. ~earlier(c.q[c.i], c.q[m])
      BY Zenon, <3>1 DEF IsSmallest
    <3>5. c.q[m].seq # c.q[c.i].seq
      BY Zenon, <1>1, <1>2, <1>4, <2>2 DEF Queue
    <3>6. c.q[m] \in Event /\ c.q[c.i] \in Event
      BY Zenon, <1>1, <1>2, <2>2, QueueFacts
    <3> QED BY Zenon, <3>3, <3>4, <3>5, <3>6, Total
  <2>7. m >= s + k
    <3>1. c.i >= s + (k - 1)
      BY Zenon, <2>6 DEF Sunk
    <3> QED BY <3>1, <2>2, <2>4, <1>3
  <2> QED BY Zenon, <2>1, <2>2, <2>4, <2>5, <2>7 DEF Sunk
<1>5. CASE m = c.i
  <2>1. Sink(c) = c
    BY Zenon, <1>5 DEF Sink, m
  <2>2. IsSmallest(c.q, c.i, c.i)
    BY Zenon, <1>1, <1>2, <1>5, SmallestFacts DEF m
  <2>3. HeapFrom(c.q, s)
    <3> SUFFICES ASSUME NEW j \in 2 .. Len(c.q), Parent(j) >= s PROVE Ordered(c.q, j)
      BY Zenon DEF HeapFrom
    <3>1. CASE Parent(j) = c.i
      <4>1. j \in Children(c.q, c.i)
        BY Zenon, <3>1, <1>1, <1>2, ChildrenFacts
      <4> QED BY Zenon, <3>1, <4>1, <2>2 DEF IsSmallest, Ordered
    <3>2. CASE Parent(j) # c.i
      BY Zenon, <3>2, <1>1 DEF Falling
    <3> QED BY Zenon, <3>1, <3>2
  <2> QED BY Zenon, <2>1, <2>3, <1>1 DEF Sunk
<1> QED BY Zenon, <1>4, <1>5

IsSink(f, q, i) == f = [k \in 0 .. Len(q) |-> IF k = 0 THEN At(q, i) ELSE Sink(f[k - 1])]

LEMMA SiftDownIs ==
  ASSUME NEW q, NEW i
  PROVE  siftDown(q, i) = (CHOOSE f : IsSink(f, q, i))[Len(q)].q
BY Zenon DEF siftDown, IsSink

\* siftDown at s repairs the order from s on, when only the children of s break it.
LEMMA SiftDownOrders ==
  ASSUME NEW q, Queue(q), NEW s \in Nat, s >= 1, Falling(q, s, s)
  PROVE  Reordered(q, siftDown(q, s)) /\ HeapFrom(siftDown(q, s), s)
<1> DEFINE n == Len(q)
<1>1. n \in Nat
  BY Zenon, QueueFacts
<1> DEFINE S == [k \in 0 .. n |-> {c \in Cursor : Sunk(q, s, k, c)}]
           G == [p \in (1 .. n) \X Cursor |-> Sink(p[2])]
<1> HIDE DEF n
<1>2. \A k \in 1 .. n : k \in 0 .. n /\ k - 1 \in 0 .. n /\ k # 0
  BY <1>1
<1>3. At(q, s) \in S[0]
  <2>1. At(q, s) \in Cursor /\ At(q, s).q = q /\ At(q, s).i = s
    BY Zenon, AtFacts
  <2>2. s >= s + 0 /\ 0 \in 0 .. n
    BY <1>1
  <2>3. Reordered(q, q)
    BY Zenon DEF Reordered
  <2> QED BY Zenon, <2>1, <2>2, <2>3 DEF Sunk
<1>4. ASSUME NEW k \in 1 .. n, NEW c \in S[k - 1] PROVE Sink(c) \in S[k] /\ c \in Cursor
  <2>1. c \in Cursor /\ Sunk(q, s, k - 1, c)
    BY Zenon, <1>2
  <2> HIDE DEF S
  <2>2. Sink(c) \in Cursor /\ Sunk(q, s, k, Sink(c))
    BY Zenon, <2>1, SinkKeeps DEF n
  <2> QED BY Zenon, <1>2, <2>1, <2>2 DEF S
<1>5. \E f : IsSink(f, q, s)
  <2>1. \A k \in 1 .. n : \A c \in S[k - 1] : G[<<k, c>>] = Sink(c)
    <3> SUFFICES ASSUME NEW k \in 1 .. n, NEW c \in S[k - 1] PROVE G[<<k, c>>] = Sink(c)
      BY Zenon
    <3>1. c \in Cursor
      BY Zenon, <1>4
    <3> QED BY <3>1
  <2>2. \A k \in 1 .. n : \A c \in S[k - 1] : G[<<k, c>>] \in S[k]
    BY Zenon, <2>1, <1>4
  <2> HIDE DEF S, G
  <2>3. PICK f : Within(f, n, At(q, s), G, S)
    BY Zenon, <1>1, <1>3, <2>2, LoopRunsWithin
  <2>4. ASSUME NEW k \in 0 .. n PROVE f[k] = IF k = 0 THEN At(q, s) ELSE Sink(f[k - 1])
    <3>1. k = 0 \/ k \in 1 .. n
      BY <1>1
    <3> QED BY Zenon, <3>1, <2>1, <2>3, <1>2 DEF Within
  <2>5. f = [k \in 0 .. n |-> f[k]]
    BY Zenon, <2>3 DEF Within
  <2>6. IsSink(f, q, s)
    BY Zenon, <2>4, <2>5 DEF IsSink, n
  <2> QED BY Zenon, <2>6
<1>6. PICK f : IsSink(f, q, s) /\ siftDown(q, s) = f[n].q
  BY Zenon, <1>5, SiftDownIs DEF n
<1>7. \A k \in 0 .. n : f[k] = IF k = 0 THEN At(q, s) ELSE Sink(f[k - 1])
  BY Zenon, <1>6 DEF IsSink, n
<1> HIDE DEF G
<1>8. f[0] \in S[0] /\ n \in 0 .. n
  <2>1. 0 \in 0 .. n /\ n \in 0 .. n
    BY <1>1
  <2> QED BY Zenon, <2>1, <1>3, <1>7
<1>9. ASSUME NEW k \in 1 .. n, f[k - 1] \in S[k - 1] PROVE f[k] \in S[k]
  <2>1. f[k] = Sink(f[k - 1])
    BY Zenon, <1>2, <1>7
  <2> QED BY Zenon, <2>1, <1>4, <1>9
<1>10. f[n] \in S[n]
  <2> HIDE DEF S
  <2>1. \A k \in 0 .. n : f[k] \in S[k]
    BY Zenon, <1>1, <1>8, <1>9, LoopKeeps
  <2> QED BY Zenon, <2>1, <1>8
<1>11. Sunk(q, s, n, f[n])
  BY Zenon, <1>8, <1>10
<1>12. ~(f[n].i >= s + n)
  <2>1. f[n].i \in 1 .. Len(f[n].q) /\ Len(f[n].q) = n
    BY Zenon, <1>11 DEF Sunk, Falling, Reordered, n
  <2> QED BY <2>1, <1>1
<1> QED BY Zenon, <1>6, <1>11, <1>12 DEF Sunk

-----------------------------------------------------------------------------
(***************************************************************************)
(* pop.                                                                    *)
(***************************************************************************)

LEMMA HeapFromRoot ==
  ASSUME NEW q, Queue(q)
  PROVE  HeapFrom(q, 1) <=> Heap(q)
<1>1. \A k \in 2 .. Len(q) : Parent(k) >= 1
  BY ParentFacts, QueueFacts
<1> QED BY Zenon, <1>1 DEF HeapFrom, Heap

\* The root comes before everything else.
LEMMA RootFirst ==
  ASSUME NEW q, Sound(q), NEW j \in 1 .. Len(q)
  PROVE  ~earlier(q[j], q[1])
<1> DEFINE n == Len(q)
           U == {k \in 1 .. n : earlier(q[k], q[1])}
<1> SUFFICES ASSUME U # {} PROVE FALSE
  BY Zenon
<1>1. n \in Nat /\ 1 \in 1 .. n /\ Queue(q) /\ Heap(q) /\ \A k \in 1 .. n : q[k] \in Event
  <2>1. n \in Nat /\ Queue(q) /\ Heap(q) /\ \A k \in 1 .. n : q[k] \in Event
    BY Zenon, QueueFacts DEF Sound
  <2>2. 1 \in 1 .. n
    BY <2>1
  <2> QED BY Zenon, <2>1, <2>2
<1>2. PICK x \in U : \A y \in U : x <= y
  <2>1. U \in SUBSET Nat
    BY <1>1
  <2> HIDE DEF U
  <2> QED BY Zenon, <2>1, LeastOf
<1>3. x \in 1 .. n /\ earlier(q[x], q[1])
  BY Zenon, <1>2
<1>4. x # 1
  BY Zenon, <1>1, <1>3, Asymmetric
<1>5. x \in 2 .. n /\ Parent(x) \in 1 .. n /\ ~(x <= Parent(x))
  BY <1>1, <1>3, <1>4, ParentFacts
<1>6. ~earlier(q[Parent(x)], q[1])
  BY Zenon, <1>2, <1>5
<1>7. ~earlier(q[x], q[Parent(x)])
  BY Zenon, <1>1, <1>5 DEF Heap, Ordered
<1>8. ~earlier(q[x], q[1])
  BY Zenon, <1>1, <1>3, <1>5, <1>6, <1>7, NotEarlier
<1> QED BY Zenon, <1>3, <1>8

\* A queue of which the last element takes the place of the first.
LEMMA LastToRoot ==
  ASSUME NEW q \in Seq(Event), Len(q) > 1
  PROVE  /\ [SubSeq(q, 1, Len(q) - 1) EXCEPT ![1] = q[Len(q)]] \in Seq(Event)
         /\ Len([SubSeq(q, 1, Len(q) - 1) EXCEPT ![1] = q[Len(q)]]) = Len(q) - 1
         /\ \A k \in 1 .. Len(q) - 1 :
              [SubSeq(q, 1, Len(q) - 1) EXCEPT ![1] = q[Len(q)]][k]
                = IF k = 1 THEN q[Len(q)] ELSE q[k]
<1> DEFINE n == Len(q)
           m == n - 1
           u == SubSeq(q, 1, m)
<1>1. u \in Seq(Event) /\ Len(u) = m /\ \A k \in 1 .. m : u[k] = q[k]
  OBVIOUS
<1>2. q[n] \in Event /\ m \in Nat /\ m >= 1
  OBVIOUS
<1> HIDE DEF u, m, n
<1>3. [u EXCEPT ![1] = q[n]] \in Seq(Event) /\ Len([u EXCEPT ![1] = q[n]]) = m
  BY <1>1, <1>2
<1>4. \A k \in 1 .. m : [u EXCEPT ![1] = q[n]][k] = IF k = 1 THEN q[n] ELSE q[k]
  BY <1>1, <1>2
<1> QED BY Zenon, <1>3, <1>4 DEF u, m, n

\* pop takes the root away, and the queue is a heap again.
LEMMA PopSound ==
  ASSUME NEW q, Sound(q), q # <<>>
  PROVE  /\ Sound(pop(q)) /\ Len(pop(q)) = Len(q) - 1
         /\ In(pop(q)) = In(q) \ {q[1]} /\ q[1] \in In(q)
<1> DEFINE n == Len(q)
<1>1. n \in Nat /\ n >= 1 /\ q \in Seq(Event) /\ Queue(q) /\ Heap(q) /\ 1 \in 1 .. n
  BY DEF Sound, Queue
<1>2. q[1] \in In(q)
  BY Zenon, <1>1 DEF In
<1>3. \A j, k \in 1 .. n : q[j].seq = q[k].seq => j = k
  BY Zenon, <1>1 DEF Queue
<1>4. CASE n = 1
  <2>1. pop(q) = <<>>
    BY Zenon, <1>4 DEF pop
  <2>2. <<>> \in Seq(Event) /\ Len(<<>>) = 0 /\ \A k : ~(k \in 1 .. 0) /\ ~(k \in 2 .. 0)
    OBVIOUS
  <2>3. Sound(<<>>) /\ In(<<>>) = {}
    BY Zenon, <2>2 DEF Sound, Queue, Heap, In
  <2>4. \A k \in 1 .. n : k = 1
    BY <1>4
  <2>5. In(q) = {q[1]}
    BY Zenon, <2>4, <1>1 DEF In
  <2>6. Len(<<>>) = n - 1
    BY <1>4
  <2> QED BY Zenon, <1>2, <2>1, <2>3, <2>5, <2>6
<1>5. CASE n # 1
  <2> DEFINE r == [SubSeq(q, 1, n - 1) EXCEPT ![1] = q[n]]
             m == n - 1
             at == [k \in 1 .. m |-> IF k = 1 THEN n ELSE k]
  <2>0. n > 1
    <3> HIDE DEF n
    <3> QED BY <1>1, <1>5
  <2> HIDE DEF n, r, m
  <2>1. /\ r \in Seq(Event) /\ Len(r) = m
        /\ \A k \in 1 .. m : r[k] = IF k = 1 THEN q[n] ELSE q[k]
    BY Zenon, <2>0, <1>1, LastToRoot DEF r, m, n
  <2>2. /\ m \in Nat /\ m >= 1 /\ 1 \in 1 .. m
        /\ \A k \in 1 .. m : at[k] \in 1 .. n /\ at[k] # 1
        /\ \A j, k \in 1 .. m : at[j] = at[k] => j = k
        /\ \A k \in 1 .. n : k # 1 => \E j \in 1 .. m : at[j] = k
    <3>1. m \in Nat /\ m >= 1 /\ 1 \in 1 .. m /\ n = m + 1
      BY <1>1, <2>0 DEF m
    <3>2. \A k \in 1 .. m : at[k] = IF k = 1 THEN n ELSE k
      BY Zenon
    <3> HIDE DEF at
    <3>3. \A k \in 1 .. m : at[k] \in 1 .. n /\ at[k] # 1
      BY <3>1, <3>2
    <3>4. \A j, k \in 1 .. m : at[j] = at[k] => j = k
      BY <3>1, <3>2
    <3>5. ASSUME NEW k \in 1 .. n, k # 1 PROVE \E j \in 1 .. m : at[j] = k
      <4>1. CASE k = n
        BY <4>1, <3>1, <3>2
      <4>2. CASE k # n
        <5>1. k \in 1 .. m
          BY <4>2, <3>1
        <5> QED BY Zenon, <5>1, <3>2, <3>5
      <4> QED BY Zenon, <4>1, <4>2
    <3> QED BY Zenon, <3>1, <3>3, <3>4, <3>5
  <2>3. \A k \in 1 .. m : r[k] = q[at[k]]
    <3> SUFFICES ASSUME NEW k \in 1 .. m PROVE r[k] = q[at[k]]
      BY Zenon
    <3>1. at[k] = IF k = 1 THEN n ELSE k
      BY Zenon
    <3> HIDE DEF r, m, n, at
    <3> QED BY Zenon, <2>1, <3>1
  <2> HIDE DEF at
  <2>4. Queue(r)
    <3> SUFFICES ASSUME NEW j \in 1 .. m, NEW k \in 1 .. m, r[j].seq = r[k].seq PROVE j = k
      BY Zenon, <2>1 DEF Queue
    <3>1. q[at[j]].seq = q[at[k]].seq
      BY Zenon, <2>3
    <3> QED BY Zenon, <3>1, <2>2, <1>3
  <2>5. In(r) = In(q) \ {q[1]}
    <3>1. ASSUME NEW e \in In(r) PROVE e \in In(q) \ {q[1]}
      <4>0. PICK k \in 1 .. m : e = r[k]
        BY Zenon, <2>1 DEF In
      <4>1. e = q[at[k]]
        BY Zenon, <4>0, <2>3
      <4>2. q[at[k]] # q[1]
        BY Zenon, <1>1, <1>3, <2>2
      <4> QED BY Zenon, <4>1, <4>2, <2>2 DEF In, n
    <3>2. ASSUME NEW e \in In(q) \ {q[1]} PROVE e \in In(r)
      <4>1. PICK k \in 1 .. n : e = q[k] /\ k # 1
        BY Zenon DEF In, n
      <4>2. PICK j \in 1 .. m : at[j] = k
        BY Zenon, <4>1, <2>2
      <4>3. e = r[j]
        BY Zenon, <4>1, <4>2, <2>3
      <4> QED BY Zenon, <4>3, <2>1 DEF In
    <3> QED BY Zenon, <3>1, <3>2
  <2>6. Falling(r, 1, 1)
    <3>1. ASSUME NEW k \in 2 .. m, Parent(k) # 1
          PROVE  /\ k \in 2 .. n /\ k # 1 /\ k \in 1 .. m /\ Parent(k) \in 1 .. m
      <4>1. m \in Nat /\ n = m + 1 /\ k \in Nat /\ k >= 2 /\ k <= m
        BY <1>1, <2>2 DEF m
      <4>2. Parent(k) \in Nat /\ 1 <= Parent(k) /\ Parent(k) < k
        BY Zenon, <4>1, ParentFacts
      <4> QED BY <4>1, <4>2
    <3>2. ASSUME NEW k \in 2 .. m, Parent(k) # 1 PROVE Ordered(r, k)
      <4>1. r[k] = q[k] /\ r[Parent(k)] = q[Parent(k)]
        BY Zenon, <3>1, <3>2, <2>1
      <4>2. Ordered(q, k)
        BY Zenon, <3>1, <3>2, <1>1 DEF Heap, n
      <4> QED BY Zenon, <4>1, <4>2 DEF Ordered
    <3>3. 1 >= 1 /\ ~(1 >= 2)
      OBVIOUS
    <3> QED BY Zenon, <3>2, <3>3, <2>1, <2>2 DEF Falling
  <2>7. pop(q) = siftDown(r, 1)
    BY Zenon, <1>5 DEF pop, r, n
  <2>8. Reordered(r, siftDown(r, 1)) /\ HeapFrom(siftDown(r, 1), 1)
    <3>1. 1 \in Nat /\ 1 >= 1
      OBVIOUS
    <3> QED BY Zenon, <3>1, <2>4, <2>6, SiftDownOrders
  <2>9. Queue(pop(q)) /\ Heap(pop(q)) /\ Len(pop(q)) = m /\ In(pop(q)) = In(r)
    <3>1. Queue(pop(q)) /\ HeapFrom(pop(q), 1)
      BY Zenon, <2>7, <2>8 DEF Reordered
    <3>2. Heap(pop(q))
      BY Zenon, <3>1, HeapFromRoot
    <3> QED BY Zenon, <3>1, <3>2, <2>1, <2>7, <2>8 DEF Reordered
  <2> QED BY Zenon, <2>5, <2>9, <1>2 DEF Sound, m, n
<1> QED BY Zenon, <1>4, <1>5

-----------------------------------------------------------------------------
(***************************************************************************)
(* Isolate.                                                                *)
(***************************************************************************)

\* siftDown at s extends the order from below s to s.
LEMMA SiftDownExtends ==
  ASSUME NEW q, Queue(q), NEW s \in 1 .. Len(q), HeapFrom(q, s + 1)
  PROVE  Reordered(q, siftDown(q, s)) /\ HeapFrom(siftDown(q, s), s)
<1>1. Len(q) \in Nat /\ s \in Nat /\ s >= 1 /\ s >= s
  BY QueueFacts
<1>2. ASSUME NEW k \in 2 .. Len(q), Parent(k) >= s, Parent(k) # s PROVE Ordered(q, k)
  <2>1. Parent(k) >= s + 1
    BY <1>1, <1>2, ParentFacts
  <2> QED BY Zenon, <2>1 DEF HeapFrom
<1>3. ASSUME s >= 2, Parent(s) >= s PROVE FALSE
  BY <1>1, <1>3, ParentFacts
<1>4. Falling(q, s, s)
  BY Zenon, <1>1, <1>2, <1>3 DEF Falling
<1> QED BY Zenon, <1>1, <1>4, SiftDownOrders

Heapified(q, n, k, r) == Reordered(q, r) /\ HeapFrom(r, n - k + 1)

IsHeapify(f, q, n) ==
  f = [k \in 0 .. n |-> IF k = 0 THEN q ELSE siftDown(f[k - 1], n - k + 1)]

LEMMA HeapifyIs ==
  ASSUME NEW q, NEW n
  PROVE  heapify(q, n) = (CHOOSE f : IsHeapify(f, q, n))[n]
BY Zenon DEF heapify, IsHeapify

\* heapify, called as Isolate does, makes a heap of any queue.
LEMMA HeapifySound ==
  ASSUME NEW q, Queue(q)
  PROVE  Sound(heapify(q, Len(q) \div 2)) /\ In(heapify(q, Len(q) \div 2)) = In(q)
<1> DEFINE n == Len(q) \div 2
<1>1. Len(q) \in Nat /\ n \in Nat /\ n <= Len(q) /\ \A k \in 2 .. Len(q) : ~(Parent(k) >= n + 1)
  <2>1. Len(q) \in Nat
    BY Zenon, QueueFacts
  <2> QED BY <2>1 DEF Parent
<1> HIDE DEF n
<1> DEFINE S == [k \in 0 .. n |-> {r \in Seq(Event) : Heapified(q, n, k, r)}]
           G == [p \in (1 .. n) \X Seq(Event) |-> siftDown(p[2], n - p[1] + 1)]
<1>2. /\ 0 \in 0 .. n /\ n \in 0 .. n
      /\ \A k \in 1 .. n : k \in 0 .. n /\ k - 1 \in 0 .. n /\ k # 0
  BY <1>1
<1>3. q \in S[0]
  <2>1. n - 0 + 1 = n + 1
    BY <1>1
  <2>2. HeapFrom(q, n - 0 + 1)
    BY Zenon, <1>1, <2>1 DEF HeapFrom
  <2>3. Reordered(q, q) /\ q \in Seq(Event)
    BY Zenon DEF Reordered, Queue
  <2> QED BY Zenon, <1>2, <2>2, <2>3 DEF Heapified
<1>4. ASSUME NEW k \in 1 .. n, NEW r \in S[k - 1] PROVE siftDown(r, n - k + 1) \in S[k] /\ r \in Seq(Event)
  <2>1. r \in Seq(Event) /\ Reordered(q, r) /\ HeapFrom(r, n - (k - 1) + 1)
    BY Zenon, <1>2 DEF Heapified
  <2> HIDE DEF S
  <2> DEFINE s == n - k + 1
  <2>2. n - (k - 1) + 1 = s + 1 /\ s \in 1 .. Len(q)
    BY <1>1
  <2> HIDE DEF s
  <2>3. Queue(r) /\ Len(r) = Len(q)
    BY Zenon, <2>1 DEF Reordered
  <2>4. Reordered(r, siftDown(r, s)) /\ HeapFrom(siftDown(r, s), s)
    BY Zenon, <2>1, <2>2, <2>3, SiftDownExtends
  <2>5. Reordered(q, siftDown(r, s)) /\ siftDown(r, s) \in Seq(Event)
    BY Zenon, <2>1, <2>4, ReorderedAgain DEF Reordered, Queue
  <2> QED BY Zenon, <1>2, <2>1, <2>4, <2>5 DEF S, Heapified, s
<1>5. \E f : IsHeapify(f, q, n)
  <2>1. \A k \in 1 .. n : \A r \in S[k - 1] : G[<<k, r>>] = siftDown(r, n - k + 1)
    <3> SUFFICES ASSUME NEW k \in 1 .. n, NEW r \in S[k - 1] PROVE G[<<k, r>>] = siftDown(r, n - k + 1)
      BY Zenon
    <3>1. r \in Seq(Event)
      BY Zenon, <1>4
    <3> QED BY <3>1
  <2>2. \A k \in 1 .. n : \A r \in S[k - 1] : G[<<k, r>>] \in S[k]
    BY Zenon, <2>1, <1>4
  <2> HIDE DEF S, G
  <2>3. PICK f : Within(f, n, q, G, S)
    BY Zenon, <1>1, <1>3, <2>2, LoopRunsWithin
  <2>4. ASSUME NEW k \in 0 .. n PROVE f[k] = IF k = 0 THEN q ELSE siftDown(f[k - 1], n - k + 1)
    <3>1. k = 0 \/ k \in 1 .. n
      BY <1>1
    <3> QED BY Zenon, <3>1, <2>1, <2>3, <1>2 DEF Within
  <2>5. f = [k \in 0 .. n |-> f[k]]
    BY Zenon, <2>3 DEF Within
  <2>6. IsHeapify(f, q, n)
    BY Zenon, <2>4, <2>5 DEF IsHeapify
  <2> QED BY Zenon, <2>6
<1>6. PICK f : IsHeapify(f, q, n) /\ heapify(q, n) = f[n]
  BY Zenon, <1>5, HeapifyIs
<1>7. \A k \in 0 .. n : f[k] = IF k = 0 THEN q ELSE siftDown(f[k - 1], n - k + 1)
  BY Zenon, <1>6 DEF IsHeapify
<1> HIDE DEF G
<1>8. ASSUME NEW k \in 1 .. n, f[k - 1] \in S[k - 1] PROVE f[k] \in S[k]
  <2>1. f[k] = siftDown(f[k - 1], n - k + 1)
    BY Zenon, <1>2, <1>7
  <2> QED BY Zenon, <2>1, <1>4, <1>8
<1>9. f[n] \in S[n]
  <2>1. f[0] \in S[0]
    BY Zenon, <1>2, <1>3, <1>7
  <2> HIDE DEF S
  <2>2. \A k \in 0 .. n : f[k] \in S[k]
    BY Zenon, <1>1, <1>8, <2>1, LoopKeeps
  <2> QED BY Zenon, <2>2, <1>2
<1>10. Reordered(q, f[n]) /\ HeapFrom(f[n], n - n + 1)
  BY Zenon, <1>2, <1>9 DEF Heapified
<1>11. n - n + 1 = 1
  BY <1>1
<1>12. Queue(f[n]) /\ Heap(f[n]) /\ In(f[n]) = In(q)
  <2>1. Queue(f[n]) /\ HeapFrom(f[n], 1) /\ In(f[n]) = In(q)
    BY Zenon, <1>10, <1>11 DEF Reordered
  <2> QED BY Zenon, <2>1, HeapFromRoot
<1> QED BY Zenon, <1>6, <1>12 DEF Sound, n

-----------------------------------------------------------------------------

\* The messages of q that Isolate keeps for node.
Spared(q, node) == {e \in In(q) : ~Touches(e, node)}

\* What the filter of Isolate has kept of the first k messages of q.
Filtered(q, node, k, r) ==
  /\ Queue(r)
  /\ In(r) = {e \in {q[j] : j \in 1 .. k} : ~Touches(e, node)}

IsKept(f, q, node) ==
  f = [k \in 0 .. Len(q) |->
         IF k = 0 THEN <<>>
         ELSE IF Touches(q[k], node) THEN f[k - 1] ELSE Append(f[k - 1], q[k])]

LEMMA KeptIs ==
  ASSUME NEW q, NEW node
  PROVE  Kept(q, node) = (CHOOSE f : IsKept(f, q, node))[Len(q)]
BY Zenon DEF Kept, IsKept

LEMMA KeptSpares ==
  ASSUME NEW q, Queue(q), NEW node
  PROVE  Queue(Kept(q, node)) /\ In(Kept(q, node)) = Spared(q, node)
<1> DEFINE n == Len(q)
           Next1(k, r) == IF Touches(q[k], node) THEN r ELSE Append(r, q[k])
<1>1. n \in Nat /\ \A k \in 1 .. n : q[k] \in Event
  BY Zenon, QueueFacts
<1> HIDE DEF n
<1> DEFINE S == [k \in 0 .. n |-> {r \in Seq(Event) : Filtered(q, node, k, r)}]
           G == [p \in (1 .. n) \X Seq(Event) |-> Next1(p[1], p[2])]
<1>2. /\ 0 \in 0 .. n /\ n \in 0 .. n
      /\ \A k \in 1 .. n : k \in 0 .. n /\ k - 1 \in 0 .. n /\ k # 0
  BY <1>1
<1>3. <<>> \in S[0]
  <2>1. <<>> \in Seq(Event) /\ Len(<<>>) = 0 /\ \A k : ~(k \in 1 .. 0)
    OBVIOUS
  <2>2. Queue(<<>>) /\ In(<<>>) = {}
    BY Zenon, <2>1 DEF Queue, In
  <2>3. Filtered(q, node, 0, <<>>)
    BY Zenon, <2>1, <2>2 DEF Filtered
  <2> QED BY Zenon, <1>2, <2>1, <2>3
<1>4. ASSUME NEW k \in 1 .. n, NEW r \in S[k - 1] PROVE Next1(k, r) \in S[k] /\ r \in Seq(Event)
  <2>1. r \in Seq(Event) /\ Queue(r)
        /\ In(r) = {e \in {q[j] : j \in 1 .. k - 1} : ~Touches(e, node)}
    BY Zenon, <1>2 DEF Filtered
  <2>2. /\ \A j \in 1 .. k : j = k \/ j \in 1 .. k - 1
        /\ \A j \in 1 .. k - 1 : j \in 1 .. k /\ j # k /\ j \in 1 .. n
        /\ k \in 1 .. k
    BY <1>1
  <2>3. {q[j] : j \in 1 .. k} = {q[j] : j \in 1 .. k - 1} \cup {q[k]}
    <3>1. ASSUME NEW e \in {q[j] : j \in 1 .. k} PROVE e \in {q[j] : j \in 1 .. k - 1} \cup {q[k]}
      BY Zenon, <2>2
    <3>2. ASSUME NEW e \in {q[j] : j \in 1 .. k - 1} \cup {q[k]} PROVE e \in {q[j] : j \in 1 .. k}
      BY Zenon, <2>2
    <3> QED BY Zenon, <3>1, <3>2
  <2> HIDE DEF S
  <2>4. CASE Touches(q[k], node)
    <3>1. Filtered(q, node, k, r)
      BY Zenon, <2>1, <2>3, <2>4 DEF Filtered
    <3> QED BY Zenon, <3>1, <2>1, <2>4, <1>2 DEF S
  <2>5. CASE ~Touches(q[k], node)
    <3>1. ASSUME NEW e \in In(r) PROVE e.seq # q[k].seq
      <4>1. PICK j \in 1 .. k - 1 : e = q[j]
        BY Zenon, <2>1
      <4>2. j \in 1 .. n /\ j # k
        BY Zenon, <2>2
      <4> QED BY Zenon, <4>1, <4>2 DEF Queue, n
    <3>2. Queue(Append(r, q[k])) /\ In(Append(r, q[k])) = In(r) \cup {q[k]}
      BY Zenon, <1>1, <2>1, <3>1, Appended
    <3>3. In(Append(r, q[k])) = {e \in {q[j] : j \in 1 .. k} : ~Touches(e, node)}
      BY Zenon, <3>2, <2>1, <2>3, <2>5
    <3>4. Filtered(q, node, k, Append(r, q[k])) /\ Append(r, q[k]) \in Seq(Event)
      BY Zenon, <3>2, <3>3 DEF Filtered, Queue
    <3> QED BY Zenon, <3>4, <2>1, <2>5, <1>2 DEF S
  <2> QED BY Zenon, <2>4, <2>5
<1> HIDE DEF Next1
<1>5. \E f : IsKept(f, q, node)
  <2>1. \A k \in 1 .. n : \A r \in S[k - 1] : G[<<k, r>>] = Next1(k, r)
    <3> SUFFICES ASSUME NEW k \in 1 .. n, NEW r \in S[k - 1] PROVE G[<<k, r>>] = Next1(k, r)
      BY Zenon
    <3>1. r \in Seq(Event)
      BY Zenon, <1>4
    <3> QED BY <3>1
  <2>2. \A k \in 1 .. n : \A r \in S[k - 1] : G[<<k, r>>] \in S[k]
    BY Zenon, <2>1, <1>4
  <2> HIDE DEF S, G
  <2>3. PICK f : Within(f, n, <<>>, G, S)
    BY Zenon, <1>1, <1>3, <2>2, LoopRunsWithin
  <2>4. ASSUME NEW k \in 0 .. n PROVE f[k] = IF k = 0 THEN <<>> ELSE Next1(k, f[k - 1])
    <3>1. k = 0 \/ k \in 1 .. n
      BY <1>1
    <3> QED BY Zenon, <3>1, <2>1, <2>3, <1>2 DEF Within
  <2>5. f = [k \in 0 .. n |-> f[k]]
    BY Zenon, <2>3 DEF Within
  <2>6. IsKept(f, q, node)
    BY Zenon, <2>4, <2>5 DEF IsKept, Next1, n
  <2> QED BY Zenon, <2>6
<1>6. PICK f : IsKept(f, q, node) /\ Kept(q, node) = f[n]
  BY Zenon, <1>5, KeptIs DEF n
<1>7. \A k \in 0 .. n : f[k] = IF k = 0 THEN <<>> ELSE Next1(k, f[k - 1])
  BY Zenon, <1>6 DEF IsKept, Next1, n
<1> HIDE DEF G
<1>8. ASSUME NEW k \in 1 .. n, f[k - 1] \in S[k - 1] PROVE f[k] \in S[k]
  <2>1. f[k] = Next1(k, f[k - 1])
    BY Zenon, <1>2, <1>7
  <2> QED BY Zenon, <2>1, <1>4, <1>8
<1>9. f[n] \in S[n]
  <2>1. f[0] \in S[0]
    BY Zenon, <1>2, <1>3, <1>7
  <2> HIDE DEF S
  <2>2. \A k \in 0 .. n : f[k] \in S[k]
    BY Zenon, <1>1, <1>8, <2>1, LoopKeeps
  <2> QED BY Zenon, <2>2, <1>2
<1>10. Filtered(q, node, n, f[n])
  BY Zenon, <1>2, <1>9
<1> QED BY Zenon, <1>6, <1>10 DEF Filtered, Spared, In, n

-----------------------------------------------------------------------------
(***************************************************************************)
(* Engines.                                                                *)
(***************************************************************************)

\* An engine with these faults.
Engine(faults) ==
  [now : Nat, seq : Nat, queue : Seq(Event), faults : {faults},
   injected : [DOMAIN faults -> Nat], drawn : Nat, sent : Nat, gone : SUBSET Nat]

\* Its queue is a heap of messages that were numbered and counted.
Running(e) ==
  /\ Sound(e.queue)
  /\ \A ev \in In(e.queue) : ev.seq <= e.seq

Faults(faults) == DOMAIN faults = 1 .. Len(faults) /\ Len(faults) \in Nat

LEMMA EngineFields ==
  ASSUME NEW faults, NEW e \in Engine(faults)
  PROVE  /\ e.now \in Nat /\ e.seq \in Nat /\ e.queue \in Seq(Event) /\ e.faults = faults
         /\ e.injected \in [DOMAIN faults -> Nat] /\ e.drawn \in Nat /\ e.sent \in Nat
         /\ e.gone \in SUBSET Nat
BY DEF Engine

\* The engine e with another queue.
WithQueue(e, q) == [e EXCEPT !.queue = q]

LEMMA WithQueueFacts ==
  ASSUME NEW faults, NEW e \in Engine(faults), NEW q \in Seq(Event)
  PROVE  /\ WithQueue(e, q) \in Engine(faults)
         /\ WithQueue(e, q).queue = q /\ WithQueue(e, q).now = e.now /\ WithQueue(e, q).seq = e.seq
         /\ WithQueue(e, q).drawn = e.drawn /\ WithQueue(e, q).sent = e.sent
         /\ WithQueue(e, q).gone = e.gone /\ WithQueue(e, q).faults = e.faults
BY Zenon DEF Engine, WithQueue

\* blockedBy is 0 or the number of a fault.
LEMMA BlockedByFacts ==
  ASSUME NEW faults, Faults(faults), NEW e \in Engine(faults), NEW from, NEW to
  PROVE  /\ blockedBy(e, from, to) = 0 \/ blockedBy(e, from, to) \in DOMAIN faults
         /\ faults = <<>> => blockedBy(e, from, to) = 0
<1> DEFINE denies == {k \in DOMAIN e.faults : ~Allow(e.faults[k], e.now, from, to)}
<1>1. e.faults = faults
  BY Zenon, EngineFields
<1>2. blockedBy(e, from, to) =
        IF denies = {} THEN 0 ELSE CHOOSE k \in denies : \A j \in denies : k <= j
  BY Zenon DEF blockedBy
<1>3. denies \subseteq DOMAIN faults /\ DOMAIN faults \subseteq Nat
  BY <1>1 DEF Faults
<1> HIDE DEF denies
<1>4. CASE denies = {}
  BY Zenon, <1>2, <1>4
<1>5. CASE denies # {}
  <2>1. \E k \in denies : \A j \in denies : k <= j
    <3>1. denies \in SUBSET Nat
      BY Zenon, <1>3
    <3> QED BY Zenon, <3>1, <1>5, LeastOf
  <2>2. blockedBy(e, from, to) \in denies
    BY Zenon, <1>2, <1>5, <2>1
  <2>3. faults # <<>>
    <3> SUFFICES ASSUME faults = <<>> PROVE FALSE
      BY Zenon
    <3>1. DOMAIN faults = {}
      OBVIOUS
    <3> QED BY Zenon, <3>1, <1>3, <2>2
  <2> QED BY Zenon, <2>2, <2>3, <1>3
<1> QED BY Zenon, <1>4, <1>5

Msg == [from : Node, to : Node]

\* The event that Collect makes of a message.
EventOf(e, m, delay) ==
  [at |-> e.now + delay, seq |-> e.seq + 1, id |-> e.sent + 1,
   from |-> m.from, to |-> m.to]

Stamped(ev, e, m, delay) ==
  /\ ev \in Event /\ ev.at = e.now + delay /\ ev.seq = e.seq + 1 /\ ev.id = e.sent + 1
  /\ ev.from = m.from /\ ev.to = m.to

LEMMA EventOfFacts ==
  ASSUME NEW faults, NEW e \in Engine(faults), NEW m \in Msg, NEW delay \in 0 .. MaxDelay
  PROVE  Stamped(EventOf(e, m, delay), e, m, delay)
<1>1. e.now \in Nat /\ e.seq \in Nat /\ e.sent \in Nat
  BY Zenon, EngineFields
<1>2. delay \in Nat /\ m.from \in Node /\ m.to \in Node
  BY EngineAssumption DEF Msg
<1>3. e.now + delay \in Nat /\ e.seq + 1 \in Nat /\ e.sent + 1 \in Nat
  BY <1>1, <1>2
<1> QED BY <1>2, <1>3 DEF EventOf, Stamped, Event, Sched!Event

\* What becomes of a message: it is lost, a fault discards it, or it is in flight.
Lost(e, r) == r.seq = e.seq /\ r.queue = e.queue /\ r.gone = e.gone
Denied(e, r) == r.seq = e.seq /\ r.queue = e.queue /\ r.gone = e.gone \cup {e.sent + 1}
Sent(e, m, delay, r) ==
  /\ r.seq = e.seq + 1 /\ r.gone = e.gone
  /\ In(r.queue) = In(e.queue) \cup {EventOf(e, m, delay)}

Outcome(e, m, draw, r) ==
  /\ r.now = e.now /\ r.sent = e.sent + 1
  /\ r.drawn = e.drawn + LossDraws + (IF draw[1] THEN 0 ELSE DelayDraws)
  /\ Running(r)
  /\ draw[1] => Lost(e, r)
  /\ ~draw[1] => Denied(e, r) \/ Sent(e, m, draw[2], r)
  /\ e.faults = <<>> /\ ~draw[1] => Sent(e, m, draw[2], r)

\* An engine that has counted a message and its draws.
Counted(e, draws) == [e EXCEPT !.sent = @ + 1, !.drawn = @ + draws]
Drawn(e, draws) == [e EXCEPT !.drawn = @ + draws]

LEMMA CountedFacts ==
  ASSUME NEW faults, NEW e \in Engine(faults), NEW draws \in Nat
  PROVE  /\ Counted(e, draws) \in Engine(faults)
         /\ Counted(e, draws).queue = e.queue /\ Counted(e, draws).now = e.now
         /\ Counted(e, draws).seq = e.seq /\ Counted(e, draws).gone = e.gone
         /\ Counted(e, draws).drawn = e.drawn + draws /\ Counted(e, draws).sent = e.sent + 1
<1>1. e.drawn + draws \in Nat /\ e.sent + 1 \in Nat
  BY EngineFields
<1> QED BY Zenon, <1>1 DEF Engine, Counted

LEMMA DrawnFacts ==
  ASSUME NEW faults, NEW e \in Engine(faults), NEW draws \in Nat
  PROVE  /\ Drawn(e, draws) \in Engine(faults)
         /\ Drawn(e, draws).queue = e.queue /\ Drawn(e, draws).now = e.now
         /\ Drawn(e, draws).seq = e.seq /\ Drawn(e, draws).gone = e.gone
         /\ Drawn(e, draws).drawn = e.drawn + draws /\ Drawn(e, draws).sent = e.sent
<1>1. e.drawn + draws \in Nat
  BY EngineFields
<1> QED BY Zenon, <1>1 DEF Engine, Drawn

Discarded(faults, e, r) ==
  /\ r \in Engine(faults)
  /\ r.queue = e.queue /\ r.now = e.now /\ r.seq = e.seq /\ r.gone = e.gone \cup {e.sent}
  /\ r.drawn = e.drawn /\ r.sent = e.sent

LEMMA DiscardFacts ==
  ASSUME NEW faults, NEW e \in Engine(faults), NEW k \in DOMAIN faults
  PROVE  Discarded(faults, e, Discard(e, k))
<1>1. /\ [e.injected EXCEPT ![k] = @ + 1] \in [DOMAIN faults -> Nat]
      /\ e.gone \cup {e.sent} \in SUBSET Nat
  BY EngineFields
<1> QED BY Zenon, <1>1 DEF Engine, Discard, Discarded

Numbered(e, q) == [e EXCEPT !.seq = @ + 1, !.queue = q]

LEMMA NumberedFacts ==
  ASSUME NEW faults, NEW e \in Engine(faults), NEW q \in Seq(Event)
  PROVE  /\ Numbered(e, q) \in Engine(faults)
         /\ Numbered(e, q).queue = q /\ Numbered(e, q).now = e.now
         /\ Numbered(e, q).seq = e.seq + 1 /\ Numbered(e, q).gone = e.gone
         /\ Numbered(e, q).drawn = e.drawn /\ Numbered(e, q).sent = e.sent
<1>1. e.seq + 1 \in Nat
  BY EngineFields
<1> QED BY Zenon, <1>1 DEF Engine, Numbered

LEMMA DrawFacts ==
  ASSUME NEW draw \in Draw
  PROVE  draw[1] \in BOOLEAN /\ draw[2] \in 0 .. MaxDelay /\ LossDraws \in Nat /\ DelayDraws \in Nat
<1>1. draw[1] \in (IF run.lossy THEN BOOLEAN ELSE {FALSE}) /\ draw[2] \in 0 .. MaxDelay
  BY Zenon DEF Draw
<1>2. (IF run.lossy THEN BOOLEAN ELSE {FALSE}) \subseteq BOOLEAN
  BY Zenon
<1>3. LossDraws \in Nat /\ DelayDraws \in Nat
  BY DEF LossDraws, DelayDraws
<1> QED BY Zenon, <1>1, <1>2, <1>3

\* One round of Collect.
LEMMA CollectOneOutcome ==
  ASSUME NEW faults, Faults(faults), NEW e \in Engine(faults), Running(e),
         NEW m \in Msg, NEW draw \in Draw
  PROVE  CollectOne(e, m, draw) \in Engine(faults) /\ Outcome(e, m, draw, CollectOne(e, m, draw))
<1> DEFINE c == Counted(e, LossDraws)
           d == Drawn(c, DelayDraws)
           r == CollectOne(e, m, draw)
<1>1. draw[1] \in BOOLEAN /\ draw[2] \in 0 .. MaxDelay /\ LossDraws \in Nat /\ DelayDraws \in Nat
  BY Zenon, DrawFacts
<1>2. /\ c \in Engine(faults) /\ c.queue = e.queue /\ c.now = e.now /\ c.seq = e.seq
      /\ c.gone = e.gone /\ c.drawn = e.drawn + LossDraws /\ c.sent = e.sent + 1
  BY Zenon, <1>1, CountedFacts
<1>3. r = IF draw[1] THEN c ELSE Scheduled(c, m, draw[2])
  BY Zenon DEF CollectOne, Counted
<1> HIDE DEF c, r
<1>4. /\ d \in Engine(faults) /\ d.queue = c.queue /\ d.now = c.now /\ d.seq = c.seq
      /\ d.gone = c.gone /\ d.drawn = c.drawn + DelayDraws /\ d.sent = c.sent
  BY ZenonT(60), <1>1, <1>2, DrawnFacts
<1>5. CASE draw[1]
  <2>1. r = c
    BY Zenon, <1>3, <1>5
  <2>2. Running(c) /\ Lost(e, c)
    BY Zenon, <1>2 DEF Running, Lost
  <2>3. c.drawn = e.drawn + LossDraws + (IF draw[1] THEN 0 ELSE DelayDraws)
    <3>1. e.drawn + LossDraws = e.drawn + LossDraws + 0
      BY <1>1, EngineFields
    <3> QED BY Zenon, <1>2, <1>5, <3>1
  <2> QED BY Zenon, <1>2, <1>5, <2>1, <2>2, <2>3 DEF Outcome, r
<1>6. CASE ~draw[1]
  <2> DEFINE fault == blockedBy(c, m.from, m.to)
  <2>1. r = IF fault # 0 THEN Discard(d, fault) ELSE Schedule(d, m, draw[2])
    BY Zenon, <1>3, <1>6 DEF Scheduled, Drawn
  <2>2. (fault = 0 \/ fault \in DOMAIN faults) /\ (faults = <<>> => fault = 0)
    BY Zenon, <1>2, BlockedByFacts
  <2> HIDE DEF d, fault
  <2>3. d.drawn = e.drawn + LossDraws + (IF draw[1] THEN 0 ELSE DelayDraws)
    BY Zenon, <1>2, <1>4, <1>6
  <2>4. e.faults = faults
    BY Zenon, EngineFields
  <2>5. CASE fault # 0
    <3>1. r = Discard(d, fault)
      BY Zenon, <2>1, <2>5
    <3>2. /\ r \in Engine(faults) /\ r.queue = d.queue /\ r.now = d.now /\ r.seq = d.seq
          /\ r.gone = d.gone \cup {d.sent} /\ r.drawn = d.drawn /\ r.sent = d.sent
      <4>1. fault \in DOMAIN faults
        BY Zenon, <2>2, <2>5
      <4>2. Discarded(faults, d, Discard(d, fault))
        BY Zenon, <4>1, <1>4, DiscardFacts
      <4> QED BY Zenon, <3>1, <4>2 DEF Discarded
    <3>3. Running(r) /\ Denied(e, r)
      BY Zenon, <3>2, <1>2, <1>4 DEF Running, Denied
    <3> QED BY Zenon, <1>2, <1>4, <1>6, <2>2, <2>3, <2>4, <2>5, <3>2, <3>3 DEF Outcome, r
  <2>6. CASE fault = 0
    <3> DEFINE ev == EventOf(e, m, draw[2])
               q == push(e.queue, ev)
    <3>1. r = Schedule(d, m, draw[2])
      BY Zenon, <2>1, <2>6
    <3>2. r = Numbered(d, q)
      BY Zenon, <3>1, <1>2, <1>4 DEF Schedule, Numbered, EventOf
    <3>3. ev \in Event /\ ev.seq = e.seq + 1
      BY Zenon, <1>1, EventOfFacts DEF Stamped
    <3> HIDE DEF ev
    <3>4. \A x \in In(e.queue) : x.seq # ev.seq /\ x.seq <= e.seq + 1
      <4> SUFFICES ASSUME NEW x \in In(e.queue) PROVE x.seq # ev.seq /\ x.seq <= e.seq + 1
        BY Zenon
      <4>1. x.seq <= e.seq /\ x \in Event
        BY Zenon, QueueFacts DEF Running, Sound, In
      <4>2. x.seq \in Nat /\ e.seq \in Nat
        BY Zenon, <4>1, EventFields, EngineFields
      <4> QED BY <4>1, <4>2, <3>3
    <3>5. Sound(q) /\ In(q) = In(e.queue) \cup {ev} /\ q \in Seq(Event)
      <4>1. Sound(e.queue)
        BY Zenon DEF Running
      <4>2. Sound(q) /\ In(q) = In(e.queue) \cup {ev}
        BY Zenon, <4>1, <3>3, <3>4, PushSound
      <4> QED BY Zenon, <4>2 DEF Sound, Queue
    <3> HIDE DEF q
    <3>6. /\ r \in Engine(faults) /\ r.queue = q /\ r.now = d.now /\ r.seq = d.seq + 1
          /\ r.gone = d.gone /\ r.drawn = d.drawn /\ r.sent = d.sent
      BY ZenonT(60), <3>2, <3>5, <1>4, NumberedFacts
    <3>7. Running(r)
      <4>1. e.seq + 1 <= e.seq + 1
        BY EngineFields
      <4>2. \A x \in In(q) : x.seq <= e.seq + 1
        BY Zenon, <4>1, <3>3, <3>4, <3>5
      <4> QED BY Zenon, <4>2, <3>5, <3>6, <1>2, <1>4 DEF Running
    <3>8. Sent(e, m, draw[2], r)
      BY Zenon, <3>5, <3>6, <1>2, <1>4 DEF Sent, ev
    <3> QED BY Zenon, <1>2, <1>4, <1>6, <2>3, <3>6, <3>7, <3>8 DEF Outcome, r
  <2> QED BY Zenon, <2>5, <2>6
<1> QED BY Zenon, <1>1, <1>5, <1>6

-----------------------------------------------------------------------------

\* What collecting has made of e: r has the messages of e and newer ones, which are
\* numbered on from those of e and due within MaxDelay.
Grown(e, r) ==
  /\ Running(r) /\ r.now = e.now /\ e.seq <= r.seq
  /\ In(e.queue) \subseteq In(r.queue)
  /\ \A ev \in In(r.queue) \ In(e.queue) :
       e.seq < ev.seq /\ e.now <= ev.at /\ ev.at <= e.now + MaxDelay

LEMMA GrownOne ==
  ASSUME NEW faults, Faults(faults), NEW e \in Engine(faults), NEW x \in Engine(faults), Grown(e, x),
         NEW m \in Msg, NEW draw \in Draw
  PROVE  CollectOne(x, m, draw) \in Engine(faults) /\ Grown(e, CollectOne(x, m, draw))
<1> DEFINE r == CollectOne(x, m, draw)
<1>1. r \in Engine(faults) /\ Outcome(x, m, draw, r)
  <2>1. Running(x)
    BY Zenon DEF Grown
  <2> QED BY Zenon, <2>1, CollectOneOutcome
<1> HIDE DEF r
<1>2. x.now = e.now /\ e.seq <= x.seq /\ In(e.queue) \subseteq In(x.queue) /\ r.now = x.now /\ Running(r)
  BY Zenon, <1>1 DEF Grown, Outcome
<1>3. CASE r.seq = x.seq /\ r.queue = x.queue
  BY Zenon, <1>1, <1>2, <1>3 DEF Grown, r
<1>4. CASE Sent(x, m, draw[2], r)
  <2>1. e.seq \in Nat /\ e.now \in Nat /\ x.seq \in Nat /\ draw[2] \in 0 .. MaxDelay
    BY Zenon, EngineFields, DrawFacts
  <2> DEFINE ev == EventOf(x, m, draw[2])
  <2>2. ev.seq = x.seq + 1 /\ ev.at = x.now + draw[2]
    BY Zenon, <2>1, EventOfFacts DEF Stamped
  <2> HIDE DEF ev
  <2>3. r.seq = x.seq + 1 /\ In(r.queue) = In(x.queue) \cup {ev}
    BY Zenon, <1>4 DEF Sent, ev
  <2>4. e.seq < ev.seq /\ e.now <= ev.at /\ ev.at <= e.now + MaxDelay /\ e.seq <= r.seq
    BY SMTT(60), <1>2, <2>1, <2>2, <2>3, EngineAssumption
  <2>5. \A y \in In(r.queue) \ In(e.queue) : y = ev \/ y \in In(x.queue) \ In(e.queue)
    BY Zenon, <2>3
  <2>6. In(e.queue) \subseteq In(r.queue)
    BY Zenon, <1>2, <2>3
  <2> QED BY Zenon, <1>1, <1>2, <2>4, <2>5, <2>6 DEF Grown, r
<1>5. (r.seq = x.seq /\ r.queue = x.queue) \/ Sent(x, m, draw[2], r)
  BY Zenon, <1>1 DEF Outcome, Lost, Denied
<1> QED BY Zenon, <1>1, <1>3, <1>4, <1>5 DEF r

IsCollect(f, e, ms, draws) ==
  f = [k \in 0 .. Len(ms) |-> IF k = 0 THEN e ELSE CollectOne(f[k - 1], ms[k], draws[k])]

LEMMA CollectIs ==
  ASSUME NEW e, NEW ms, NEW draws
  PROVE  Collect(e, ms, draws) = (CHOOSE f : IsCollect(f, e, ms, draws))[Len(ms)]
BY Zenon DEF Collect, IsCollect

\* Messages to collect and what is drawn for each.
Batch(ms, draws) ==
  /\ Len(ms) \in Nat
  /\ \A k \in 1 .. Len(ms) : ms[k] \in Msg /\ draws[k] \in Draw

\* The loop of Collect: f[k] is the engine after k messages.
Collecting(f, faults, e, ms, draws) ==
  /\ f[0] = e /\ Collect(e, ms, draws) = f[Len(ms)]
  /\ \A k \in 1 .. Len(ms) :
       /\ f[k - 1] \in Engine(faults) /\ Grown(e, f[k - 1])
       /\ f[k] = CollectOne(f[k - 1], ms[k], draws[k])
  /\ f[Len(ms)] \in Engine(faults) /\ Grown(e, f[Len(ms)])

LEMMA CollectRuns ==
  ASSUME NEW faults, Faults(faults), NEW e \in Engine(faults), Running(e),
         NEW ms, NEW draws, Batch(ms, draws)
  PROVE  \E f : Collecting(f, faults, e, ms, draws)
<1> DEFINE n == Len(ms)
           S == [k \in 0 .. n |-> {x \in Engine(faults) : Grown(e, x)}]
           G == [p \in (1 .. n) \X Engine(faults) |-> CollectOne(p[2], ms[p[1]], draws[p[1]])]
<1>1. n \in Nat /\ \A k \in 1 .. n : ms[k] \in Msg /\ draws[k] \in Draw
  BY Zenon DEF Batch
<1> HIDE DEF n
<1>2. /\ 0 \in 0 .. n /\ n \in 0 .. n
      /\ \A k \in 1 .. n : k \in 0 .. n /\ k - 1 \in 0 .. n /\ k # 0
  BY <1>1
<1>3. e \in S[0]
  <2>1. e.seq <= e.seq
    BY EngineFields
  <2>2. Grown(e, e)
    BY Zenon, <2>1 DEF Grown
  <2> QED BY Zenon, <1>2, <2>2
<1>4. ASSUME NEW k \in 1 .. n, NEW x \in S[k - 1]
      PROVE  CollectOne(x, ms[k], draws[k]) \in S[k] /\ x \in Engine(faults) /\ Grown(e, x)
  <2>1. x \in Engine(faults) /\ Grown(e, x)
    BY Zenon, <1>2
  <2> HIDE DEF S
  <2>2. CollectOne(x, ms[k], draws[k]) \in Engine(faults) /\ Grown(e, CollectOne(x, ms[k], draws[k]))
    BY Zenon, <1>1, <2>1, GrownOne
  <2> QED BY Zenon, <1>2, <2>1, <2>2 DEF S
<1>5. \E f : IsCollect(f, e, ms, draws)
  <2>1. \A k \in 1 .. n : \A x \in S[k - 1] : G[<<k, x>>] = CollectOne(x, ms[k], draws[k])
    <3> SUFFICES ASSUME NEW k \in 1 .. n, NEW x \in S[k - 1]
                 PROVE  G[<<k, x>>] = CollectOne(x, ms[k], draws[k])
      BY Zenon
    <3>1. x \in Engine(faults)
      BY Zenon, <1>4
    <3> QED BY <3>1
  <2>2. \A k \in 1 .. n : \A x \in S[k - 1] : G[<<k, x>>] \in S[k]
    BY Zenon, <2>1, <1>4
  <2> HIDE DEF S, G
  <2>3. PICK f : Within(f, n, e, G, S)
    BY Zenon, <1>1, <1>3, <2>2, LoopRunsWithin
  <2>4. ASSUME NEW k \in 0 .. n PROVE f[k] = IF k = 0 THEN e ELSE CollectOne(f[k - 1], ms[k], draws[k])
    <3>1. k = 0 \/ k \in 1 .. n
      BY <1>1
    <3> QED BY Zenon, <3>1, <2>1, <2>3, <1>2 DEF Within
  <2>5. f = [k \in 0 .. n |-> f[k]]
    BY Zenon, <2>3 DEF Within
  <2>6. IsCollect(f, e, ms, draws)
    BY Zenon, <2>4, <2>5 DEF IsCollect, n
  <2> QED BY Zenon, <2>6
<1>6. PICK f : IsCollect(f, e, ms, draws) /\ Collect(e, ms, draws) = f[n]
  BY Zenon, <1>5, CollectIs DEF n
<1>7. \A k \in 0 .. n : f[k] = IF k = 0 THEN e ELSE CollectOne(f[k - 1], ms[k], draws[k])
  BY Zenon, <1>6 DEF IsCollect, n
<1> HIDE DEF G
<1>8. ASSUME NEW k \in 1 .. n PROVE f[k] = CollectOne(f[k - 1], ms[k], draws[k])
  BY Zenon, <1>2, <1>7
<1>9. \A k \in 0 .. n : f[k] \in S[k]
  <2>1. f[0] \in S[0]
    BY Zenon, <1>2, <1>3, <1>7
  <2>2. \A k \in 1 .. n : f[k - 1] \in S[k - 1] => f[k] \in S[k]
    BY Zenon, <1>4, <1>8
  <2> HIDE DEF S
  <2> QED BY Zenon, <1>1, <2>1, <2>2, LoopKeeps
<1>10. \A k \in 0 .. n : f[k] \in Engine(faults) /\ Grown(e, f[k])
  BY Zenon, <1>9
<1>11. f[0] = e
  BY Zenon, <1>2, <1>7
<1> HIDE DEF S
<1>12. Collecting(f, faults, e, ms, draws)
  BY Zenon, <1>2, <1>6, <1>8, <1>10, <1>11 DEF Collecting, n
<1> QED BY Zenon, <1>12

\* Collect keeps an engine in order and only adds to its messages.
LEMMA CollectGrows ==
  ASSUME NEW faults, Faults(faults), NEW e \in Engine(faults), Running(e),
         NEW ms, NEW draws, Batch(ms, draws)
  PROVE  Collect(e, ms, draws) \in Engine(faults) /\ Grown(e, Collect(e, ms, draws))
<1>1. PICK f : Collecting(f, faults, e, ms, draws)
  BY Zenon, CollectRuns
<1> QED BY Zenon, <1>1 DEF Collecting

-----------------------------------------------------------------------------
(***************************************************************************)
(* The engine implements the schedule.                                     *)
(***************************************************************************)

EngineInv ==
  /\ run \in Setup
  /\ eng \in Engine(run.faults) /\ Running(eng)
  /\ bare \in Engine(<<>>) /\ Running(bare)
  /\ busy \in BOOLEAN

LEMMA EventsAreIn ==
  ASSUME NEW faults, NEW e \in Engine(faults)
  PROVE  Events(e) = In(e.queue)
<1>1. DOMAIN e.queue = 1 .. Len(e.queue)
  BY EngineFields
<1> QED BY Zenon, <1>1 DEF Events, In

LEMMA SetupFaults ==
  ASSUME NEW r \in Setup
  PROVE  Faults(r.faults) /\ r.links \subseteq Node \X Node /\ r.answers \in Nat
BY Zenon, EngineAssumption DEF Faults

LEMMA NoFaults == Faults(<<>>)
BY DEF Faults

LEMMA MessageFacts ==
  ASSUME NEW link \in Node \X Node
  PROVE  Message(link) \in Msg
BY DEF Message, Msg

LEMMA SentBatch ==
  ASSUME run \in Setup, NEW N \in Nat, NEW ms \in Outbound(N), NEW draws \in Draws(ms)
  PROVE  Batch(ms, draws)
<1>1. PICK links \in UNION {[1 .. k -> run.links] : k \in 0 .. N} :
        ms = [k \in DOMAIN links |-> Message(links[k])]
  BY Zenon DEF Outbound
<1>2. PICK n \in 0 .. N : links \in [1 .. n -> run.links]
  BY Zenon, <1>1
<1>3. run.links \subseteq Node \X Node
  BY Zenon, SetupFaults
<1>4. DOMAIN links = 1 .. n /\ n \in Nat
  BY <1>2
<1>5. ms = [k \in 1 .. n |-> Message(links[k])]
  BY Zenon, <1>1, <1>4
<1>6. \A k \in 1 .. n : ms[k] \in Msg
  <2> SUFFICES ASSUME NEW k \in 1 .. n PROVE ms[k] \in Msg
    BY Zenon
  <2>1. ms[k] = Message(links[k]) /\ links[k] \in Node \X Node
    BY Zenon, <1>2, <1>3, <1>5
  <2> QED BY ZenonT(60), <1>3, <2>1, MessageFacts
<1>7. Len(ms) = n /\ DOMAIN ms = 1 .. n
  <2>1. ms \in [1 .. n -> Msg]
    BY Zenon, <1>5, <1>6
  <2>2. ms \in Seq(Msg)
    BY <1>4, <2>1
  <2> QED BY <1>4, <2>1, <2>2
<1>8. \A k \in 1 .. n : draws[k] \in Draw
  BY Zenon, <1>7 DEF Draws
<1> QED BY Zenon, <1>4, <1>6, <1>7, <1>8 DEF Batch

LEMMA OneBatch ==
  ASSUME NEW m \in Msg, NEW draws \in Draws(<<m>>)
  PROVE  Batch(<<m>>, draws)
<1>1. Len(<<m>>) = 1 /\ DOMAIN <<m>> = 1 .. 1 /\ <<m>>[1] = m /\ 1 \in Nat /\ \A k \in 1 .. 1 : k = 1
  OBVIOUS
<1>2. \A k \in 1 .. 1 : draws[k] \in Draw
  BY Zenon, <1>1 DEF Draws
<1> QED BY Zenon, <1>1, <1>2 DEF Batch

LEMMA NoBatch ==
  ASSUME NEW draws
  PROVE  Batch(<<>>, draws)
<1>1. Len(<<>>) = 0 /\ 0 \in Nat /\ \A k : ~(k \in 1 .. 0)
  OBVIOUS
<1> QED BY Zenon, <1>1 DEF Batch

\* Messages in flight have numbers of their own.
LEMMA OwnNumbers ==
  ASSUME NEW q, Sound(q), NEW a \in In(q), NEW b \in In(q), a.seq = b.seq
  PROVE  a = b
BY Zenon DEF Sound, Queue, In

LEMMA InEvents ==
  ASSUME NEW q, Sound(q)
  PROVE  In(q) \subseteq Event
BY Zenon, QueueFacts DEF Sound, In

\* Collecting is a step of the schedule that keeps what is in flight.
LEMMA GrownIsCollected ==
  ASSUME EngineInv, NEW e \in Engine(run.faults), e.seq = eng.seq,
         eng' \in Engine(run.faults), Grown(e, eng')
  PROVE  Sched!Collected(In(e.queue))
<1> DEFINE new == In(eng'.queue) \ In(e.queue)
<1>1. Events(eng)' = In(eng'.queue)
  <2>1. Events(eng') = In(eng'.queue)
    BY Zenon, EventsAreIn
  <2>2. Events(eng)' = Events(eng')
    BY Zenon DEF Events
  <2> QED BY Zenon, <2>1, <2>2
<1>2. eng'.seq \in Nat /\ eng.seq <= eng'.seq /\ In(e.queue) \subseteq In(eng'.queue) /\ eng'.now = e.now
  BY Zenon, EngineFields DEF Grown
<1>3. new \subseteq Sched!Event
  BY Zenon, InEvents DEF Grown, Running, Event
<1>4. \A x \in new : /\ eng.seq < x.seq /\ x.seq <= eng'.seq
                     /\ eng'.now <= x.at /\ x.at <= eng'.now + MaxDelay
  BY Zenon, <1>2 DEF Grown, Running
<1>5. \A x, y \in new : x.seq = y.seq => x = y
  BY Zenon, OwnNumbers DEF Grown, Running
<1>6. Sched!Fresh(new)
  BY Zenon, <1>3, <1>4, <1>5 DEF Sched!Fresh
<1> QED BY Zenon, <1>1, <1>2, <1>6 DEF Sched!Collected

\* r is e but for its queue.
Alike(e, r) ==
  r.now = e.now /\ r.seq = e.seq /\ r.drawn = e.drawn /\ r.sent = e.sent /\ r.gone = e.gone

\* Nothing is due unless the root is.
LEMMA NothingDue ==
  ASSUME NEW faults, NEW e \in Engine(faults), Running(e), ~Due(e), NEW ev \in In(e.queue)
  PROVE  ev.at > e.now
<1>1. PICK k \in 1 .. Len(e.queue) : ev = e.queue[k]
  BY Zenon DEF In
<1>2. Sound(e.queue) /\ e.queue \in Seq(Event) /\ e.now \in Nat
  BY Zenon, EngineFields DEF Running
<1>3. 1 \in 1 .. Len(e.queue) /\ e.queue # <<>>
  BY <1>1, <1>2
<1>4. ~(e.queue[1].at <= e.now)
  BY Zenon, <1>3 DEF Due
<1>5. ~earlier(ev, e.queue[1])
  BY Zenon, <1>1, <1>2, RootFirst
<1>6. ev \in Event /\ e.queue[1] \in Event
  BY Zenon, <1>1, <1>2, <1>3, QueueFacts DEF Sound
<1>7. ev.at \in Nat /\ e.queue[1].at \in Nat
  BY Zenon, <1>6, EventFields
<1>8. e.queue[1].at <= ev.at
  BY <1>5, <1>7 DEF earlier
<1> QED BY <1>2, <1>4, <1>7, <1>8

\* Taking the root away.
Popped(e) == WithQueue(e, pop(e.queue))

LEMMA PoppedFacts ==
  ASSUME NEW faults, NEW e \in Engine(faults), Running(e), Due(e)
  PROVE  /\ Popped(e) \in Engine(faults) /\ Running(Popped(e)) /\ Alike(e, Popped(e))
         /\ In(Popped(e).queue) = In(e.queue) \ {e.queue[1]}
         /\ e.queue[1] \in In(e.queue) /\ e.queue[1].at <= e.now
         /\ Len(Popped(e).queue) = Len(e.queue) - 1
<1>1. Sound(e.queue) /\ e.queue # <<>> /\ e.queue[1].at <= e.now
  BY Zenon DEF Running, Due
<1>2. /\ Sound(pop(e.queue)) /\ Len(pop(e.queue)) = Len(e.queue) - 1
      /\ In(pop(e.queue)) = In(e.queue) \ {e.queue[1]} /\ e.queue[1] \in In(e.queue)
  BY Zenon, <1>1, PopSound
<1>3. pop(e.queue) \in Seq(Event)
  BY Zenon, <1>2 DEF Sound, Queue
<1>4. /\ Popped(e) \in Engine(faults) /\ Alike(e, Popped(e)) /\ Popped(e).queue = pop(e.queue)
  BY Zenon, <1>3, WithQueueFacts DEF Popped, Alike
<1>5. Running(Popped(e))
  BY Zenon, <1>2, <1>4 DEF Running, Alike
<1> QED BY Zenon, <1>1, <1>2, <1>4, <1>5

\* What is known after k rounds of the loop of Step that started with e.
Delivering(e, k, x) ==
  /\ Running(x) /\ Alike(e, x)
  /\ In(x.queue) \subseteq In(e.queue)
  /\ \A ev \in In(e.queue) \ In(x.queue) : ev.at <= e.now
  /\ ~Due(x) \/ Len(x.queue) <= Len(e.queue) - k

LEMMA DeliverOneKeeps ==
  ASSUME NEW faults, NEW e \in Engine(faults), NEW x \in Engine(faults),
         NEW k \in 1 .. Len(e.queue), Delivering(e, k - 1, x)
  PROVE  DeliverOne(x) \in Engine(faults) /\ Delivering(e, k, DeliverOne(x))
<1>1. CASE Due(x)
  <2> DEFINE r == Popped(x)
  <2>1. DeliverOne(x) = r
    BY Zenon, <1>1 DEF DeliverOne, Popped, WithQueue
  <2>2. /\ r \in Engine(faults) /\ Running(r) /\ Alike(x, r)
        /\ In(r.queue) = In(x.queue) \ {x.queue[1]}
        /\ x.queue[1] \in In(x.queue) /\ x.queue[1].at <= x.now
        /\ Len(r.queue) = Len(x.queue) - 1
    BY Zenon, <1>1, PoppedFacts DEF Delivering
  <2> HIDE DEF r
  <2>3. Alike(e, r) /\ In(r.queue) \subseteq In(e.queue)
    BY Zenon, <2>2 DEF Delivering, Alike
  <2>4. \A ev \in In(e.queue) \ In(r.queue) : ev.at <= e.now
    BY Zenon, <2>2 DEF Delivering, Alike
  <2>5. Len(r.queue) <= Len(e.queue) - k
    <3>1. Len(x.queue) <= Len(e.queue) - (k - 1)
      BY Zenon, <1>1 DEF Delivering
    <3>2. Len(x.queue) \in Nat /\ Len(e.queue) \in Nat
      BY EngineFields
    <3> QED BY <3>1, <3>2, <2>2
  <2> QED BY Zenon, <2>1, <2>2, <2>3, <2>4, <2>5 DEF Delivering
<1>2. CASE ~Due(x)
  <2>1. DeliverOne(x) = x
    BY Zenon, <1>2 DEF DeliverOne
  <2> QED BY Zenon, <1>2, <2>1 DEF Delivering
<1> QED BY Zenon, <1>1, <1>2

IsDeliverAll(f, e) ==
  f = [k \in 0 .. Len(e.queue) |-> IF k = 0 THEN e ELSE DeliverOne(f[k - 1])]

LEMMA DeliverAllIs ==
  ASSUME NEW e
  PROVE  DeliverAll(e) = (CHOOSE f : IsDeliverAll(f, e))[Len(e.queue)]
BY Zenon DEF DeliverAll, IsDeliverAll

\* The loop of Step delivers exactly what is due.
LEMMA DeliverAllDue ==
  ASSUME NEW faults, NEW e \in Engine(faults), Running(e)
  PROVE  /\ DeliverAll(e) \in Engine(faults) /\ Running(DeliverAll(e)) /\ Alike(e, DeliverAll(e))
         /\ In(DeliverAll(e).queue) = {ev \in In(e.queue) : ev.at > e.now}
<1> DEFINE n == Len(e.queue)
           S == [k \in 0 .. n |-> {x \in Engine(faults) : Delivering(e, k, x)}]
           G == [p \in (1 .. n) \X Engine(faults) |-> DeliverOne(p[2])]
<1>1. n \in Nat
  BY EngineFields
<1> HIDE DEF n
<1>2. /\ 0 \in 0 .. n /\ n \in 0 .. n /\ n <= n - 0
      /\ \A k \in 1 .. n : k \in 0 .. n /\ k - 1 \in 0 .. n /\ k # 0
  BY <1>1
<1>3. e \in S[0]
  <2>1. Delivering(e, 0, e)
    BY Zenon, <1>2 DEF Delivering, Alike, n
  <2> QED BY Zenon, <1>2, <2>1
<1>4. ASSUME NEW k \in 1 .. n, NEW x \in S[k - 1] PROVE DeliverOne(x) \in S[k] /\ x \in Engine(faults)
  <2>1. x \in Engine(faults) /\ Delivering(e, k - 1, x)
    BY Zenon, <1>2
  <2> HIDE DEF S
  <2>2. DeliverOne(x) \in Engine(faults) /\ Delivering(e, k, DeliverOne(x))
    BY Zenon, <2>1, DeliverOneKeeps DEF n
  <2> QED BY Zenon, <1>2, <2>1, <2>2 DEF S
<1>5. \E f : IsDeliverAll(f, e)
  <2>1. \A k \in 1 .. n : \A x \in S[k - 1] : G[<<k, x>>] = DeliverOne(x)
    <3> SUFFICES ASSUME NEW k \in 1 .. n, NEW x \in S[k - 1] PROVE G[<<k, x>>] = DeliverOne(x)
      BY Zenon
    <3>1. x \in Engine(faults)
      BY Zenon, <1>4
    <3> QED BY <3>1
  <2>2. \A k \in 1 .. n : \A x \in S[k - 1] : G[<<k, x>>] \in S[k]
    BY Zenon, <2>1, <1>4
  <2> HIDE DEF S, G
  <2>3. PICK f : Within(f, n, e, G, S)
    BY Zenon, <1>1, <1>3, <2>2, LoopRunsWithin
  <2>4. ASSUME NEW k \in 0 .. n PROVE f[k] = IF k = 0 THEN e ELSE DeliverOne(f[k - 1])
    <3>1. k = 0 \/ k \in 1 .. n
      BY <1>1
    <3> QED BY Zenon, <3>1, <2>1, <2>3, <1>2 DEF Within
  <2>5. f = [k \in 0 .. n |-> f[k]]
    BY Zenon, <2>3 DEF Within
  <2>6. IsDeliverAll(f, e)
    BY Zenon, <2>4, <2>5 DEF IsDeliverAll, n
  <2> QED BY Zenon, <2>6
<1>6. PICK f : IsDeliverAll(f, e) /\ DeliverAll(e) = f[n]
  BY Zenon, <1>5, DeliverAllIs DEF n
<1>7. \A k \in 0 .. n : f[k] = IF k = 0 THEN e ELSE DeliverOne(f[k - 1])
  BY Zenon, <1>6 DEF IsDeliverAll, n
<1> HIDE DEF G
<1>8. f[n] \in S[n]
  <2>1. f[0] \in S[0]
    BY Zenon, <1>2, <1>3, <1>7
  <2>2. \A k \in 1 .. n : f[k - 1] \in S[k - 1] => f[k] \in S[k]
    BY Zenon, <1>2, <1>4, <1>7
  <2> HIDE DEF S
  <2>3. \A k \in 0 .. n : f[k] \in S[k]
    BY Zenon, <1>1, <2>1, <2>2, LoopKeeps
  <2> QED BY Zenon, <2>3, <1>2
<1> DEFINE r == DeliverAll(e)
<1>9. r \in Engine(faults) /\ Delivering(e, n, r)
  BY Zenon, <1>2, <1>6, <1>8
<1> HIDE DEF S, r
<1>10. ~Due(r)
  <2>1. CASE Len(r.queue) <= n - n
    <3>1. r.queue \in Seq(Event)
      BY Zenon, <1>9, EngineFields
    <3>2. r.queue = <<>>
      BY <3>1, <2>1, <1>1
    <3> QED BY Zenon, <3>2 DEF Due
  <2> QED BY Zenon, <2>1, <1>9 DEF Delivering, n
<1>11. Running(r) /\ Alike(e, r) /\ In(r.queue) \subseteq In(e.queue)
       /\ \A ev \in In(e.queue) \ In(r.queue) : ev.at <= e.now
  BY Zenon, <1>9 DEF Delivering
<1>12. \A ev \in In(r.queue) : ev.at > e.now
  <2>1. \A ev \in In(r.queue) : ev.at > r.now
    BY Zenon, <1>9, <1>10, <1>11, NothingDue
  <2> QED BY Zenon, <2>1, <1>11 DEF Alike
<1>13. \A ev \in In(e.queue) : ev.at <= e.now => ~(ev.at > e.now)
  <2> SUFFICES ASSUME NEW ev \in In(e.queue) PROVE ev.at <= e.now => ~(ev.at > e.now)
    BY Zenon
  <2>1. ev.at \in Nat /\ e.now \in Nat
    BY Zenon, InEvents, EventFields, EngineFields DEF Running
  <2> QED BY <2>1
<1>14. In(r.queue) = {ev \in In(e.queue) : ev.at > e.now}
  BY Zenon, <1>11, <1>12, <1>13
<1> QED BY Zenon, <1>9, <1>11, <1>14 DEF r

LEMMA TickFacts ==
  ASSUME NEW faults, NEW e \in Engine(faults), Running(e)
  PROVE  /\ Tick(e) \in Engine(faults) /\ Running(Tick(e)) /\ Tick(e).queue = e.queue
         /\ Tick(e).now = e.now + 1 /\ Tick(e).seq = e.seq /\ Tick(e).drawn = e.drawn
         /\ Tick(e).sent = e.sent /\ Tick(e).gone = e.gone
<1>1. e.now + 1 \in Nat
  BY EngineFields
<1>2. /\ Tick(e) \in Engine(faults) /\ Tick(e).queue = e.queue
      /\ Tick(e).now = e.now + 1 /\ Tick(e).seq = e.seq /\ Tick(e).drawn = e.drawn
      /\ Tick(e).sent = e.sent /\ Tick(e).gone = e.gone
  BY Zenon, <1>1 DEF Tick, Engine
<1> QED BY Zenon, <1>2 DEF Running

LEMMA IsolateFacts ==
  ASSUME NEW faults, NEW e \in Engine(faults), Running(e), NEW node
  PROVE  /\ isolate(e, node) \in Engine(faults) /\ Running(isolate(e, node))
         /\ Alike(e, isolate(e, node)) /\ In(isolate(e, node).queue) = Spared(e.queue, node)
<1> DEFINE kept == Kept(e.queue, node)
           q == heapify(kept, Len(kept) \div 2)
<1>1. Queue(kept) /\ In(kept) = Spared(e.queue, node)
  BY Zenon, KeptSpares DEF Running, Sound
<1>2. Sound(q) /\ In(q) = In(kept)
  BY Zenon, <1>1, HeapifySound
<1>3. isolate(e, node) = WithQueue(e, q)
  BY Zenon DEF isolate, WithQueue
<1> HIDE DEF kept, q
<1>4. q \in Seq(Event)
  BY Zenon, <1>2 DEF Sound, Queue
<1>5. isolate(e, node) \in Engine(faults) /\ Alike(e, isolate(e, node)) /\ isolate(e, node).queue = q
  <2>1. /\ WithQueue(e, q) \in Engine(faults) /\ Alike(e, WithQueue(e, q))
        /\ WithQueue(e, q).queue = q
    BY Zenon, <1>4, WithQueueFacts DEF Alike
  <2> QED BY Zenon, <1>3, <2>1
<1>6. Running(isolate(e, node))
  BY Zenon, <1>1, <1>2, <1>5 DEF Running, Alike, Spared
<1> QED BY Zenon, <1>1, <1>2, <1>5, <1>6

\* The parts of the invariant, of the engine and of the engine without faults.
LEMMA InvParts ==
  ASSUME EngineInv
  PROVE  /\ run \in Setup /\ Faults(run.faults) /\ Faults(<<>>)
         /\ eng \in Engine(run.faults) /\ Running(eng)
         /\ bare \in Engine(<<>>) /\ Running(bare) /\ Events(eng) = In(eng.queue)
BY Zenon, SetupFaults, NoFaults, EventsAreIn DEF EngineInv

LEMMA StartStepSound ==
  ASSUME EngineInv, StartStep
  PROVE  EngineInv' /\ Sched!StartStep
<1>1. /\ run \in Setup /\ Faults(run.faults) /\ Faults(<<>>)
      /\ eng \in Engine(run.faults) /\ Running(eng)
      /\ bare \in Engine(<<>>) /\ Running(bare) /\ Events(eng) = In(eng.queue)
  BY Zenon, InvParts
<1>2. ~busy /\ busy' = TRUE /\ last' = last /\ run' = run
  BY Zenon DEF StartStep
<1>3. PICK ms \in Outbound(MaxSends) : \E draws \in Draws(ms) :
        /\ eng' = Collect(Tick(eng), ms, draws)
        /\ bare' = Collect(Tick(bare), ms, draws)
  BY Zenon DEF StartStep
<1>4. PICK draws \in Draws(ms) : /\ eng' = Collect(Tick(eng), ms, draws)
                                 /\ bare' = Collect(Tick(bare), ms, draws)
  BY Zenon, <1>3
<1>5. Batch(ms, draws)
  BY Zenon, <1>1, EngineAssumption, SentBatch
<1>6. /\ Tick(eng) \in Engine(run.faults) /\ Running(Tick(eng)) /\ Tick(eng).queue = eng.queue
      /\ Tick(eng).now = eng.now + 1 /\ Tick(eng).seq = eng.seq
  BY Zenon, <1>1, TickFacts
<1>7. Tick(bare) \in Engine(<<>>) /\ Running(Tick(bare))
  BY Zenon, <1>1, TickFacts
<1>8. eng' \in Engine(run.faults) /\ Grown(Tick(eng), eng')
  <2>1. Collect(Tick(eng), ms, draws) \in Engine(run.faults) /\ Grown(Tick(eng), Collect(Tick(eng), ms, draws))
    BY Zenon, <1>1, <1>5, <1>6, CollectGrows
  <2> QED BY Zenon, <2>1, <1>4
<1>9. bare' \in Engine(<<>>) /\ Running(bare')
  <2>1. Collect(Tick(bare), ms, draws) \in Engine(<<>>) /\ Grown(Tick(bare), Collect(Tick(bare), ms, draws))
    BY Zenon, <1>1, <1>5, <1>7, CollectGrows
  <2> QED BY Zenon, <2>1, <1>4 DEF Grown
<1>10. EngineInv'
  BY Zenon, <1>1, <1>2, <1>8, <1>9 DEF EngineInv, Grown
<1>11. Sched!Collected(In(eng.queue))
  <2>1. Sched!Collected(In(Tick(eng).queue))
    BY Zenon, <1>6, <1>8, GrownIsCollected
  <2> QED BY Zenon, <2>1, <1>6
<1>12. eng'.now = eng.now + 1
  BY Zenon, <1>6, <1>8 DEF Grown
<1>13. Sched!StartStep
  BY Zenon, <1>1, <1>2, <1>11, <1>12 DEF Sched!StartStep
<1> QED BY Zenon, <1>10, <1>13

LEMMA CollectCallSound ==
  ASSUME EngineInv, CollectCall
  PROVE  EngineInv' /\ Sched!Collect
<1>1. /\ run \in Setup /\ Faults(run.faults) /\ Faults(<<>>)
      /\ eng \in Engine(run.faults) /\ Running(eng)
      /\ bare \in Engine(<<>>) /\ Running(bare) /\ Events(eng) = In(eng.queue)
  BY Zenon, InvParts
<1>2. ~busy /\ busy' = busy /\ last' = last /\ run' = run
  BY Zenon DEF CollectCall
<1>3. PICK link \in run.links : \E draws \in Draws(<<Message(link)>>) :
        /\ eng' = Collect(eng, <<Message(link)>>, draws)
        /\ bare' = Collect(bare, <<Message(link)>>, draws)
  BY Zenon DEF CollectCall
<1> DEFINE m == Message(link)
           ms == <<m>>
<1>4. PICK draws \in Draws(ms) : eng' = Collect(eng, ms, draws) /\ bare' = Collect(bare, ms, draws)
  BY Zenon, <1>3
<1>5. m \in Msg
  <2>1. link \in Node \X Node
    BY Zenon, <1>1, SetupFaults
  <2> QED BY Zenon, <2>1, MessageFacts
<1>6. Batch(ms, draws)
  BY Zenon, <1>5, OneBatch
<1> HIDE DEF ms
<1>7. eng' \in Engine(run.faults) /\ Grown(eng, eng')
  <2>1. Collect(eng, ms, draws) \in Engine(run.faults) /\ Grown(eng, Collect(eng, ms, draws))
    BY Zenon, <1>1, <1>6, CollectGrows
  <2> QED BY Zenon, <2>1, <1>4
<1>8. bare' \in Engine(<<>>) /\ Running(bare')
  <2>1. Collect(bare, ms, draws) \in Engine(<<>>) /\ Grown(bare, Collect(bare, ms, draws))
    BY Zenon, <1>1, <1>6, CollectGrows
  <2> QED BY Zenon, <2>1, <1>4 DEF Grown
<1>9. EngineInv'
  BY Zenon, <1>1, <1>2, <1>7, <1>8 DEF EngineInv, Grown
<1>10. Sched!Collected(In(eng.queue))
  BY Zenon, <1>1, <1>7, GrownIsCollected
<1>11. eng'.now = eng.now
  BY Zenon, <1>7 DEF Grown
<1>12. Sched!Collect
  BY Zenon, <1>1, <1>2, <1>10, <1>11 DEF Sched!Collect
<1> QED BY Zenon, <1>9, <1>12

\* The root is what a scan for the earliest message finds.
LEMMA RootIsEarliest ==
  ASSUME NEW q, Sound(q), q # <<>>
  PROVE  Sched!Earliest(q[1], In(q))
<1>1. q \in Seq(Event) /\ Queue(q)
  BY Zenon DEF Sound, Queue
<1>2. 1 \in 1 .. Len(q)
  BY <1>1
<1>3. ASSUME NEW f \in In(q), f # q[1] PROVE Sched!earlier(q[1], f)
  <2>1. PICK k \in 1 .. Len(q) : f = q[k]
    BY Zenon DEF In
  <2>2. ~earlier(f, q[1])
    BY Zenon, <2>1, RootFirst
  <2>3. f \in Event /\ q[1] \in Event /\ q[1] \in In(q)
    BY Zenon, <1>1, <1>2, <2>1, QueueFacts DEF In
  <2>4. f.seq # q[1].seq
    BY Zenon, <1>3, <2>3, OwnNumbers
  <2>5. earlier(q[1], f)
    BY Zenon, <2>2, <2>3, <2>4, Total
  <2> QED BY Zenon, <2>5 DEF earlier, Sched!earlier
<1> QED BY Zenon, <1>3 DEF Sched!Earliest

LEMMA DeliverDueSound ==
  ASSUME EngineInv, DeliverDue
  PROVE  EngineInv' /\ Sched!Deliver
<1> DEFINE ev == eng.queue[1]
           e == Popped(eng)
<1>1. /\ run \in Setup /\ Faults(run.faults) /\ Faults(<<>>)
      /\ eng \in Engine(run.faults) /\ Running(eng)
      /\ bare \in Engine(<<>>) /\ Running(bare) /\ Events(eng) = In(eng.queue)
  BY Zenon, InvParts
<1>2. /\ busy /\ Due(eng) /\ last' = [at |-> ev.at, seq |-> ev.seq]
      /\ bare' = bare /\ busy' = busy /\ run' = run
  BY Zenon DEF DeliverDue
<1>3. PICK ms \in Outbound(run.answers) : \E draws \in Draws(ms) : eng' = Collect(e, ms, draws)
  BY Zenon DEF DeliverDue, Popped, WithQueue
<1>4. PICK draws \in Draws(ms) : eng' = Collect(e, ms, draws)
  BY Zenon, <1>3
<1>5. /\ e \in Engine(run.faults) /\ Running(e) /\ Alike(eng, e)
      /\ In(e.queue) = In(eng.queue) \ {ev} /\ ev \in In(eng.queue) /\ ev.at <= eng.now
  BY Zenon, <1>1, <1>2, PoppedFacts
<1> HIDE DEF ev, e
<1>7. Batch(ms, draws)
  BY Zenon, <1>1, SetupFaults, SentBatch
<1>8. eng' \in Engine(run.faults) /\ Grown(e, eng')
  <2>1. Collect(e, ms, draws) \in Engine(run.faults) /\ Grown(e, Collect(e, ms, draws))
    BY Zenon, <1>1, <1>5, <1>7, CollectGrows
  <2> QED BY Zenon, <2>1, <1>4
<1>9. EngineInv'
  BY Zenon, <1>1, <1>2, <1>8 DEF EngineInv, Grown
<1>10. Sched!Collected(In(eng.queue) \ {ev})
  <2>1. Sched!Collected(In(e.queue))
    BY Zenon, <1>5, <1>8, GrownIsCollected DEF Alike
  <2> QED BY Zenon, <2>1, <1>5
<1>11. Sched!Earliest(ev, In(eng.queue))
  BY Zenon, <1>1, <1>2, RootIsEarliest DEF Running, Due, ev
<1>12. eng'.now = eng.now
  BY Zenon, <1>5, <1>8 DEF Grown, Alike
<1>13. Sched!Deliver
  BY Zenon, <1>1, <1>2, <1>5, <1>10, <1>11, <1>12 DEF Sched!Deliver
<1> QED BY Zenon, <1>9, <1>13

LEMMA EndStepSound ==
  ASSUME EngineInv, EndStep
  PROVE  EngineInv' /\ Sched!EndStep
<1>1. /\ run \in Setup /\ eng \in Engine(run.faults) /\ Running(eng)
      /\ bare \in Engine(<<>>) /\ Running(bare) /\ Events(eng) = In(eng.queue)
  BY Zenon, InvParts
<1>2. /\ busy /\ ~Due(eng) /\ busy' = FALSE /\ bare' = DeliverAll(bare)
      /\ eng' = eng /\ last' = last /\ run' = run
  BY Zenon DEF EndStep
<1>3. bare' \in Engine(<<>>) /\ Running(bare')
  <2>1. DeliverAll(bare) \in Engine(<<>>) /\ Running(DeliverAll(bare))
    BY Zenon, <1>1, DeliverAllDue
  <2> QED BY Zenon, <2>1, <1>2
<1>4. EngineInv'
  BY Zenon, <1>1, <1>2, <1>3 DEF EngineInv
<1>5. \A ev \in Events(eng) : ev.at > eng.now
  BY Zenon, <1>1, <1>2, NothingDue
<1>6. Events(eng)' = Events(eng)
  BY Zenon, <1>2 DEF Events
<1>7. Sched!EndStep
  BY Zenon, <1>2, <1>5, <1>6 DEF Sched!EndStep
<1> QED BY Zenon, <1>4, <1>7

LEMMA IsolateCallSound ==
  ASSUME EngineInv, NEW node \in Node, IsolateCall(node)
  PROVE  EngineInv' /\ Sched!Isolate(node)
<1>1. /\ run \in Setup /\ eng \in Engine(run.faults) /\ Running(eng)
      /\ bare \in Engine(<<>>) /\ Running(bare) /\ Events(eng) = In(eng.queue)
  BY Zenon, InvParts
<1>2. /\ ~busy /\ busy' = busy /\ last' = last /\ run' = run
      /\ eng' = isolate(eng, node) /\ bare' = isolate(bare, node)
  BY Zenon DEF IsolateCall
<1>3. /\ eng' \in Engine(run.faults) /\ Running(eng') /\ Alike(eng, eng')
      /\ In(eng'.queue) = Spared(eng.queue, node)
  <2>1. /\ isolate(eng, node) \in Engine(run.faults) /\ Running(isolate(eng, node))
        /\ Alike(eng, isolate(eng, node)) /\ In(isolate(eng, node).queue) = Spared(eng.queue, node)
    BY Zenon, <1>1, IsolateFacts
  <2> QED BY Zenon, <2>1, <1>2
<1>4. bare' \in Engine(<<>>) /\ Running(bare')
  <2>1. isolate(bare, node) \in Engine(<<>>) /\ Running(isolate(bare, node))
    BY Zenon, <1>1, IsolateFacts
  <2> QED BY Zenon, <2>1, <1>2
<1>5. EngineInv'
  BY Zenon, <1>1, <1>2, <1>3, <1>4 DEF EngineInv
<1>6. Events(eng)' = In(eng'.queue)
  <2>1. Events(eng') = In(eng'.queue)
    BY Zenon, <1>3, EventsAreIn
  <2> QED BY Zenon, <2>1 DEF Events
<1>7. Events(eng)' = {x \in Events(eng) : x.from # node /\ x.to # node}
  BY Zenon, <1>1, <1>3, <1>6 DEF Spared, Touches
<1>8. Sched!Isolate(node)
  BY Zenon, <1>2, <1>3, <1>7 DEF Sched!Isolate, Alike
<1> QED BY Zenon, <1>5, <1>8

LEMMA NewEngineFacts ==
  ASSUME NEW faults, Faults(faults)
  PROVE  /\ NewEngine(faults) \in Engine(faults) /\ Running(NewEngine(faults))
         /\ NewEngine(faults).now = 0 /\ NewEngine(faults).seq = 0 /\ NewEngine(faults).drawn = 0
         /\ NewEngine(faults).sent = 0 /\ NewEngine(faults).gone = {}
         /\ In(NewEngine(faults).queue) = {}
<1>1. <<>> \in Seq(Event) /\ Len(<<>>) = 0 /\ \A k : ~(k \in 1 .. 0) /\ ~(k \in 2 .. 0)
  OBVIOUS
<1>2. Sound(<<>>) /\ In(<<>>) = {}
  BY Zenon, <1>1 DEF Sound, Queue, Heap, In
<1>3. /\ NewEngine(faults) \in Engine(faults) /\ NewEngine(faults).queue = <<>>
      /\ NewEngine(faults).now = 0 /\ NewEngine(faults).seq = 0 /\ NewEngine(faults).drawn = 0
      /\ NewEngine(faults).sent = 0 /\ NewEngine(faults).gone = {}
  BY <1>1 DEF NewEngine, Engine
<1> QED BY Zenon, <1>2, <1>3 DEF Running

LEMMA InitSound ==
  ASSUME Init
  PROVE  EngineInv /\ Sched!Init
<1>1. run \in Setup /\ eng = NewEngine(run.faults) /\ bare = NewEngine(<<>>) /\ busy = FALSE
      /\ last = [at |-> 0, seq |-> 0]
  BY Zenon DEF Init
<1>2. Faults(run.faults) /\ Faults(<<>>)
  BY Zenon, <1>1, SetupFaults, NoFaults
<1>3. /\ eng \in Engine(run.faults) /\ Running(eng) /\ eng.now = 0 /\ eng.seq = 0
      /\ In(eng.queue) = {}
  <2>1. /\ NewEngine(run.faults) \in Engine(run.faults) /\ Running(NewEngine(run.faults))
        /\ NewEngine(run.faults).now = 0 /\ NewEngine(run.faults).seq = 0
        /\ In(NewEngine(run.faults).queue) = {}
    BY Zenon, <1>2, NewEngineFacts
  <2> QED BY Zenon, <1>1, <2>1
<1>4. bare \in Engine(<<>>) /\ Running(bare)
  <2>1. NewEngine(<<>>) \in Engine(<<>>) /\ Running(NewEngine(<<>>))
    BY Zenon, <1>2, NewEngineFacts
  <2> QED BY Zenon, <1>1, <2>1
<1>5. EngineInv
  BY Zenon, <1>1, <1>3, <1>4 DEF EngineInv
<1>6. Events(eng) = {}
  BY Zenon, <1>3, EventsAreIn
<1> QED BY Zenon, <1>1, <1>3, <1>5, <1>6 DEF Sched!Init

LEMMA StepSound ==
  ASSUME EngineInv, [Next]_vars
  PROVE  EngineInv' /\ [Sched!Next]_Sched!schedule
<1>1. CASE StartStep
  BY Zenon, <1>1, StartStepSound DEF Sched!Next
<1>2. CASE DeliverDue
  BY Zenon, <1>2, DeliverDueSound DEF Sched!Next
<1>3. CASE EndStep
  BY Zenon, <1>3, EndStepSound DEF Sched!Next
<1>4. CASE CollectCall
  BY Zenon, <1>4, CollectCallSound DEF Sched!Next
<1>5. ASSUME NEW node \in Node, IsolateCall(node) PROVE EngineInv' /\ [Sched!Next]_Sched!schedule
  BY Zenon, <1>5, IsolateCallSound DEF Sched!Next
<1>6. CASE UNCHANGED vars
  BY Zenon, <1>6 DEF vars, EngineInv, Sched!schedule, Events
<1> QED BY Zenon, <1>1, <1>2, <1>3, <1>4, <1>5, <1>6 DEF Next

\* The engine's heap delivers exactly what a linear scan for the earliest due message
\* would, whatever is pushed, popped and isolated in between.
THEOREM EngineImplementsSchedule == Spec => ImplementsSchedule
<1>1. Init => EngineInv /\ Sched!Init
  BY InitSound
<1>2. EngineInv /\ [Next]_vars => EngineInv' /\ [Sched!Next]_Sched!schedule
  BY StepSound
<1> QED BY <1>1, <1>2, PTL DEF Spec, ImplementsSchedule

\* What Collected adds comes after everything delivered, with numbers of its own:
\* the schedule's invariant survives a Collect that keeps a part of what is in flight.
LEMMA SchedCollectKeeps ==
  ASSUME Sched!TypeOK, Sched!Numbered, NEW kept, kept \subseteq Events(eng), Sched!Collected(kept),
         eng.now' \in Nat, last' \in [at : Nat, seq : Nat], last'.at <= eng.now', last'.seq <= eng.seq,
         \A e \in kept : Sched!earlier(last', e)
  PROVE  /\ eng.seq' \in Nat /\ Events(eng)' \subseteq Sched!Event
         /\ Sched!Numbered' /\ Sched!InOrder'
<1>1. \A e \in Events(eng)' : e \in kept \/ e \in Events(eng)' \ kept
  OBVIOUS
<1>2. eng.seq' \in Nat /\ eng.seq <= eng.seq' /\ Events(eng)' \subseteq Sched!Event
  BY <1>1 DEF Sched!Collected, Sched!Fresh, Sched!TypeOK
<1>3. \A e \in Events(eng)' : e.seq <= eng.seq'
  BY <1>1, <1>2 DEF Sched!Collected, Sched!Fresh, Sched!TypeOK, Sched!Numbered, Sched!Event
<1>4. \A e, f \in Events(eng)' : e.seq = f.seq => e = f
  BY <1>1, <1>2 DEF Sched!Collected, Sched!Fresh, Sched!TypeOK, Sched!Numbered, Sched!Event
<1>5. last'.seq <= eng.seq' /\ last'.at <= eng.now'
  BY <1>2 DEF Sched!TypeOK
<1>6. Sched!Numbered'
  BY <1>3, <1>4, <1>5 DEF Sched!Numbered
<1>7. ASSUME NEW e \in Events(eng)' PROVE Sched!earlier(last', e)
  <2>1. CASE e \in kept
    BY <2>1
  <2>2. CASE e \in Events(eng)' \ kept
    BY <2>2, <1>2 DEF Sched!Collected, Sched!Fresh, Sched!TypeOK, Sched!Event, Sched!earlier
  <2>3. QED BY <2>1, <2>2, <1>1
<1>8. Sched!InOrder'
  BY <1>7 DEF Sched!InOrder, Sched!earlier
<1>9. QED BY <1>2, <1>6, <1>8

\* Every step of the schedule keeps its invariant.
LEMMA SchedStepKeeps ==
  ASSUME Sched!ScheduleInv, [Sched!Next]_Sched!schedule
  PROVE  Sched!ScheduleInv'
<1> USE DEF Sched!ScheduleInv
<1>1. CASE Sched!StartStep
  <2>1. eng.now' = eng.now + 1 /\ last' = last /\ busy' = TRUE /\ Sched!Collected(Events(eng))
    BY <1>1 DEF Sched!StartStep
  <2>2. eng.now' \in Nat /\ last' \in [at : Nat, seq : Nat] /\ last'.at <= eng.now' /\ last'.seq <= eng.seq
    BY <2>1 DEF Sched!TypeOK, Sched!Numbered
  <2>3. \A e \in Events(eng) : Sched!earlier(last', e)
    BY <2>1 DEF Sched!InOrder, Sched!earlier
  <2>4. eng.seq' \in Nat /\ Events(eng)' \subseteq Sched!Event /\ Sched!Numbered' /\ Sched!InOrder'
    BY <2>1, <2>2, <2>3, SchedCollectKeeps
  <2>5. Sched!TypeOK' /\ Sched!Punctual'
    BY <2>1, <2>2, <2>4, <1>1 DEF Sched!TypeOK, Sched!Punctual, Sched!StartStep
  <2>6. QED BY <2>4, <2>5
<1>2. CASE Sched!Deliver
  <2>1. PICK e \in Events(eng) :
          /\ e.at <= eng.now
          /\ \A f \in Events(eng) : f = e \/ Sched!earlier(e, f)
          /\ last' = [at |-> e.at, seq |-> e.seq]
          /\ Sched!Collected(Events(eng) \ {e})
    BY Zenon, <1>2 DEF Sched!Deliver, Sched!Earliest
  <2>2. eng.now' = eng.now /\ busy' = busy /\ busy
    BY <1>2 DEF Sched!Deliver, Sched!Earliest
  <2>3. eng.now' \in Nat /\ last' \in [at : Nat, seq : Nat] /\ last'.at <= eng.now' /\ last'.seq <= eng.seq
    BY <2>1, <2>2 DEF Sched!TypeOK, Sched!Numbered, Sched!Event
  <2>4. \A f \in Events(eng) \ {e} : Sched!earlier(last', f)
    BY <2>1 DEF Sched!earlier
  <2>5. eng.seq' \in Nat /\ Events(eng)' \subseteq Sched!Event /\ Sched!Numbered' /\ Sched!InOrder'
    BY <2>1, <2>3, <2>4, SchedCollectKeeps
  <2>6. Sched!TypeOK' /\ Sched!Punctual'
    BY <2>2, <2>3, <2>5 DEF Sched!TypeOK, Sched!Punctual
  <2>7. QED BY <2>5, <2>6
<1>3. CASE Sched!EndStep
  <2>1. UNCHANGED <<eng.now, eng.seq, Events(eng), last>> /\ busy' = FALSE /\ \A e \in Events(eng) : e.at > eng.now
    BY <1>3 DEF Sched!EndStep
  <2>2. Sched!TypeOK'
    BY Zenon, <2>1, <1>3 DEF Sched!TypeOK, Sched!EndStep
  <2>3. Sched!Numbered' /\ Sched!InOrder'
    BY <2>1 DEF Sched!Numbered, Sched!InOrder, Sched!earlier
  <2>4. Sched!Punctual'
    BY <2>1 DEF Sched!Punctual, Sched!TypeOK, Sched!Event
  <2>5. QED BY <2>2, <2>3, <2>4
<1>4. CASE Sched!Collect
  <2>1. UNCHANGED <<eng.now, last, busy>> /\ ~busy /\ Sched!Collected(Events(eng))
    BY <1>4 DEF Sched!Collect
  <2>2. eng.now' \in Nat /\ last' \in [at : Nat, seq : Nat] /\ last'.at <= eng.now' /\ last'.seq <= eng.seq
    BY <2>1 DEF Sched!TypeOK, Sched!Numbered
  <2>3. \A e \in Events(eng) : Sched!earlier(last', e)
    BY <2>1 DEF Sched!InOrder, Sched!earlier
  <2>4. eng.seq' \in Nat /\ Events(eng)' \subseteq Sched!Event /\ Sched!Numbered' /\ Sched!InOrder'
    BY <2>1, <2>2, <2>3, SchedCollectKeeps
  <2>5. \A e \in Events(eng)' : e.at >= eng.now'
    BY <2>1, <2>4 DEF Sched!Collected, Sched!Fresh, Sched!Punctual, Sched!TypeOK, Sched!Event
  <2>6. Sched!TypeOK' /\ Sched!Punctual'
    BY <2>1, <2>2, <2>4, <2>5 DEF Sched!TypeOK, Sched!Punctual
  <2>7. QED BY <2>4, <2>6
<1>5. ASSUME NEW node \in Node, Sched!Isolate(node) PROVE Sched!ScheduleInv'
  <2>1. UNCHANGED <<eng.now, eng.seq, last, busy>> /\ Events(eng)' \subseteq Events(eng)
    BY <1>5 DEF Sched!Isolate
  <2>2. Sched!TypeOK'
    BY <2>1 DEF Sched!TypeOK
  <2>3. Sched!Numbered'
    BY <2>1 DEF Sched!Numbered
  <2>4. Sched!InOrder'
    BY <2>1 DEF Sched!InOrder, Sched!earlier
  <2>5. Sched!Punctual'
    BY <2>1 DEF Sched!Punctual
  <2>6. QED BY <2>2, <2>3, <2>4, <2>5
<1>6. CASE UNCHANGED Sched!schedule
  BY <1>6 DEF Sched!schedule, Sched!TypeOK, Sched!Numbered, Sched!InOrder, Sched!Punctual, Sched!earlier
<1>7. QED BY <1>1, <1>2, <1>3, <1>4, <1>5, <1>6 DEF Sched!Next

LEMMA SchedInitKeeps ==
  ASSUME Sched!Init
  PROVE  Sched!ScheduleInv
<1>1. Sched!TypeOK
  <2>1. eng.now = 0 /\ eng.seq = 0 /\ Events(eng) = {} /\ last = [at |-> 0, seq |-> 0]
    BY Zenon DEF Sched!Init
  <2>2. busy \in BOOLEAN
    BY Zenon DEF Sched!Init
  <2>3. last \in [at : Nat, seq : Nat] /\ eng.now \in Nat /\ eng.seq \in Nat
    BY <2>1
  <2> QED BY Zenon, <2>1, <2>2, <2>3 DEF Sched!TypeOK
<1>2. Sched!Numbered
  BY DEF Sched!Init, Sched!Numbered
<1>3. Sched!InOrder /\ Sched!Punctual
  BY Zenon DEF Sched!Init, Sched!InOrder, Sched!Punctual
<1> QED BY Zenon, <1>1, <1>2, <1>3 DEF Sched!ScheduleInv

\* Messages are delivered in the order of the schedule over the whole run, and none is
\* overdue between steps (Engine.Step).
Orderly == Sched!InOrder /\ Sched!Punctual

\* Over a whole run the engine delivers in the order of its schedule, and leaves nothing
\* overdue (Engine.Step, earlier).
THEOREM EngineOrderly == Spec => []Orderly
<1>1. Init => EngineInv /\ Sched!Init
  BY InitSound
<1>2. EngineInv /\ [Next]_vars => EngineInv' /\ [Sched!Next]_Sched!schedule
  BY StepSound
<1>3. Sched!Init => Sched!ScheduleInv
  BY SchedInitKeeps
<1>4. Sched!ScheduleInv /\ [Sched!Next]_Sched!schedule => Sched!ScheduleInv'
  BY SchedStepKeeps
<1>5. Sched!ScheduleInv => Orderly
  BY DEF Orderly, Sched!ScheduleInv
<1> QED BY <1>1, <1>2, <1>3, <1>4, <1>5, PTL DEF Spec

-----------------------------------------------------------------------------
(***************************************************************************)
(* Faults do not shift the schedule.                                       *)
(***************************************************************************)

\* The same message, with the same delay.
Match(x, y) == x.id = y.id /\ x.at = y.at /\ x.from = y.from /\ x.to = y.to

\* e is the engine b but for what its faults discarded and, when it is delivering, for
\* what is due.
Twin(e, b, delivering) ==
  /\ e.now = b.now /\ e.sent = b.sent /\ e.drawn = b.drawn
  /\ \A g \in e.gone : g <= e.sent
  /\ \A x \in In(e.queue) : /\ x.id \notin e.gone /\ x.id <= e.sent
                            /\ \E y \in In(b.queue) : Match(x, y)
  /\ \A y \in In(b.queue) : \/ y.id \in e.gone
                            \/ delivering /\ y.at <= e.now
                            \/ \E x \in In(e.queue) : Match(x, y)
  /\ \A x, z \in In(e.queue) : x.seq < z.seq <=> x.id < z.id

\* What an engine with faults and one without make of a message.
LEMMA TwinOne ==
  ASSUME NEW faults, Faults(faults), NEW e \in Engine(faults), Running(e),
         NEW b \in Engine(<<>>), Running(b), NEW delivering \in BOOLEAN, Twin(e, b, delivering),
         NEW m \in Msg, NEW draw \in Draw
  PROVE  Twin(CollectOne(e, m, draw), CollectOne(b, m, draw), delivering)
<1> DEFINE r == CollectOne(e, m, draw)
           s == CollectOne(b, m, draw)
<1>1. r \in Engine(faults) /\ Outcome(e, m, draw, r)
  BY Zenon, CollectOneOutcome
<1>2. s \in Engine(<<>>) /\ Outcome(b, m, draw, s)
  BY Zenon, NoFaults, CollectOneOutcome
<1> HIDE DEF r, s
<1>3. e.now = b.now /\ e.sent = b.sent /\ e.drawn = b.drawn
  BY Zenon DEF Twin
<1>4. r.now = s.now /\ r.now = e.now /\ r.sent = s.sent /\ r.sent = e.sent + 1 /\ r.drawn = s.drawn
  BY Zenon, <1>1, <1>2, <1>3 DEF Outcome
<1>5. e.sent \in Nat /\ e.seq \in Nat /\ draw[2] \in 0 .. MaxDelay /\ draw[1] \in BOOLEAN /\ e.gone \subseteq Nat
  BY Zenon, EngineFields, DrawFacts
<1>6. \A g \in e.gone : g <= e.sent + 1 /\ g # e.sent + 1
  <2>1. \A g \in e.gone : g \in Nat /\ g <= e.sent
    BY Zenon, <1>5 DEF Twin
  <2> QED BY <1>5, <2>1
<1>7. ASSUME NEW x \in In(e.queue)
      PROVE  /\ x.id <= e.sent + 1 /\ x.id < e.sent + 1 /\ x.id # e.sent + 1 /\ ~(e.sent + 1 < x.id)
             /\ x.seq < e.seq + 1 /\ ~(e.seq + 1 < x.seq)
  <2>1. x \in Event /\ x.seq <= e.seq /\ x.id <= e.sent
    BY Zenon, InEvents DEF Running, Twin
  <2>2. x.id \in Nat /\ x.seq \in Nat
    BY Zenon, <2>1, EventFields
  <2> QED BY <1>5, <2>1, <2>2
<1>8. CASE draw[1]
  <2>1. r.queue = e.queue /\ r.gone = e.gone /\ s.queue = b.queue
    BY Zenon, <1>1, <1>2, <1>8 DEF Outcome, Lost
  <2> QED BY Zenon, <1>4, <1>6, <1>7, <2>1 DEF Twin, r, s
<1>9. CASE ~draw[1]
  <2> DEFINE ev == EventOf(e, m, draw[2])
             bv == EventOf(b, m, draw[2])
  <2>1. In(s.queue) = In(b.queue) \cup {bv}
    <3>1. b.faults = <<>>
      BY Zenon, EngineFields
    <3> QED BY Zenon, <3>1, <1>2, <1>9 DEF Outcome, Sent
  <2>2. bv.id = e.sent + 1 /\ bv.at = e.now + draw[2] /\ bv.from = m.from /\ bv.to = m.to
    <3>1. Stamped(bv, b, m, draw[2])
      BY Zenon, <1>5, EventOfFacts
    <3> QED BY Zenon, <1>3, <3>1 DEF Stamped
  <2>3. /\ ev.id = e.sent + 1 /\ ev.at = e.now + draw[2] /\ ev.from = m.from /\ ev.to = m.to
        /\ ev.seq = e.seq + 1
    <3>1. Stamped(ev, e, m, draw[2])
      BY Zenon, <1>5, EventOfFacts
    <3> QED BY Zenon, <3>1 DEF Stamped
  <2> HIDE DEF ev, bv
  <2>4. Match(ev, bv)
    BY Zenon, <2>2, <2>3 DEF Match
  <2>5. CASE Denied(e, r)
    <3>1. r.queue = e.queue /\ r.gone = e.gone \cup {e.sent + 1}
      BY Zenon, <2>5 DEF Denied
    <3>2. \A g \in r.gone : g <= r.sent
      <4>1. e.sent + 1 <= e.sent + 1
        BY <1>5
      <4> QED BY Zenon, <4>1, <3>1, <1>4, <1>6
    <3>3. \A x \in In(r.queue) : /\ x.id \notin r.gone /\ x.id <= r.sent
                                 /\ \E y \in In(s.queue) : Match(x, y)
      BY Zenon, <3>1, <1>4, <1>7, <2>1 DEF Twin
    <3>4. \A y \in In(s.queue) : \/ y.id \in r.gone
                                 \/ delivering /\ y.at <= r.now
                                 \/ \E x \in In(r.queue) : Match(x, y)
      BY Zenon, <3>1, <1>4, <2>1, <2>2 DEF Twin
    <3>5. \A x, z \in In(r.queue) : x.seq < z.seq <=> x.id < z.id
      BY Zenon, <3>1 DEF Twin
    <3> QED BY Zenon, <1>4, <3>2, <3>3, <3>4, <3>5 DEF Twin, r, s
  <2>6. CASE Sent(e, m, draw[2], r)
    <3>1. r.gone = e.gone /\ In(r.queue) = In(e.queue) \cup {ev}
      BY Zenon, <2>6 DEF Sent, ev
    <3>2. \A g \in r.gone : g <= r.sent
      BY Zenon, <3>1, <1>4, <1>6
    <3>3. \A x \in In(r.queue) : /\ x.id \notin r.gone /\ x.id <= r.sent
                                 /\ \E y \in In(s.queue) : Match(x, y)
      <4>1. e.sent + 1 <= e.sent + 1
        BY <1>5
      <4>2. ev.id \notin r.gone /\ ev.id <= r.sent /\ \E y \in In(s.queue) : Match(ev, y)
        BY Zenon, <4>1, <3>1, <1>4, <1>6, <2>1, <2>3, <2>4
      <4> QED BY Zenon, <4>2, <3>1, <1>4, <1>7, <2>1 DEF Twin
    <3>4. \A y \in In(s.queue) : \/ y.id \in r.gone
                                 \/ delivering /\ y.at <= r.now
                                 \/ \E x \in In(r.queue) : Match(x, y)
      BY Zenon, <3>1, <1>4, <2>1, <2>4 DEF Twin
    <3>5. \A x, z \in In(r.queue) : x.seq < z.seq <=> x.id < z.id
      <4>1. ~(e.seq + 1 < e.seq + 1) /\ ~(e.sent + 1 < e.sent + 1)
        BY <1>5
      <4>2. ASSUME NEW x \in In(e.queue) PROVE (x.seq < ev.seq <=> x.id < ev.id) /\ (ev.seq < x.seq <=> ev.id < x.id)
        BY Zenon, <1>7, <2>3
      <4>3. ev.seq < ev.seq <=> ev.id < ev.id
        BY Zenon, <4>1, <2>3
      <4>4. \A x, z \in In(e.queue) : x.seq < z.seq <=> x.id < z.id
        BY Zenon DEF Twin
      <4> QED BY Zenon, <4>2, <4>3, <4>4, <3>1
    <3> QED BY Zenon, <1>4, <3>2, <3>3, <3>4, <3>5 DEF Twin, r, s
  <2> QED BY Zenon, <2>5, <2>6, <1>1, <1>9 DEF Outcome
<1> QED BY Zenon, <1>5, <1>8, <1>9

LEMMA TwinCollect ==
  ASSUME NEW faults, Faults(faults), NEW e \in Engine(faults), Running(e),
         NEW b \in Engine(<<>>), Running(b), NEW delivering \in BOOLEAN, Twin(e, b, delivering),
         NEW ms, NEW draws, Batch(ms, draws)
  PROVE  Twin(Collect(e, ms, draws), Collect(b, ms, draws), delivering)
<1>1. PICK f : Collecting(f, faults, e, ms, draws)
  BY Zenon, CollectRuns
<1>2. PICK g : Collecting(g, <<>>, b, ms, draws)
  BY Zenon, NoFaults, CollectRuns
<1> DEFINE n == Len(ms)
           U == {k \in 0 .. n : ~Twin(f[k], g[k], delivering)}
<1>3. n \in Nat /\ \A k \in 1 .. n : ms[k] \in Msg /\ draws[k] \in Draw
  BY Zenon DEF Batch
<1> HIDE DEF n
<1>4. 0 \in 0 .. n /\ n \in 0 .. n
  BY <1>3
<1>5. U = {}
  <2> SUFFICES ASSUME U # {} PROVE FALSE
    BY Zenon
  <2>1. U \in SUBSET Nat
    BY <1>3
  <2> HIDE DEF U
  <2>2. PICK x \in U : \A y \in U : x <= y
    BY Zenon, <2>1, LeastOf
  <2>3. x \in 0 .. n /\ ~Twin(f[x], g[x], delivering)
    BY Zenon DEF U
  <2>4. x # 0
    BY Zenon, <1>1, <1>2, <2>3 DEF Collecting
  <2>5. x \in 1 .. n /\ x - 1 \in 0 .. n /\ ~(x <= x - 1)
    BY <1>3, <2>3, <2>4
  <2>6. Twin(f[x - 1], g[x - 1], delivering)
    BY Zenon, <2>2, <2>5 DEF U
  <2>7. /\ f[x - 1] \in Engine(faults) /\ Running(f[x - 1]) /\ f[x] = CollectOne(f[x - 1], ms[x], draws[x])
        /\ g[x - 1] \in Engine(<<>>) /\ Running(g[x - 1]) /\ g[x] = CollectOne(g[x - 1], ms[x], draws[x])
    BY Zenon, <1>1, <1>2, <2>5 DEF Collecting, Grown, n
  <2>8. ms[x] \in Msg /\ draws[x] \in Draw
    BY Zenon, <1>3, <2>5 DEF n
  <2>9. Twin(CollectOne(f[x - 1], ms[x], draws[x]), CollectOne(g[x - 1], ms[x], draws[x]), delivering)
    BY Zenon, <2>6, <2>7, <2>8, TwinOne
  <2> QED BY Zenon, <2>3, <2>7, <2>9
<1>6. Twin(f[n], g[n], delivering)
  BY Zenon, <1>4, <1>5
<1> QED BY Zenon, <1>1, <1>2, <1>6 DEF Collecting, n

TwinInv == run.answers = 0 => Twin(eng, bare, busy)

LEMMA TwinStartStep ==
  ASSUME EngineInv, TwinInv, StartStep, run.answers = 0
  PROVE  Twin(eng', bare', busy')
<1>1. /\ run \in Setup /\ Faults(run.faults) /\ Faults(<<>>)
      /\ eng \in Engine(run.faults) /\ Running(eng)
      /\ bare \in Engine(<<>>) /\ Running(bare)
  BY Zenon, InvParts
<1>2. ~busy /\ busy' = TRUE
  BY Zenon DEF StartStep
<1>3. PICK ms \in Outbound(MaxSends) : \E draws \in Draws(ms) :
        /\ eng' = Collect(Tick(eng), ms, draws)
        /\ bare' = Collect(Tick(bare), ms, draws)
  BY Zenon DEF StartStep
<1>4. PICK draws \in Draws(ms) : /\ eng' = Collect(Tick(eng), ms, draws)
                                 /\ bare' = Collect(Tick(bare), ms, draws)
  BY Zenon, <1>3
<1>5. Batch(ms, draws)
  BY Zenon, <1>1, EngineAssumption, SentBatch
<1> DEFINE e == Tick(eng)
           b == Tick(bare)
<1>6. /\ e \in Engine(run.faults) /\ Running(e) /\ e.queue = eng.queue
      /\ e.now = eng.now + 1 /\ e.drawn = eng.drawn /\ e.sent = eng.sent /\ e.gone = eng.gone
  BY Zenon, <1>1, TickFacts
<1>7. /\ b \in Engine(<<>>) /\ Running(b) /\ b.queue = bare.queue
      /\ b.now = bare.now + 1 /\ b.drawn = bare.drawn /\ b.sent = bare.sent
  BY Zenon, <1>1, TickFacts
<1> HIDE DEF e, b
<1>8. Twin(e, b, TRUE)
  BY Zenon, <1>2, <1>6, <1>7 DEF TwinInv, Twin
<1>9. Twin(Collect(e, ms, draws), Collect(b, ms, draws), TRUE)
  BY Zenon, <1>1, <1>5, <1>6, <1>7, <1>8, TwinCollect
<1> QED BY Zenon, <1>2, <1>4, <1>9 DEF e, b

LEMMA TwinCollectCall ==
  ASSUME EngineInv, TwinInv, CollectCall, run.answers = 0
  PROVE  Twin(eng', bare', busy')
<1>1. /\ run \in Setup /\ Faults(run.faults) /\ Faults(<<>>)
      /\ eng \in Engine(run.faults) /\ Running(eng)
      /\ bare \in Engine(<<>>) /\ Running(bare)
  BY Zenon, InvParts
<1>2. ~busy /\ busy' = busy
  BY Zenon DEF CollectCall
<1>3. PICK link \in run.links : \E draws \in Draws(<<Message(link)>>) :
        /\ eng' = Collect(eng, <<Message(link)>>, draws)
        /\ bare' = Collect(bare, <<Message(link)>>, draws)
  BY Zenon DEF CollectCall
<1> DEFINE m == Message(link)
           ms == <<m>>
<1>4. PICK draws \in Draws(ms) : eng' = Collect(eng, ms, draws) /\ bare' = Collect(bare, ms, draws)
  BY Zenon, <1>3
<1>5. m \in Msg
  <2>1. link \in Node \X Node
    BY Zenon, <1>1, SetupFaults
  <2> QED BY Zenon, <2>1, MessageFacts
<1> HIDE DEF m
<1>6. Batch(ms, draws)
  BY Zenon, <1>5, OneBatch
<1> HIDE DEF ms
<1>8. Twin(eng, bare, FALSE)
  BY Zenon, <1>2 DEF TwinInv, Twin
<1>9. Twin(Collect(eng, ms, draws), Collect(bare, ms, draws), FALSE)
  BY Zenon, <1>1, <1>6, <1>8, TwinCollect
<1> QED BY Zenon, <1>2, <1>4, <1>9 DEF Twin

\* Where at most 0 messages are sent, none is.
LEMMA NothingSent ==
  ASSUME NEW ms \in Outbound(0)
  PROVE  ms = <<>>
<1>1. PICK links \in UNION {[1 .. k -> run.links] : k \in 0 .. 0} :
        ms = [k \in DOMAIN links |-> Message(links[k])]
  BY Zenon DEF Outbound
<1>2. PICK n \in 0 .. 0 : links \in [1 .. n -> run.links]
  BY Zenon, <1>1
<1>3. DOMAIN links = 1 .. 0
  BY <1>2
<1>4. ms = [k \in 1 .. 0 |-> Message(links[k])]
  BY Zenon, <1>1, <1>3
<1> QED BY <1>4

\* Nothing is collected from a delivery that is not answered.
LEMMA CollectNothing ==
  ASSUME NEW faults, Faults(faults), NEW e \in Engine(faults), Running(e), NEW draws
  PROVE  Collect(e, <<>>, draws) = e
<1>1. PICK f : Collecting(f, faults, e, <<>>, draws)
  BY Zenon, NoBatch, CollectRuns
<1>2. Len(<<>>) = 0
  OBVIOUS
<1> QED BY Zenon, <1>1, <1>2 DEF Collecting

LEMMA TwinDeliverDue ==
  ASSUME EngineInv, TwinInv, DeliverDue, run.answers = 0
  PROVE  Twin(eng', bare', busy')
<1> DEFINE ev == eng.queue[1]
           e == Popped(eng)
<1>1. /\ run \in Setup /\ Faults(run.faults)
      /\ eng \in Engine(run.faults) /\ Running(eng)
  BY Zenon, InvParts
<1>2. busy /\ Due(eng) /\ bare' = bare /\ busy' = busy
  BY Zenon DEF DeliverDue
<1>3. PICK ms \in Outbound(run.answers) : \E draws \in Draws(ms) : eng' = Collect(e, ms, draws)
  BY Zenon DEF DeliverDue, Popped, WithQueue
<1>4. PICK draws \in Draws(ms) : eng' = Collect(e, ms, draws)
  BY Zenon, <1>3
<1>5. /\ e \in Engine(run.faults) /\ Running(e) /\ Alike(eng, e)
      /\ In(e.queue) = In(eng.queue) \ {ev} /\ ev \in In(eng.queue) /\ ev.at <= eng.now
  BY Zenon, <1>1, <1>2, PoppedFacts
<1> HIDE DEF ev, e
<1>6. Twin(eng, bare, TRUE)
  BY Zenon, <1>2 DEF TwinInv, Twin
<1>7. ms = <<>>
  BY Zenon, NothingSent
<1>8. eng' = e
  BY Zenon, <1>1, <1>4, <1>5, <1>7, CollectNothing
<1>9. \A x \in In(e.queue) : /\ x.id \notin e.gone /\ x.id <= e.sent
                             /\ \E y \in In(bare.queue) : Match(x, y)
  BY Zenon, <1>5, <1>6 DEF Twin, Alike
<1>10. ASSUME NEW y \in In(bare.queue)
       PROVE  y.id \in e.gone \/ y.at <= e.now \/ \E x \in In(e.queue) : Match(x, y)
  <2>1. ASSUME NEW x \in In(eng.queue), Match(x, y) PROVE y.at <= e.now \/ x \in In(e.queue)
    <3>1. CASE x = ev
      BY Zenon, <3>1, <2>1, <1>5 DEF Match, Alike
    <3>2. CASE x # ev
      BY Zenon, <3>2, <1>5
    <3> QED BY Zenon, <3>1, <3>2
  <2>2. y.id \in e.gone \/ y.at <= e.now \/ \E x \in In(eng.queue) : Match(x, y)
    BY Zenon, <1>5, <1>6 DEF Twin, Alike
  <2> QED BY Zenon, <2>1, <2>2
<1>11. \A x, z \in In(e.queue) : x.seq < z.seq <=> x.id < z.id
  BY Zenon, <1>5, <1>6 DEF Twin
<1>12. e.now = bare.now /\ e.sent = bare.sent /\ e.drawn = bare.drawn /\ \A g \in e.gone : g <= e.sent
  BY Zenon, <1>5, <1>6 DEF Twin, Alike
<1>13. Twin(e, bare, TRUE)
  BY Zenon, <1>9, <1>10, <1>11, <1>12 DEF Twin
<1> QED BY Zenon, <1>2, <1>8, <1>13 DEF Twin

LEMMA TwinEndStep ==
  ASSUME EngineInv, TwinInv, EndStep, run.answers = 0
  PROVE  Twin(eng', bare', busy')
<1>1. /\ eng \in Engine(run.faults) /\ Running(eng)
      /\ bare \in Engine(<<>>) /\ Running(bare)
  BY Zenon, InvParts
<1>2. busy /\ ~Due(eng) /\ busy' = FALSE /\ bare' = DeliverAll(bare) /\ eng' = eng
  BY Zenon DEF EndStep
<1>3. Twin(eng, bare, TRUE)
  BY Zenon, <1>2 DEF TwinInv, Twin
<1>4. Alike(bare, bare') /\ In(bare'.queue) = {y \in In(bare.queue) : y.at > bare.now}
  <2>1. /\ Alike(bare, DeliverAll(bare))
        /\ In(DeliverAll(bare).queue) = {y \in In(bare.queue) : y.at > bare.now}
    BY Zenon, <1>1, DeliverAllDue
  <2> QED BY Zenon, <2>1, <1>2
<1>5. \A x \in In(eng.queue) : x.at > eng.now
  BY Zenon, <1>1, <1>2, NothingDue
<1>6. eng.now = bare.now
  BY Zenon, <1>3 DEF Twin
<1>7. \A y \in In(bare.queue) : y.at > bare.now => ~(y.at <= eng.now)
  <2> SUFFICES ASSUME NEW y \in In(bare.queue) PROVE y.at > bare.now => ~(y.at <= eng.now)
    BY Zenon
  <2>1. y.at \in Nat /\ bare.now \in Nat
    BY Zenon, <1>1, InEvents, EventFields, EngineFields DEF Running
  <2> QED BY <2>1, <1>6
<1>8. \A x \in In(eng.queue) : \E y \in In(bare'.queue) : Match(x, y)
  <2> SUFFICES ASSUME NEW x \in In(eng.queue) PROVE \E y \in In(bare'.queue) : Match(x, y)
    BY Zenon
  <2>1. PICK y \in In(bare.queue) : Match(x, y)
    BY Zenon, <1>3 DEF Twin
  <2>2. y.at > bare.now
    BY Zenon, <2>1, <1>5, <1>6 DEF Match
  <2> QED BY Zenon, <2>1, <2>2, <1>4
<1>9. \A y \in In(bare'.queue) : y.id \in eng.gone \/ \E x \in In(eng.queue) : Match(x, y)
  BY Zenon, <1>3, <1>4, <1>7 DEF Twin
<1>10. Twin(eng, bare', FALSE)
  BY Zenon, <1>3, <1>4, <1>8, <1>9 DEF Twin, Alike
<1> QED BY Zenon, <1>2, <1>10

LEMMA TwinIsolate ==
  ASSUME EngineInv, TwinInv, NEW node, IsolateCall(node), run.answers = 0
  PROVE  Twin(eng', bare', busy')
<1>1. /\ eng \in Engine(run.faults) /\ Running(eng)
      /\ bare \in Engine(<<>>) /\ Running(bare)
  BY Zenon, InvParts
<1>2. ~busy /\ busy' = busy /\ eng' = isolate(eng, node) /\ bare' = isolate(bare, node)
  BY Zenon DEF IsolateCall
<1>3. Alike(eng, eng') /\ In(eng'.queue) = Spared(eng.queue, node)
  <2>1. Alike(eng, isolate(eng, node)) /\ In(isolate(eng, node).queue) = Spared(eng.queue, node)
    BY Zenon, <1>1, IsolateFacts
  <2> QED BY Zenon, <2>1, <1>2
<1>4. Alike(bare, bare') /\ In(bare'.queue) = Spared(bare.queue, node)
  <2>1. Alike(bare, isolate(bare, node)) /\ In(isolate(bare, node).queue) = Spared(bare.queue, node)
    BY Zenon, <1>1, IsolateFacts
  <2> QED BY Zenon, <2>1, <1>2
<1>5. Twin(eng, bare, FALSE)
  BY Zenon, <1>2 DEF TwinInv, Twin
<1>6. \A x, y : Match(x, y) => (Touches(x, node) <=> Touches(y, node))
  BY Zenon DEF Match, Touches
<1>7. ASSUME NEW x \in In(eng'.queue)
      PROVE  /\ x \in In(eng.queue) /\ x.id \notin eng.gone /\ x.id <= eng.sent
             /\ \E y \in In(bare'.queue) : Match(x, y)
  <2>1. x \in In(eng.queue) /\ ~Touches(x, node)
    BY Zenon, <1>3 DEF Spared
  <2>2. PICK y \in In(bare.queue) : Match(x, y)
    BY Zenon, <2>1, <1>5 DEF Twin
  <2>3. y \in In(bare'.queue)
    BY Zenon, <2>1, <2>2, <1>4, <1>6 DEF Spared
  <2> QED BY Zenon, <2>1, <2>2, <2>3, <1>5 DEF Twin
<1>8. ASSUME NEW y \in In(bare'.queue) PROVE y.id \in eng.gone \/ \E x \in In(eng'.queue) : Match(x, y)
  <2>1. y \in In(bare.queue) /\ ~Touches(y, node)
    BY Zenon, <1>4 DEF Spared
  <2>2. y.id \in eng.gone \/ \E x \in In(eng.queue) : Match(x, y)
    BY Zenon, <2>1, <1>5 DEF Twin
  <2> QED BY Zenon, <2>1, <2>2, <1>3, <1>6 DEF Spared
<1>9. Twin(eng', bare', FALSE)
  BY Zenon, <1>3, <1>4, <1>5, <1>7, <1>8 DEF Twin, Alike
<1> QED BY Zenon, <1>2, <1>9 DEF Twin

LEMMA TwinStep ==
  ASSUME EngineInv, TwinInv, [Next]_vars
  PROVE  TwinInv'
<1>1. run' = run
  BY Zenon DEF Next, vars, StartStep, DeliverDue, EndStep, CollectCall, IsolateCall
<1>2. SUFFICES ASSUME run.answers = 0 PROVE Twin(eng', bare', busy')
  BY Zenon, <1>1 DEF TwinInv
<1>3. CASE UNCHANGED vars
  BY Zenon, <1>2, <1>3 DEF vars, TwinInv
<1> QED BY Zenon, <1>2, <1>3, TwinStartStep, TwinDeliverDue, TwinEndStep, TwinCollectCall, TwinIsolate DEF Next

LEMMA TwinStart ==
  ASSUME Init
  PROVE  TwinInv
<1>1. run \in Setup /\ eng = NewEngine(run.faults) /\ bare = NewEngine(<<>>)
  BY Zenon DEF Init
<1>2. Faults(run.faults) /\ Faults(<<>>)
  BY Zenon, <1>1, SetupFaults, NoFaults
<1>3. eng.now = 0 /\ eng.drawn = 0 /\ eng.sent = 0 /\ eng.gone = {} /\ In(eng.queue) = {}
  BY Zenon, <1>1, <1>2, NewEngineFacts
<1>4. bare.now = 0 /\ bare.drawn = 0 /\ bare.sent = 0 /\ In(bare.queue) = {}
  BY Zenon, <1>1, <1>2, NewEngineFacts
<1> QED BY Zenon, <1>3, <1>4 DEF TwinInv, Twin

LEMMA TwinView ==
  ASSUME EngineInv, TwinInv
  PROVE  FaultsDoNotShift
<1> SUFFICES ASSUME ~busy, run.answers = 0
             PROVE  /\ eng.drawn = bare.drawn
                    /\ View(eng) = {v \in View(bare) : v[1] \notin eng.gone}
                    /\ \A a, b \in Events(eng) : a.seq < b.seq <=> a.id < b.id
  BY Zenon DEF FaultsDoNotShift
<1>1. Events(eng) = In(eng.queue) /\ Events(bare) = In(bare.queue)
  BY Zenon, InvParts, EventsAreIn
<1>2. Twin(eng, bare, FALSE)
  BY Zenon DEF TwinInv, Twin
<1>3. \A i, a : <<i, a>>[1] = i
  OBVIOUS
<1>4. ASSUME NEW v \in View(eng) PROVE v \in View(bare) /\ v[1] \notin eng.gone
  <2>1. PICK x \in In(eng.queue) : v = <<x.id, x.at>>
    BY Zenon, <1>1 DEF View
  <2>2. PICK y \in In(bare.queue) : Match(x, y)
    BY Zenon, <1>2 DEF Twin
  <2>3. v = <<y.id, y.at>>
    BY Zenon, <2>1, <2>2 DEF Match
  <2>4. v[1] = x.id
    BY Zenon, <2>1, <1>3
  <2> QED BY Zenon, <2>3, <2>4, <1>1, <1>2 DEF View, Twin
<1>5. ASSUME NEW v \in View(bare), v[1] \notin eng.gone PROVE v \in View(eng)
  <2>1. PICK y \in In(bare.queue) : v = <<y.id, y.at>>
    BY Zenon, <1>1 DEF View
  <2>2. v[1] = y.id
    BY Zenon, <2>1, <1>3
  <2>3. PICK x \in In(eng.queue) : Match(x, y)
    BY Zenon, <2>2, <1>2, <1>5 DEF Twin
  <2>4. v = <<x.id, x.at>>
    BY Zenon, <2>1, <2>3 DEF Match
  <2> QED BY Zenon, <2>4, <1>1 DEF View
<1>6. View(eng) = {v \in View(bare) : v[1] \notin eng.gone}
  BY Zenon, <1>4, <1>5
<1> QED BY Zenon, <1>1, <1>2, <1>6 DEF Twin

\* A registered fault never shifts the schedule, whatever the faults, losses and delays.
THEOREM EngineFaultsDoNotShift == Spec => []FaultsDoNotShift
<1>1. Init => EngineInv /\ TwinInv
  BY InitSound, TwinStart
<1>2. EngineInv /\ TwinInv /\ [Next]_vars => EngineInv' /\ TwinInv'
  BY StepSound, TwinStep
<1>3. EngineInv /\ TwinInv => FaultsDoNotShift
  BY TwinView
<1> QED BY <1>1, <1>2, <1>3, PTL DEF Spec

=============================================================================
