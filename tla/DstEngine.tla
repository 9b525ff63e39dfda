----------------------------- MODULE DstEngine -----------------------------
(***************************************************************************)
(* The deterministic simulation engine (dst/engine.go, dst/inject.go).     *)
(*                                                                         *)
(* An engine is a record.  Its queue is the binary heap of the code, with  *)
(* the root at 1.                                                          *)
(*                                                                         *)
(* eng is the engine under test.  bare has the same seed and is driven in  *)
(* the same way, but no fault is registered with it.  draws are the next   *)
(* numbers of the seeded stream.  As long as the two engines have used as  *)
(* many of them, which FaultsDoNotShift states, they read the same ones.   *)
(* What the nodes of a cluster send after a tick, a delivery or a call is  *)
(* any choice of messages.  Where the two engines are compared nothing is  *)
(* sent after a delivery, as the two may deliver different messages.       *)
(***************************************************************************)
EXTENDS Naturals, Sequences

CONSTANTS Node,       \* node IDs, in the order of Cluster.Nodes
          MaxDelay,   \* Config.MaxDelay
          Setup,      \* the runs: losses, faults, answers, links, messages and steps
          MaxSends    \* bound: how many messages are collected after the ticks of a step

ASSUME EngineAssumption ==
  /\ MaxDelay \in Nat /\ MaxSends \in Nat
  /\ \A r \in Setup : /\ DOMAIN r.faults = 1 .. Len(r.faults) /\ Len(r.faults) \in Nat
                      /\ r.links \subseteq Node \X Node
                      /\ r.answers \in Nat

VARIABLES eng,   \* the engine
          bare,  \* the engine without faults
          last,  \* when the message that eng delivered last was due, and its number
          busy,  \* Step is running
          run    \* the setup of this run

vars == <<eng, bare, last, busy, run>>

-----------------------------------------------------------------------------
(***************************************************************************)
(* The queue.                                                              *)
(***************************************************************************)

\* Slip: the sequence number breaks no ties.
earlier_untied(a, b) == a.at < b.at

earlier(a, b) == a.at < b.at \/ (a.at = b.at /\ a.seq < b.seq)

Swap(q, i, j) == [q EXCEPT ![i] = q[j], ![j] = q[i]]

\* A loop over the queue q that has come to its element i.
At(q, i) == [q |-> q, i |-> i]

\* One round of the loop of push: an element earlier than its parent takes its place.
Rise(c) ==
  LET parent == c.i \div 2 IN
  IF c.i > 1 /\ earlier(c.q[c.i], c.q[parent]) THEN At(Swap(c.q, c.i, parent), parent) ELSE c

\* The loop moves on from i at most i times, and then stays where it is.
siftUp(q, i) ==
  LET round[k \in 0 .. i] == IF k = 0 THEN At(q, i) ELSE Rise(round[k - 1])
  IN round[i].q

push(q, ev) == siftUp(Append(q, ev), Len(q) + 1)

Children(q, i) == {2 * i, 2 * i + 1} \cap DOMAIN q

\* i or the child that is the earliest of the three.
Smallest(q, i) ==
  CHOOSE k \in {i} \cup Children(q, i) :
    \A c \in ({i} \cup Children(q, i)) \ {k} : ~earlier(q[c], q[k])

\* One round of the loop of siftDown.
Sink(c) ==
  LET k == Smallest(c.q, c.i) IN IF k = c.i THEN c ELSE At(Swap(c.q, c.i, k), k)

\* It moves on fewer times than there are elements.
siftDown(q, i) ==
  LET round[k \in 0 .. Len(q)] == IF k = 0 THEN At(q, i) ELSE Sink(round[k - 1])
  IN round[Len(q)].q

\* The queue without its root: the last element takes its place.
pop(q) ==
  IF Len(q) = 1 THEN <<>>
  ELSE siftDown([SubSeq(q, 1, Len(q) - 1) EXCEPT ![1] = q[Len(q)]], 1)

\* siftDown at n, at n - 1 and so on up to the root.
heapify(q, n) ==
  LET after[k \in 0 .. n] == IF k = 0 THEN q ELSE siftDown(after[k - 1], n - k + 1)
  IN after[n]

-----------------------------------------------------------------------------
(***************************************************************************)
(* Injected faults.  A fault with end 0 is not wrapped in During.          *)
(***************************************************************************)

Crosses(f, from, to) ==
  CASE f.type = "split" -> (from \in f.a /\ to \in f.b) \/ (from \in f.b /\ to \in f.a)
    [] f.type = "isolate" -> from \in f.a \/ to \in f.a
    [] f.type = "link" -> from \in f.a /\ to \in f.b

Allow(f, now, from, to) ==
  (f.end # 0 /\ (now < f.start \/ now >= f.end)) \/ ~Crosses(f, from, to)

\* The first fault that denies the message, or 0.
blockedBy(e, from, to) ==
  LET denies == {k \in DOMAIN e.faults : ~Allow(e.faults[k], e.now, from, to)} IN
  IF denies = {} THEN 0 ELSE CHOOSE k \in denies : \A j \in denies : k <= j

-----------------------------------------------------------------------------
(***************************************************************************)
(* Collecting.  id is the place of a message among all that were sent.     *)
(***************************************************************************)

NewEngine(faults) ==
  [now |-> 0, seq |-> 0, queue |-> <<>>, faults |-> faults,
   injected |-> [k \in DOMAIN faults |-> 0], drawn |-> 0, sent |-> 0, gone |-> {}]

\* A draw is a pair: is the message lost (below DropPermille), and its delay
\* (reduced modulo MaxDelay + 1).  Without losses only the second is drawn, without
\* delays only the first.
LossDraws == IF run.lossy THEN 1 ELSE 0
DelayDraws == IF MaxDelay > 0 THEN 1 ELSE 0
Draw == (IF run.lossy THEN BOOLEAN ELSE {FALSE}) \X (0 .. MaxDelay)

Schedule(e, m, delay) ==
  [e EXCEPT !.seq = @ + 1,
            !.queue = push(@, [at |-> e.now + delay, seq |-> e.seq + 1, id |-> e.sent,
                               from |-> m.from, to |-> m.to])]

Discard(e, fault) == [e EXCEPT !.injected[fault] = @ + 1, !.gone = @ \cup {e.sent}]

\* Slip: the faults are asked before the delay is drawn.
Scheduled_early(e, m, delay) ==
  LET fault == blockedBy(e, m.from, m.to) IN
  IF fault # 0 THEN Discard(e, fault)
  ELSE Schedule([e EXCEPT !.drawn = @ + DelayDraws], m, delay)

\* The message was not lost: draw its delay and then ask the faults.
Scheduled(e, m, delay) ==
  LET fault == blockedBy(e, m.from, m.to)
      drawn == [e EXCEPT !.drawn = @ + DelayDraws]
  IN IF fault # 0 THEN Discard(drawn, fault) ELSE Schedule(drawn, m, delay)

CollectOne(e, m, draw) ==
  LET next == [e EXCEPT !.sent = @ + 1, !.drawn = @ + LossDraws] IN
  IF draw[1] THEN next ELSE Scheduled(next, m, draw[2])

Collect(e, ms, draws) ==
  LET after[k \in 0 .. Len(ms)] ==
        IF k = 0 THEN e ELSE CollectOne(after[k - 1], ms[k], draws[k])
  IN after[Len(ms)]

-----------------------------------------------------------------------------
(***************************************************************************)
(* Step, Isolate, and calls out of band.                                   *)
(***************************************************************************)

Due(e) == e.queue # <<>> /\ e.queue[1].at <= e.now

DeliverOne(e) == IF Due(e) THEN [e EXCEPT !.queue = pop(@)] ELSE e

\* The loop of Step, of an engine whose deliveries are not answered.
DeliverAll(e) ==
  LET after[k \in 0 .. Len(e.queue)] == IF k = 0 THEN e ELSE DeliverOne(after[k - 1])
  IN after[Len(e.queue)]

Touches(ev, node) == ev.from = node \/ ev.to = node

\* What Isolate keeps of the queue, in the order of the queue.
Kept(q, node) ==
  LET kept[k \in 0 .. Len(q)] ==
        IF k = 0 THEN <<>>
        ELSE IF Touches(q[k], node) THEN kept[k - 1] ELSE Append(kept[k - 1], q[k])
  IN kept[Len(q)]

isolate(e, node) ==
  LET kept == Kept(e.queue, node) IN
  [e EXCEPT !.queue = heapify(kept, Len(kept) \div 2)]

Tick(e) == [e EXCEPT !.now = @ + 1]

Message(link) == [from |-> link[1], to |-> link[2]]

\* What the nodes want to send, node by node: up to n messages.
Outbound(n) ==
  {[k \in DOMAIN links |-> Message(links[k])] :
     links \in {s \in UNION {[1 .. k -> run.links] : k \in 0 .. n} :
                 \A k \in 1 .. Len(s) - 1 : s[k][1] <= s[k + 1][1]}}

\* Bound: a run sends run.messages messages, in run.steps steps.
Affordable(e, ms) == e.sent + Len(ms) <= run.messages

Draws(ms) == [DOMAIN ms -> Draw]

Init ==
  /\ run \in Setup
  /\ eng = NewEngine(run.faults)
  /\ bare = NewEngine(<<>>)
  /\ last = [at |-> 0, seq |-> 0]
  /\ busy = FALSE

\* Every node ticks, and what the nodes want to send is collected.
StartStep ==
  /\ ~busy /\ busy' = TRUE
  /\ eng.now < run.steps
  /\ \E ms \in Outbound(MaxSends) :
       /\ Affordable(eng, ms)
       /\ \E draws \in Draws(ms) :
            /\ eng' = Collect(Tick(eng), ms, draws)
            /\ bare' = Collect(Tick(bare), ms, draws)
  /\ UNCHANGED <<last, run>>

\* One round of the loop: the root is due and delivered, and what any node wants to
\* send now is collected, up to run.answers messages.
DeliverDue ==
  /\ busy /\ Due(eng)
  /\ last' = [at |-> eng.queue[1].at, seq |-> eng.queue[1].seq]
  /\ \E ms \in Outbound(run.answers) :
       /\ Affordable(eng, ms)
       /\ \E draws \in Draws(ms) : eng' = Collect([eng EXCEPT !.queue = pop(@)], ms, draws)
  /\ UNCHANGED <<bare, busy, run>>

EndStep ==
  /\ busy /\ ~Due(eng) /\ busy' = FALSE
  /\ bare' = DeliverAll(bare)
  /\ UNCHANGED <<eng, last, run>>

\* A client has called a node, and the caller collects.
CollectCall ==
  /\ ~busy
  /\ \E link \in run.links : LET ms == <<Message(link)>> IN
       /\ Affordable(eng, ms)
       /\ \E draws \in Draws(ms) :
            /\ eng' = Collect(eng, ms, draws)
            /\ bare' = Collect(bare, ms, draws)
  /\ UNCHANGED <<last, busy, run>>

IsolateCall(node) ==
  /\ ~busy
  /\ eng' = isolate(eng, node)
  /\ bare' = isolate(bare, node)
  /\ UNCHANGED <<last, busy, run>>

Next ==
  \/ StartStep \/ DeliverDue \/ EndStep \/ CollectCall
  \/ \E node \in Node : IsolateCall(node)

Spec == Init /\ [][Next]_vars

-----------------------------------------------------------------------------
(***************************************************************************)
(* Properties.                                                             *)
(***************************************************************************)

Events(e) == {e.queue[k] : k \in DOMAIN e.queue}

Sched == INSTANCE DstSchedule WITH now <- eng.now, seq <- eng.seq, pending <- Events(eng)

\* The heap delivers exactly what a linear scan for the earliest due message would,
\* whatever is pushed, popped and isolated in between, and loses nothing (earlier,
\* push, pop, siftDown, Isolate).
ImplementsSchedule == Sched!Init /\ [][Sched!Next]_Sched!schedule

\* What a comparison of the two engines sees of the messages in flight.
View(e) == {<<ev.id, ev.at>> : ev \in Events(e)}

\* A registered fault never shifts the schedule: an engine with faults has used as
\* many random numbers as one without, and has the same messages in flight, due at
\* the same times and in the same order, but for those its faults discarded
\* (Collect, inject.go).
FaultsDoNotShift ==
  ~busy /\ run.answers = 0 =>
    /\ eng.drawn = bare.drawn
    /\ View(eng) = {v \in View(bare) : v[1] \notin eng.gone}
    /\ \A a, b \in Events(eng) : a.seq < b.seq <=> a.id < b.id

=============================================================================
