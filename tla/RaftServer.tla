----------------------------- MODULE RaftServer -----------------------------
(***************************************************************************)
(* The service (server/server.go): a RaftNode, the StateMachine it feeds,  *)
(* and the clients that wait for an answer.  A server is one event loop.   *)
(* One iteration takes one event - a peer's message, a client's request or *)
(* a tick - and then sends what the node wants sent, applies what has been *)
(* committed, compacts, and answers the reads that are confirmed.  An      *)
(* iteration is one action.                                                *)
(*                                                                         *)
(* A call is one request on one client connection.  It may reach a server  *)
(* at any time, also after its client has given up, and a retry is another *)
(* call with the same client and request IDs.  A request that a full queue *)
(* turns away, and an answer whose client has timed out, change nothing in *)
(* the server and are not modelled.                                        *)
(*                                                                         *)
(* committed is the log as it was first committed anywhere: the reference  *)
(* against which machines and answers are judged.                          *)
(***************************************************************************)
EXTENDS RaftNode, SequencesExt

CONSTANTS Key, Client,
          Call,             \* client connections
          Request,          \* the request each call carries
          SnapshotEntries,  \* Config.SnapshotEntries: compact after this many, 0 is never
          Shift,            \* bound: stands for 2^32; request IDs are below it
          Scenario,         \* bounds: what a behaviour may do, see IsScenario
          MaxTerm           \* bound: no election is started beyond this term

INSTANCE StateMachine

IsRead(r) == r.op = "Get"

\* A behaviour belongs to one scenario.
IsScenario(s) ==
  /\ s.electors \subseteq Server  \* the servers whose election timer may fire
  /\ s.crashers \subseteq Server  \* the servers that may crash
  /\ s.calls \subseteq Call       \* the calls that reach a server

ASSUME ServerAssumption ==
  /\ Client \subseteq Nat \ {0} /\ Shift \in Nat
  /\ \A c \in Call : /\ Request[c].op \in {"Get", "Put", "Delete"}
                     /\ Request[c].client \in Client /\ Request[c].key \in Key
                     /\ Request[c].request \in 1 .. Shift - 1
  /\ SnapshotEntries \in Nat /\ MaxTerm \in Nat
  /\ \A s \in Scenario : IsScenario(s)

VARIABLES server,     \* node, machine, pending and reads of each server
          net,        \* every peer message ever sent
          committed,  \* the log as first committed
          call,       \* what each call has been told
          scene       \* the scenario

vars == <<server, net, committed, call, scene>>

Unlimited == 9  \* more writes than one iteration makes: storage does not fail here

\* A server as Open returns it.  replies collects the answers of an iteration.
NewServer(n, m) ==
  [node |-> n, machine |-> m, pending |-> {}, reads |-> {}, refused |-> FALSE, replies |-> {}]

Answer(s, c, status, value) ==
  [s EXCEPT !.replies = @ \cup {[call |-> c, status |-> status, value |-> value]}]

-----------------------------------------------------------------------------
(***************************************************************************)
(* Requests.                                                               *)
(***************************************************************************)

contextID(r) == r.client * Shift + r.request

handleRead(s, c) ==
  IF s.reads # {} \/ ~CanStartReadIndex(s.node) THEN Answer(s, c, "Busy", Nil)
  ELSE [s EXCEPT !.node = StartReadIndex(s.node, contextID(Request[c])),
                 !.reads = @ \cup {[context |-> contextID(Request[c]), call |-> c]}]

Waiting(s, r) == {w \in s.pending : w.client = r.client /\ w.request = r.request}

Waiter(r, c) == [client |-> r.client, request |-> r.request, call |-> c]

Command(r) == IF r.op = "Put" THEN Put(r.client, r.request, r.key, r.value)
                              ELSE Delete(r.client, r.request, r.key)

\* The proposal of call c left node n.
ProposedAs(s, c, n) ==
  IF n.faulted THEN Answer([s EXCEPT !.node = n], c, "Busy", Nil)
  ELSE [s EXCEPT !.node = n, !.pending = @ \cup {Waiter(Request[c], c)}]

\* A request of the client's record is answered from it, one that is under way
\* gets another waiter, and any other is proposed (ProposeRequest).
handleMutation(s, c) ==
  LET r == Request[c] IN
  CASE Stale(s.machine, r.client, r.request) -> Answer(s, c, "Invalid", Nil)
    [] Cached(s.machine, r.client, r.request) ->
         Answer(s, c, "OK", s.machine.clients[r.client].value)
    [] OTHER -> IF Waiting(s, r) # {} THEN [s EXCEPT !.pending = @ \cup {Waiter(r, c)}]
                ELSE ProposedAs(s, c, Propose(s.node, Command(r)))

handleRequest(s, c) ==
  CASE s.node.role # "Leader" -> Answer(s, c, "NotLeader", Nil)
    [] s.node.role = "Leader" /\ IsRead(Request[c]) -> handleRead(s, c)
    [] OTHER -> handleMutation(s, c)

-----------------------------------------------------------------------------
(***************************************************************************)
(* The rest of an iteration.                                               *)
(***************************************************************************)

Status(ok) == IF ok THEN "OK" ELSE "Invalid"

\* Slip: those who wait for a request are not forgotten when it is answered.
Applied_keepsWaiters(s, e, r) ==
  [s EXCEPT !.machine = r.machine,
            !.replies = @ \cup {[call |-> w.call, status |-> Status(r.ok), value |-> r.value] :
                                 w \in Waiting(s, e.val)}]

\* The machine's outcome for entry e is r: answer those who wait for it.
Applied(s, e, r) ==
  [s EXCEPT !.machine = r.machine,
            !.replies = @ \cup {[call |-> w.call, status |-> Status(r.ok), value |-> r.value] :
                                 w \in Waiting(s, e.val)},
            !.pending = @ \ Waiting(s, e.val)]

\* One round of the loop of Server.apply; no-ops and configurations are skipped.
applyEntry(s, e) == IF e.kind = "Normal" THEN Applied(s, e, Apply(s.machine, e.val)) ELSE s

CompactDue(n) == SnapshotEntries # 0 /\ n.applied - n.base >= SnapshotEntries

compact(s) ==
  IF CompactDue(s.node) /\ CanCompact(s.node, s.node.applied)
    THEN [s EXCEPT !.node = Compact(s.node, s.node.applied, Snapshot(s.machine))] ELSE s

\* Slip: only the first of the entries committed at once is applied.
ApplyCommitted_first(s) ==
  LET n == s.node
      first == [s EXCEPT !.node = ApplyEntries(n)]
  IN IF n.applied = n.commit THEN first ELSE applyEntry(first, EntryAt(n, n.applied + 1))

\* ApplyEntries hands out what is committed and not applied.
ApplyCommitted(s) ==
  LET after[k \in s.node.applied .. s.node.commit] ==
        IF k = s.node.applied THEN [s EXCEPT !.node = ApplyEntries(@)]
        ELSE applyEntry(after[k - 1], EntryAt(s.node, k))
  IN after[s.node.commit]

apply(s) == compact(ApplyCommitted(s))

\* Slip: the barrier is not waited for.
Confirmed_always(s, read) == TRUE

\* ReadIndex knows the context, and the machine has reached the index.
Confirmed(s, read) ==
  /\ s.node.role = "Leader" /\ s.node.readReady /\ s.node.readContext = read.context
  /\ s.node.applied >= s.node.readIndex

ReadsDone(s, done) ==
  [s EXCEPT !.reads = @ \ done,
            !.replies = @ \cup {[call |-> read.call, status |-> "OK",
                                 value |-> s.machine.values[Request[read.call].key]] : read \in done}]

completeReads(s) == ReadsDone(s, {read \in s.reads : Confirmed(s, read)})

\* The end of an iteration that an event left at s: a storage error ends the
\* loop, otherwise the outbound queue is drained first.
afterEvent(s) ==
  IF s.node.faulted THEN s ELSE completeReads(apply([s EXCEPT !.node.out = {}]))

\* The log as committed so far, with what n is the first to have committed.
Extended(log, n) ==
  IF n.commit <= Len(log) THEN log
  ELSE log \o SubSeq(n.log, Len(log) - n.base + 1, n.commit - n.base)

\* A call k that is taken up when the log is as long as floor, or is not; answers
\* are those of the iteration.
Told(k, taken, floor, answers) ==
  [handled |-> k.handled \/ taken,
   floor |-> IF taken THEN floor ELSE k.floor,
   answers |-> k.answers \o SetToSeq(answers)]

\* The system w after an iteration of server i whose event left s and which ended
\* in done; C are the calls the event took.
Ended(w, i, s, done, C) ==
  [server |-> [w.server EXCEPT ![i] = [done EXCEPT !.replies = {}, !.node.out = {}, !.node.io = 0]],
   net |-> w.net \cup s.node.out,
   committed |-> Extended(w.committed, s.node),
   call |-> [c \in Call |->
               Told(w.call[c], c \in C, Len(w.committed), {r \in done.replies : r.call = c})]]

Iterated(w, i, s, C) == Ended(w, i, s, afterEvent(s), C)

-----------------------------------------------------------------------------
(***************************************************************************)
(* The event loop, and restarts.                                           *)
(***************************************************************************)

Initial ==
  [server |-> [i \in Server |-> NewServer(NewNodeWithStore(i, EmptyDisk), New)],
   net |-> {},
   committed |-> <<>>,
   call |-> [c \in Call |-> [handled |-> FALSE, floor |-> 0, answers |-> <<>>]]]

From(w) == server = w.server /\ net = w.net /\ committed = w.committed /\ call = w.call

Init == From(Initial) /\ scene \in Scenario

Running(s) == ~s.refused /\ ~s.node.faulted

Iterate(i, s, C) ==
  /\ Running(server[i])
  /\ \E w \in {Iterated([server |-> server, net |-> net, committed |-> committed, call |-> call],
                        i, s, C)} :
       server' = w.server /\ net' = w.net /\ committed' = w.committed /\ call' = w.call
  /\ UNCHANGED scene

\* A server at the start of an iteration.
Ready(s) == [s EXCEPT !.node.io = Unlimited]

tick(s) == [Ready(s) EXCEPT !.node = Tick(@)]
receive(s, m) == [Ready(s) EXCEPT !.node = Step(@, m)]

TickEvent(i) ==
  /\ server[i].node.role # "Leader" => i \in scene.electors /\ server[i].node.term < MaxTerm
  /\ Iterate(i, tick(server[i]), {})

MessageEvent(m) == Iterate(m.to, receive(server[m.to], m), {})

RequestEvent(i, c) ==
  /\ c \in scene.calls /\ ~call[c].handled
  /\ Iterate(i, handleRequest(Ready(server[i]), c), {c})

Replay(a, r) == [machine |-> r.machine, ok |-> a.ok /\ r.ok]

ReplayEntry(a, e) == IF e.kind = "Normal" THEN Replay(a, Apply(a.machine, e.val)) ELSE a

Replayed(n) ==
  LET after[k \in n.applied .. n.commit] ==
        IF k = n.applied
          THEN [machine |-> IF n.snapshot.index = 0 THEN New ELSE Restore(n.snapshot.state),
                ok |-> TRUE]
        ELSE ReplayEntry(after[k - 1], EntryAt(n, k))
  IN after[n.commit]

OpenedAs(n, a) ==
  IF a.ok THEN NewServer(ApplyEntries(n), a.machine)
  ELSE [NewServer(n, New) EXCEPT !.refused = TRUE]

OpenNode(n) ==
  IF n.faulted THEN [NewServer(n, New) EXCEPT !.refused = TRUE] ELSE OpenedAs(n, Replayed(n))

\* Open: recover the node, restore the machine from the snapshot and replay what
\* is committed after it.  An error of Apply is an error of Open.
Open(i, disk) == OpenNode(NewRecoveredNode(i, disk))

Restart(i) ==
  /\ i \in scene.crashers
  /\ server' = [server EXCEPT ![i] = Open(i, server[i].node.disk)]
  /\ UNCHANGED <<net, committed, call, scene>>

Next ==
  \/ \E i \in Server : TickEvent(i) \/ Restart(i) \/ \E c \in Call : RequestEvent(i, c)
  \/ \E m \in net : MessageEvent(m)

Spec == Init /\ [][Next]_vars

-----------------------------------------------------------------------------
(***************************************************************************)
(* Properties.                                                             *)
(***************************************************************************)

Cmd(k) == committed[k].val

\* Entry k is a command, and the first of its client with so high a request ID.
Effective(k) ==
  /\ committed[k].kind = "Normal"
  /\ \A j \in 1 .. k - 1 :
       committed[j].kind = "Normal" /\ Cmd(j).client = Cmd(k).client =>
         Cmd(j).request < Cmd(k).request

EffectiveUpTo(k) == {j \in 1 .. k : Effective(j)}

\* What key holds after the first k entries of the committed log.
ValueAt(key, k) ==
  LET writes == {j \in EffectiveUpTo(k) : Cmd(j).key = key} IN
  IF writes = {} THEN Nil ELSE Cmd(Max(writes)).value

\* The last request of client among the first k entries.
RequestAt(client, k) ==
  Max({0} \cup {Cmd(j).request : j \in {x \in EffectiveUpTo(k) : Cmd(x).client = client}})

\* What the command at entry k answers.
ResultAt(k) == IF Cmd(k).op = "Put" THEN Cmd(k).value ELSE ValueAt(Cmd(k).key, k - 1)

\* The machine of every running server holds exactly what the committed log up to
\* its node's Applied says: every request once, in log order, also after a restart
\* from a snapshot (Server.apply, Open, Machine.Apply, Snapshot and Restore).
MachineFollowsLog ==
  \A i \in Server : LET s == server[i] IN
    Running(s) =>
      /\ \A key \in Key : s.machine.values[key] = ValueAt(key, s.node.applied)
      /\ \A client \in Client :
           s.machine.clients[client].request = RequestAt(client, s.node.applied)

Answers(c) == {call[c].answers[x] : x \in DOMAIN call[c].answers}

\* A write that was answered OK is in the committed log, and its answer is the one
\* the log gives it, once, however often it was retried, at whatever server, and
\* whoever crashed (handleRequest, Machine.Cached, Machine.Apply).
WritesExactlyOnce ==
  \A c \in Call : \A a \in Answers(c) :
    a.status = "OK" /\ ~IsRead(Request[c]) =>
      \E k \in EffectiveUpTo(Len(committed)) :
        Cmd(k) = Command(Request[c]) /\ ResultAt(k) = a.value

\* A read is answered from a state of the store that is no older than what was
\* committed anywhere when its request was taken up (StartReadIndex,
\* completeReads).
ReadsLinearizable ==
  \A c \in Call : \A a \in Answers(c) :
    a.status = "OK" /\ IsRead(Request[c]) =>
      \E k \in call[c].floor .. Len(committed) :
        ValueAt(Request[c].key, k) = a.value

\* No call is answered twice.  Its channel holds one answer, and the event loop
\* would block for ever on the second (apply, completeReads).
AnsweredOnce == \A c \in Call : Len(call[c].answers) <= 1

\* A server can be opened again on what is on its disk (Open).
Reopens == \A i \in Server : ~Open(i, server[i].node.disk).refused

\* At a leader, a request that has waiters is in the log and not yet applied, so
\* that adding a retry to the waiters is enough (handleRequest).
RetriesUnderWay ==
  \A i \in Server : LET n == server[i].node IN
    Running(server[i]) /\ n.role = "Leader" =>
      \A w \in server[i].pending : \E k \in n.applied + 1 .. LastIndex(n) :
        LET e == EntryAt(n, k) IN
        e.kind = "Normal" /\ e.val.client = w.client /\ e.val.request = w.request

=============================================================================
