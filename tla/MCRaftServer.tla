---------------------------- MODULE MCRaftServer ----------------------------
(***************************************************************************)
(* TLC instances of RaftServer.  An election alone takes a dozen messages, *)
(* so a run begins further on, in a state that is computed by the model of *)
(* the code itself and is therefore reachable.                             *)
(***************************************************************************)
EXTENDS RaftServer

CONSTANTS s1, s2, s3

Bounds == Cardinality(net) <= scene.maxMessages

\* Requests of client 1 on key 1.
PutOf(request, value) ==
  [op |-> "Put", client |-> 1, request |-> request, key |-> 1, value |-> value]
DeleteOf(request) ==
  [op |-> "Delete", client |-> 1, request |-> request, key |-> 1, value |-> Nil]
GetOf(request) ==
  [op |-> "Get", client |-> 1, request |-> request, key |-> 1, value |-> Nil]

\* The requests of the calls 1, 2, ... of a run.  Request 1 comes before any run.
\* Reads around a write, and a write with its retries.
ReadsAndRetries ==
  <<GetOf(2), PutOf(3, 3), GetOf(4), DeleteOf(2), DeleteOf(2), DeleteOf(2), PutOf(3, 3)>>
DeleteAndRetry == <<DeleteOf(2), DeleteOf(2)>>
ManyWrites == <<PutOf(2, 2), DeleteOf(3), DeleteOf(3), PutOf(4, 4)>>
TwoWrites == <<PutOf(2, 2), PutOf(3, 3)>>
ReadWriteRetry == <<GetOf(2), PutOf(3, 3), GetOf(2)>>

-----------------------------------------------------------------------------

\* What an order o of a script makes of server s as an event.
Event(s, o) ==
  CASE o.do = "tick" -> tick(s)
    [] o.do = "deliver" -> receive(s, o.msg)
    [] o.do = "take" -> handleRequest(Ready(s), o.call)
    [] o.do = "write" -> [Ready(s) EXCEPT !.node = Propose(@, Command(PutOf(1, 1)))]

Obeyed(w, o) ==
  Iterated(w, o.at, Event(w.server[o.at], o), IF o.do = "take" THEN {o.call} ELSE {})

\* Deliver what is in flight to the servers of S and lose the rest, k times.
Round(w, S) ==
  LET after[M \in SUBSET {m \in w.net : m.to \in S}] ==
        IF M = {} THEN [w EXCEPT !.net = {}]
        ELSE LET m == CHOOSE x \in M : TRUE
             IN Obeyed(after[M \ {m}], [do |-> "deliver", at |-> m.to, msg |-> m])
  IN after[{m \in w.net : m.to \in S}]

Rounds(w, S, k) ==
  LET after[x \in 0 .. k] == IF x = 0 THEN w ELSE Round(after[x - 1], S) IN after[k]

\* held are messages that are delayed and still on their way at the end.
Played(a, o) ==
  CASE o.do = "rounds" -> [a EXCEPT !.system = Rounds(@, o.among, o.count)]
    [] o.do = "delay" -> [system |-> [a.system EXCEPT !.net = {m \in @ : m.from # o.from}],
                          held |-> {m \in a.system.net : m.from = o.from}]
    [] OTHER -> [a EXCEPT !.system = Obeyed(@, o)]

Fire(i) == [do |-> "tick", at |-> i]
Take(i, c) == [do |-> "take", at |-> i, call |-> c]
Exchange(S, k) == [do |-> "rounds", among |-> S, count |-> k]
Lose == Exchange({}, 1)

\* s1 leads term 1, and its no-op and the write Put(1, 1) are committed everywhere.
Settled == <<Fire(s1), Exchange(Server, 9), [do |-> "write", at |-> s1], Exchange(Server, 9), Lose>>

\* Call c is taken up by s1 and does not reach s3.
Lagging(c) == Settled \o <<Take(s1, c), Exchange({s1, s2}, 4), Lose>>

\* s2 and s3 time out and s2 runs for k rounds, s1 hearing of nothing.
Runs(k) == <<Fire(s2), Lose, Fire(s3), Lose, Fire(s2), Exchange({s2, s3}, k)>>

\* s2 is elected and commits its no-op.
Succeeds == Runs(9) \o <<Lose>>

\* s1 has answered read c as soon as s2 acknowledged it, and then s2 was elected;
\* the acknowledgement of s3 is still on its way.
Deposed(c) ==
  Settled \o <<Take(s1, c), Exchange(Server, 1), [do |-> "delay", from |-> s3],
               Exchange({s1}, 1)>> \o Succeeds

\* s1 has proposed write c but nobody heard of it, and then s2 was elected.
Abandoned(c) == Settled \o <<Take(s1, c), Lose>> \o Succeeds

\* Call c has been taken up by s1 and stored by s2, which is then elected; its
\* no-op is on the way.
Inherited(c) == Settled \o <<Take(s1, c), Exchange({s2}, 1), Lose>> \o Runs(4)

-----------------------------------------------------------------------------
(***************************************************************************)
(* The scenarios.  maxMessages bounds how many peer messages are sent, and *)
(* start is the script of what went before.                                *)
(***************************************************************************)

Scene(start, electors, crashers, calls, maxMessages) ==
  [start |-> start, electors |-> electors, crashers |-> crashers, calls |-> calls,
   maxMessages |-> maxMessages]

\* Reads at a leader that has been deposed without knowing, while its successor
\* commits a write.
Reads == Scene(Deposed(1), {}, {}, 1 .. 3, 11)

\* A write is retried while leadership moves and the new leader crashes.
Retries == Scene(Inherited(4), {}, {s2}, 4 .. 7, 10)

ServiceScenarios == {Reads, Retries}
RestartScenarios == {Scene(Settled, {s1}, {s1}, 1 .. 4, 10)}
SnapshotScenarios == {Scene(Lagging(1), {}, {}, {1}, 10)}
ReopenScenarios == {Scene(Settled, {}, {}, {1, 2}, 10)}
ReadRetryScenarios == {Scene(Deposed(1), {}, {}, 1 .. 3, 10)}
AbandonedScenarios == {Scene(Abandoned(1), {s1}, {s3}, {1, 2}, 13)}

StartState(script) ==
  LET after[x \in 0 .. Len(script)] ==
        IF x = 0 THEN [system |-> Initial, held |-> {}] ELSE Played(after[x - 1], script[x])
  IN after[Len(script)]

Begin ==
  /\ scene \in Scenario
  /\ \E a \in {StartState(scene.start)} : From([a.system EXCEPT !.net = @ \cup a.held])

ScenarioSpec == Begin /\ [][Next]_vars

=============================================================================
