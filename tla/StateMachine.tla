---------------------------- MODULE StateMachine ----------------------------
(***************************************************************************)
(* The replicated key-value machine of statemachine/machine.go.  Every     *)
(* client has one record: its last request and that request's answer, so a *)
(* request that is applied again is answered from the record.  An absent   *)
(* key and an answer that was not Found are the value Nil.                 *)
(***************************************************************************)
EXTENDS Naturals

CONSTANTS Key,     \* keys of the store
          Client,  \* client IDs, non-zero
          Nil      \* no value

NoRecord == [request |-> 0, value |-> Nil]

New == [values |-> [k \in Key |-> Nil], clients |-> [c \in Client |-> NoRecord]]

Put(client, request, key, value) ==
  [op |-> "Put", client |-> client, request |-> request, key |-> key, value |-> value]
Delete(client, request, key) ==
  [op |-> "Delete", client |-> client, request |-> request, key |-> key, value |-> Nil]

\* What Apply returns: the machine it leaves, whether there was no error, and
\* the value of the Result.
Outcome(m, ok, value) == [machine |-> m, ok |-> ok, value |-> value]

\* Slip: a request that is applied again has its effect again.
Apply_noDedup(m, e) ==
  LET previous == m.clients[e.client]
      result == IF e.op = "Put" THEN e.value ELSE m.values[e.key]
  IN IF e.request < previous.request THEN Outcome(m, FALSE, Nil)
     ELSE Outcome([values |-> [m.values EXCEPT ![e.key] = e.value],
                   clients |-> [m.clients EXCEPT ![e.client] =
                                  [request |-> e.request, value |-> result]]], TRUE, result)

\* A Delete stores Nil, the value of an absent key, and returns what was there.
Apply(m, e) ==
  LET previous == m.clients[e.client]
      result == IF e.op = "Put" THEN e.value ELSE m.values[e.key]
  IN CASE previous.request = e.request -> Outcome(m, TRUE, previous.value)
       [] e.request < previous.request -> Outcome(m, FALSE, Nil)
       [] OTHER -> Outcome([values |-> [m.values EXCEPT ![e.key] = e.value],
                            clients |-> [m.clients EXCEPT ![e.client] =
                                           [request |-> e.request, value |-> result]]],
                           TRUE, result)

\* Slip: an old request is not refused.
Stale_never(m, client, request) == FALSE

\* Cached: what is known of a request before it is proposed.
Stale(m, client, request) == request < m.clients[client].request
Cached(m, client, request) == request = m.clients[client].request

\* Slip: the client records are left out of the snapshot.
Snapshot_noClients(m) ==
  [values |-> {<<k, m.values[k]>> : k \in {x \in Key : m.values[x] # Nil}}, clients |-> {}]

\* A snapshot lists the keys that are present and the clients that have a
\* record; Restore rebuilds the maps from the lists.
Snapshot(m) ==
  [values |-> {<<k, m.values[k]>> : k \in {x \in Key : m.values[x] # Nil}},
   clients |-> {<<c, m.clients[c]>> : c \in {x \in Client : m.clients[x].request # 0}}]

Lookup(pairs, x, default) ==
  IF \E p \in pairs : p[1] = x THEN (CHOOSE p \in pairs : p[1] = x)[2] ELSE default

Restore(s) ==
  [values |-> [k \in Key |-> Lookup(s.values, k, Nil)],
   clients |-> [c \in Client |-> Lookup(s.clients, c, NoRecord)]]

=============================================================================
