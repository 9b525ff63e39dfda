---------------------------- MODULE DstSchedule ----------------------------
(***************************************************************************)
(* What dst.Engine promises of its schedule, without its heap: messages in *)
(* flight are a set, and the one that is delivered next is found by a scan *)
(* for the earliest.  DstEngine implements this.                           *)
(***************************************************************************)
EXTENDS Naturals

CONSTANTS Node,      \* node IDs
          MaxDelay   \* Config.MaxDelay

VARIABLES now,      \* virtual time
          seq,      \* the number of messages scheduled so far
          pending,  \* the messages in flight
          last,     \* when the last delivered message was due, and its number
          busy      \* Step is running

schedule == <<now, seq, pending, last, busy>>

Event == [at : Nat, seq : Nat, id : Nat, from : Node, to : Node]

\* The total order of the schedule: due time, then number.
earlier(a, b) == a.at < b.at \/ (a.at = b.at /\ a.seq < b.seq)

Init ==
  /\ now = 0 /\ seq = 0 /\ pending = {}
  /\ last = [at |-> 0, seq |-> 0]
  /\ busy = FALSE

\* New messages are numbered on from seq and due within MaxDelay.
Fresh(new) ==
  /\ new \subseteq Event
  /\ \A e \in new : /\ seq < e.seq /\ e.seq <= seq'
                    /\ now' <= e.at /\ e.at <= now' + MaxDelay
  /\ \A e, f \in new : e.seq = f.seq => e = f

\* Messages are collected: those in flight become kept and new ones.
Collected(kept) ==
  /\ kept \subseteq pending'
  /\ seq' \in Nat /\ seq <= seq'
  /\ Fresh(pending' \ kept)

Earliest(e, events) == \A f \in events : f = e \/ earlier(e, f)

StartStep ==
  /\ ~busy /\ busy' = TRUE
  /\ now' = now + 1
  /\ Collected(pending)
  /\ UNCHANGED last

Deliver ==
  /\ busy
  /\ UNCHANGED <<now, busy>>
  /\ \E e \in pending :
       /\ e.at <= now
       /\ Earliest(e, pending)
       /\ last' = [at |-> e.at, seq |-> e.seq]
       /\ Collected(pending \ {e})

EndStep ==
  /\ busy /\ busy' = FALSE
  /\ \A e \in pending : e.at > now
  /\ UNCHANGED <<now, seq, pending, last>>

Collect ==
  /\ ~busy
  /\ Collected(pending)
  /\ UNCHANGED <<now, last, busy>>

Isolate(node) ==
  /\ ~busy
  /\ pending' = {e \in pending : e.from # node /\ e.to # node}
  /\ UNCHANGED <<now, seq, last, busy>>

Next == StartStep \/ Deliver \/ EndStep \/ Collect \/ \E node \in Node : Isolate(node)

Spec == Init /\ [][Next]_schedule

-----------------------------------------------------------------------------

TypeOK ==
  /\ now \in Nat /\ seq \in Nat /\ busy \in BOOLEAN
  /\ pending \subseteq Event
  /\ last \in [at : Nat, seq : Nat]

\* Over the whole run messages are delivered in the order of the schedule: nothing
\* in flight is earlier than what has been delivered (Engine.Step, earlier).
InOrder == \A e \in pending : earlier(last, e)

\* Between steps nothing is overdue: what was due at an earlier time has been
\* delivered (Engine.Step).
Punctual == ~busy => \A e \in pending : e.at >= now

\* Sequence numbers are unique and used in order, so that the order is total.
Numbered ==
  /\ \A e \in pending : e.seq <= seq
  /\ \A e, f \in pending : e.seq = f.seq => e = f
  /\ last.seq <= seq /\ last.at <= now

ScheduleInv == TypeOK /\ Numbered /\ InOrder /\ Punctual

=============================================================================
