------------------------------ MODULE RaftDisk ------------------------------
(***************************************************************************)
(* What a Raft node has on its disk, and what each call of its durable     *)
(* store accepts and makes of it (storage/raftstore over storage/raftwal   *)
(* and storage/snapshot, as raft/node.go uses them).                       *)
(*                                                                         *)
(* A disk is a record d.  A node in memory has the same log fields, so the *)
(* operators on logs apply to both.  The log holds the entries after the   *)
(* compacted base; the base sentinel Log[0], of which only the term is     *)
(* ever read, is base and baseTerm.                                        *)
(***************************************************************************)
EXTENDS Naturals, Sequences

CONSTANT Nil  \* the node ID 0, and the absence of a command

NewEntry(t, kind, val, old, new) ==
  [term |-> t, kind |-> kind, val |-> val, old |-> old, new |-> new]
Normal(t, val) == NewEntry(t, "Normal", val, {}, {})
Noop(t) == NewEntry(t, "Noop", Nil, {}, {})
JointConfig(t, old, new) == NewEntry(t, "Joint", Nil, old, new)
FinalConfig(t, voters) == NewEntry(t, "Final", Nil, voters, {})

IsConfig(e) == e.kind \in {"Joint", "Final"}

NoSnapshot == [index |-> 0, term |-> 0, state |-> <<>>, old |-> {}, new |-> {}]

EmptyDisk == [term |-> 0, vote |-> Nil, commit |-> 0,
              base |-> 0, baseTerm |-> 0, log |-> <<>>, snap |-> NoSnapshot]

-----------------------------------------------------------------------------
(***************************************************************************)
(* The log of a node or a disk n.                                          *)
(***************************************************************************)

LastIndex(n) == n.base + Len(n.log)
HasIndex(n, k) == n.base <= k /\ k <= LastIndex(n)
EntryAt(n, k) == n.log[k - n.base]
TermAt(n, k) == IF k = n.base THEN n.baseTerm ELSE EntryAt(n, k).term

\* The log of n (or of a disk) up to and after index k.
UpTo(n, k) == SubSeq(n.log, 1, k - n.base)
After(n, k) == SubSeq(n.log, k - n.base + 1, Len(n.log))

-----------------------------------------------------------------------------
(***************************************************************************)
(* The calls: what is accepted, and the disk it leaves.                    *)
(***************************************************************************)

HardStateAccepted(d, t, v, c) ==
  /\ t >= d.term /\ c >= d.commit
  /\ t = d.term /\ d.vote # Nil => v = d.vote
HardStateSaved(d, t, v, c) == [d EXCEPT !.term = t, !.vote = v, !.commit = c]

EntryAccepted(d, k) == d.base < k /\ k <= LastIndex(d) + 1
EntryStored(d, k, e) == [d EXCEPT !.log = Append(UpTo(d, k - 1), e)]

SnapshotAccepted(d, snap) == snap.index >= d.snap.index
SnapshotSaved(d, snap) == [d EXCEPT !.snap = snap]

FenceAccepted(d, snap) == snap.index > d.base

\* Slip: a snapshot always starts a new log.
Compacted_dropsSuffix(d, snap) ==
  [d EXCEPT !.base = snap.index, !.baseTerm = snap.term, !.log = <<>>]

\* raftstore.CompactLog: keep the suffix if the log has the snapshot's entry,
\* otherwise drop the whole log (raftwal.ResetBase).
Compacted(d, snap) ==
  [d EXCEPT !.base = snap.index, !.baseTerm = snap.term,
            !.log = IF HasIndex(d, snap.index) /\ TermAt(d, snap.index) = snap.term
                      THEN After(d, snap.index) ELSE <<>>]

-----------------------------------------------------------------------------
(***************************************************************************)
(* raftstore.Open.                                                         *)
(***************************************************************************)

\* Complete a compaction whose fence a crash cut off.
Opened(d) == IF d.snap.index > d.base THEN Compacted(d, d.snap) ELSE d

OpenRefuses(d) ==
  d.base > d.snap.index \/ (d.snap.index > d.base /\ d.snap.index > d.base + Len(d.log))

=============================================================================
