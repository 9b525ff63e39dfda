----------------------------- MODULE StableDisk -----------------------------
(***************************************************************************)
(* What RaftNode takes for granted of its store: disk changes by one write *)
(* of the node at a time, each of which happens or does not happen, or by  *)
(* the repair of an Open.  RaftStore implements this.                      *)
(***************************************************************************)
EXTENDS RaftDisk

VARIABLE disk

HardStateWritten(d, e) ==
  /\ HardStateAccepted(d, e.term, e.vote, e.commit)
  /\ e = HardStateSaved(d, e.term, e.vote, e.commit)

EntryWritten(d, e) ==
  /\ e.log # <<>> /\ EntryAccepted(d, LastIndex(e))
  /\ e = EntryStored(d, LastIndex(e), e.log[Len(e.log)])

SnapshotWritten(d, e) == SnapshotAccepted(d, e.snap) /\ e = SnapshotSaved(d, e.snap)

FenceWritten(d, e) == FenceAccepted(d, d.snap) /\ e = Compacted(d, d.snap)

Repaired(d, e) == ~OpenRefuses(d) /\ e = Opened(d)

\* e is what one write to d makes of it.
Written(d, e) ==
  \/ HardStateWritten(d, e) \/ EntryWritten(d, e) \/ SnapshotWritten(d, e)
  \/ FenceWritten(d, e) \/ Repaired(d, e)

Init == disk = EmptyDisk

Next == Written(disk, disk')

Spec == Init /\ [][Next]_disk

=============================================================================
